-------------------------- MODULE OperatorsProofs --------------------------
(***************************************************************************)
(* For every set of strings and functions, wherever their objects are, and *)
(* every depth of the stack: the two words of a Value stand for a value of *)
(* Lox, and the handlers compute what LoxOperators promises.               *)
(***************************************************************************)
EXTENDS Operators, SequenceTheorems, TLAPS

\* The pairs of words that stand for a value of Lox.
ValueWords ==
    {Value(VAL_NIL, w) : w \in Leftover \cup {Word(0, 0, 1)}} \cup Booleans
        \cup {Value(VAL_NUMBER, x) : x \in Doubles} \cup {Value(VAL_OBJ, Address[o]) : o \in Objects}

\* While an expression is evaluated above the local, x0 and x1 hold the value
\* on top of the stack, up to the second word of nil.
TopInAcc == sp > 1 => LoxValue(acc) = LoxValue(stack[sp])

IInv == stack \in Seq(ValueWords) /\ acc \in ValueWords /\ TopInAcc

-----------------------------------------------------------------------------
(* Words.                                                                  *)

LEMMA WordParts ==
    ASSUME NEW s, NEW m, NEW l
    PROVE  Word(s, m, l).sign = s /\ Word(s, m, l).mag = m /\ Word(s, m, l).low = l
  BY DEF Word

LEMMA DoubleParts ==
    ASSUME NEW x \in Doubles
    PROVE  /\ x = Double(x.sign, x.mag) /\ x.sign \in {0, 1} /\ x.mag \in {0, 2, 3, 4} /\ x.low = 0
           /\ x # Nowhere /\ Number(x) \in Int
<1>1. PICK s \in {0, 1}, m \in {0, 2, 3, 4} : x = Double(s, m)
  BY DEF Doubles, Zero, One, Infinity, NaN
<1>2. x.sign = s /\ x.mag = m /\ x.low = 0
  BY <1>1 DEF Double, Word
<1>3. x # Nowhere
  BY <1>2 DEF Nowhere, Word
<1>4. Number(x) \in Int
  BY <1>2 DEF Number, LowHalves
<1> QED
  BY <1>1, <1>2, <1>3, <1>4

LEMMA DoubleIs == \A s \in {0, 1}, m \in {0, 2, 3, 4} : Double(s, m) \in Doubles
  BY DEF Doubles, Zero, One, Infinity, NaN

\* Arithmetic stays within the doubles.
LEMMA NegatedType == ASSUME NEW x \in Doubles PROVE Negated(x) \in Doubles
<1>1. Negated(x) = Double(1 - x.sign, x.mag)
  BY DoubleParts DEF Negated, Double, Word
<1>2. 1 - x.sign \in {0, 1}
  BY DoubleParts
<1> QED
  BY <1>1, <1>2, DoubleParts, DoubleIs

LEMMA SumType == ASSUME NEW x \in Doubles, NEW y \in Doubles PROVE fadd(x, y) \in Doubles
  BY DoubleIs DEF fadd, Zero, One, Infinity, NaN

LEMMA ProductType == ASSUME NEW x \in Doubles, NEW y \in Doubles PROVE fmul(x, y) \in Doubles
<1>1. (x.sign + y.sign) % 2 \in {0, 1}
  BY DoubleParts
<1> QED
  BY <1>1, DoubleIs DEF fmul, Zero, One, Infinity, NaN

LEMMA QuotientType == ASSUME NEW x \in Doubles, NEW y \in Doubles PROVE fdiv(x, y) \in Doubles
<1>1. PICK m \in {0, 2, 3, 4} : Reciprocal(y) = [y EXCEPT !.mag = m]
  BY DoubleParts DEF Reciprocal, Zero, Infinity
<1>2. Reciprocal(y) = Double(y.sign, m)
  BY <1>1, DoubleParts DEF Double, Word
<1>3. Reciprocal(y) \in Doubles
  BY <1>2, DoubleParts, DoubleIs
<1> QED
  BY <1>3, ProductType DEF fdiv

LEMMA DifferenceType == ASSUME NEW x \in Doubles, NEW y \in Doubles PROVE fsub(x, y) \in Doubles
  BY NegatedType, SumType DEF fsub

\* Both modules mean the same arithmetic.
LEMMA SameArithmetic ==
    /\ \A x, y : Lox!fadd(x, y) = fadd(x, y)
    /\ \A x, y : Lox!fsub(x, y) = fsub(x, y)
    /\ \A x, y : Lox!fmul(x, y) = fmul(x, y)
    /\ \A x, y : Lox!fdiv(x, y) = fdiv(x, y)
    /\ \A x : Lox!Negated(x) = Negated(x)
    /\ Lox!Doubles = Doubles
<1> USE DEF Lox!Word, Word, Lox!Zero, Zero, Lox!One, One, Lox!Infinity, Infinity, Lox!NaN, NaN,
            Lox!Double, Double, Lox!IsNaN, IsNaN, Lox!IsZero, IsZero, Lox!IsInfinite, IsInfinite,
            Lox!LowHalves, LowHalves, Lox!Number, Number
<1>1. \A x, y : Lox!fadd(x, y) = fadd(x, y)
  BY DEF Lox!fadd, fadd
<1>2. \A x : Lox!Negated(x) = Negated(x)
  BY DEF Lox!Negated, Negated
<1>3. \A x, y : Lox!fsub(x, y) = fsub(x, y)
  BY <1>1, <1>2 DEF Lox!fsub, fsub
<1>4. \A x, y : Lox!fmul(x, y) = fmul(x, y)
  BY DEF Lox!fmul, fmul
<1>5. \A y : Lox!Reciprocal(y) = Reciprocal(y)
  BY DEF Lox!Reciprocal, Reciprocal
<1>6. \A x, y : Lox!fdiv(x, y) = fdiv(x, y)
  BY <1>4, <1>5 DEF Lox!fdiv, fdiv
<1>7. Lox!Doubles = Doubles
  BY DEF Lox!Doubles, Doubles
<1> QED
  BY <1>1, <1>2, <1>3, <1>4, <1>6, <1>7

\* The condition flags that a comparison leaves.
LEMMA Comparisons ==
    ASSUME NEW x \in Doubles, NEW y \in Doubles
    PROVE  /\ mi(fcmp(x, y)) <=> Lox!LessThan(x, y)
           /\ ls(fcmp(x, y)) <=> Lox!LessThan(x, y) \/ Lox!EqualNumbers(x, y)
           /\ gt(fcmp(x, y)) <=> Lox!LessThan(y, x)
           /\ ge(fcmp(x, y)) <=> Lox!LessThan(y, x) \/ Lox!EqualNumbers(x, y)
           /\ eq(fcmp(x, y)) <=> Lox!EqualNumbers(x, y)
<1> DEFINE unordered == IsNaN(x) \/ IsNaN(y)
           less == Number(x) < Number(y)
           equal == Number(x) = Number(y)
<1>1. Number(x) \in Int /\ Number(y) \in Int
  BY DoubleParts
<1>2. /\ fcmp(x, y).n = (~unordered /\ less) /\ fcmp(x, y).z = (~unordered /\ equal)
      /\ fcmp(x, y).c = (unordered \/ Number(x) >= Number(y)) /\ fcmp(x, y).v = unordered
  BY DEF fcmp
<1>3. /\ (Number(x) >= Number(y)) <=> ~less
      /\ (Number(y) < Number(x)) <=> ~less /\ ~equal
      /\ ~(less /\ equal)
  BY <1>1
<1>4. /\ Lox!LessThan(x, y) <=> ~unordered /\ less
      /\ Lox!LessThan(y, x) <=> ~unordered /\ Number(y) < Number(x)
      /\ Lox!EqualNumbers(x, y) <=> ~unordered /\ equal
  BY DEF Lox!LessThan, Lox!EqualNumbers, Lox!Ordered, Lox!IsNaN, IsNaN, Lox!Number, Number,
         Lox!NaN, NaN, Lox!LowHalves, LowHalves
<1>5. /\ unordered \in BOOLEAN /\ less \in BOOLEAN /\ equal \in BOOLEAN
      /\ (Number(x) >= Number(y)) \in BOOLEAN /\ (Number(y) < Number(x)) \in BOOLEAN
  BY <1>1 DEF IsNaN
<1> HIDE DEF unordered, less, equal
<1>6. /\ mi(fcmp(x, y)) = (~unordered /\ less) /\ eq(fcmp(x, y)) = (~unordered /\ equal)
      /\ ls(fcmp(x, y)) = (~(unordered \/ Number(x) >= Number(y)) \/ (~unordered /\ equal))
      /\ gt(fcmp(x, y)) = (~(~unordered /\ equal) /\ (~unordered /\ less) = unordered)
      /\ ge(fcmp(x, y)) = ((~unordered /\ less) = unordered)
  BY <1>2, Zenon DEF mi, ls, gt, ge, eq
<1> QED
  BY <1>3, <1>4, <1>5, <1>6, Zenon

-----------------------------------------------------------------------------
(* Values.                                                                 *)

\* What the object of o is in Lox.
OfObject(o) == IF o \in Texts THEN Lox!string(o) ELSE Lox!function(o)

LEMMA ObjectThere ==
    ASSUME NEW o \in Objects
    PROVE  ObjectAt(Address[o]) = o /\ Object(o) = Value(VAL_OBJ, Address[o]) /\ Address[o] # Nowhere
<1>1. ObjectAt(Address[o]) = o
  BY OperatorsAssumption DEF ObjectAt
<1>2. Address[o].low >= 1
  BY OperatorsAssumption
<1>3. Address[o] # Nowhere
  BY <1>2 DEF Nowhere, Word
<1> QED
  BY <1>1, <1>3 DEF Object

\* A Value is of one of four types, and each says what it stands for.
LEMMA ValueParts ==
    ASSUME NEW t, NEW w
    PROVE  Value(t, w).type = t /\ Value(t, w).word = w
  BY DEF Value

LEMMA NilStands == ASSUME NEW w PROVE LoxValue(Value(VAL_NIL, w)) = Lox!nil
  BY ValueParts DEF LoxValue, VAL_NIL, VAL_BOOL, VAL_NUMBER, VAL_OBJ, Lox!nil

LEMMA BoolStands ==
    ASSUME NEW b \in BOOLEAN
    PROVE  LoxValue(Bool(b)) = Lox!boolean(b)
<1>1. Bool(b).type = VAL_BOOL /\ Bool(b).word.low = IF b THEN 1 ELSE 0
  BY ValueParts, WordParts DEF Bool
<1>2. (Bool(b).word.low = 1) = b
  BY <1>1
<1> QED
  BY <1>1, <1>2 DEF LoxValue, VAL_NIL, VAL_BOOL, VAL_NUMBER, VAL_OBJ, Lox!boolean

LEMMA NumberStands == ASSUME NEW x PROVE LoxValue(Value(VAL_NUMBER, x)) = Lox!number(x)
  BY ValueParts DEF LoxValue, VAL_NIL, VAL_BOOL, VAL_NUMBER, VAL_OBJ, Lox!number

LEMMA ObjectStands ==
    ASSUME NEW o \in Objects
    PROVE  LoxValue(Value(VAL_OBJ, Address[o])) = OfObject(o)
  BY ValueParts, ObjectThere
  DEF LoxValue, VAL_NIL, VAL_BOOL, VAL_NUMBER, VAL_OBJ, OfObject, Lox!string, Lox!function

IsNil(v) == v.type = VAL_NIL /\ LoxValue(v) = Lox!nil
IsBool(v, b) == v = Bool(b) /\ v.type = VAL_BOOL /\ v.word.low = (IF b THEN 1 ELSE 0) /\ LoxValue(v) = Lox!boolean(b)
IsNumber(v, x) == v.type = VAL_NUMBER /\ v.word = x /\ LoxValue(v) = Lox!number(x)
IsObject(v, o) == v.type = VAL_OBJ /\ v.word = Address[o] /\ LoxValue(v) = OfObject(o)

LEMMA ValueCases ==
    ASSUME NEW v \in ValueWords
    PROVE  \/ IsNil(v)
           \/ \E b \in BOOLEAN : IsBool(v, b)
           \/ \E x \in Doubles : IsNumber(v, x)
           \/ \E o \in Objects : IsObject(v, o)
<1>1. CASE \E w : v = Value(VAL_NIL, w)
  BY <1>1, NilStands, ValueParts DEF IsNil
<1>2. CASE v \in Booleans
  <2>1. PICK b \in BOOLEAN : v = Bool(b)
    BY <1>2 DEF Booleans
  <2>2. v.type = VAL_BOOL /\ v.word.low = (IF b THEN 1 ELSE 0)
    BY <2>1, ValueParts, WordParts DEF Bool
  <2> QED
    BY <2>1, <2>2, BoolStands DEF IsBool
<1>3. CASE \E x \in Doubles : v = Value(VAL_NUMBER, x)
  BY <1>3, NumberStands, ValueParts DEF IsNumber
<1>4. CASE \E o \in Objects : v = Value(VAL_OBJ, Address[o])
  BY <1>4, ObjectStands, ValueParts DEF IsObject
<1> QED
  BY <1>1, <1>2, <1>3, <1>4 DEF ValueWords

\* Values of different types are different.
LEMMA Types ==
    /\ Lox!nil.type = "nil" /\ Lox!error.type = "error"
    /\ \A b : Lox!boolean(b).type = "boolean" /\ Lox!boolean(b).boolean = b
    /\ \A x : Lox!number(x).type = "number" /\ Lox!number(x).number = x
    /\ \A t : Lox!string(t).type = "string" /\ Lox!string(t).string = t
    /\ \A f : Lox!function(f).type = "function" /\ Lox!function(f).function = f
  BY DEF Lox!nil, Lox!error, Lox!boolean, Lox!number, Lox!string, Lox!function

\* So are the two booleans.
LEMMA BooleansDiffer == \A b, c : Lox!boolean(b) = Lox!boolean(c) => b = c
<1>1. SUFFICES ASSUME NEW b, NEW c, Lox!boolean(b) = Lox!boolean(c) PROVE b = c
  OBVIOUS
<1>2. Lox!boolean(b).boolean = b /\ Lox!boolean(c).boolean = c
  BY DEF Lox!boolean
<1> QED
  BY <1>1, <1>2

\* Every value of Lox that two words stand for has the type they say.
LEMMA TypesAgree ==
    ASSUME NEW v \in ValueWords
    PROVE  /\ v.type \in {VAL_NIL, VAL_BOOL, VAL_NUMBER, VAL_OBJ}
           /\ v.type = VAL_NIL <=> LoxValue(v).type = "nil"
           /\ v.type = VAL_BOOL <=> LoxValue(v).type = "boolean"
           /\ v.type = VAL_NUMBER <=> LoxValue(v).type = "number"
           /\ v.type = VAL_OBJ <=> LoxValue(v).type \in {"string", "function"}
           /\ LoxValue(v) # Lox!error
<1>1. CASE IsNil(v)
  BY <1>1, Types DEF IsNil, VAL_NIL, VAL_BOOL, VAL_NUMBER, VAL_OBJ
<1>2. CASE \E b \in BOOLEAN : IsBool(v, b)
  BY <1>2, Types DEF IsBool, VAL_NIL, VAL_BOOL, VAL_NUMBER, VAL_OBJ
<1>3. CASE \E x \in Doubles : IsNumber(v, x)
  BY <1>3, Types DEF IsNumber, VAL_NIL, VAL_BOOL, VAL_NUMBER, VAL_OBJ
<1>4. CASE \E o \in Objects : IsObject(v, o)
  BY <1>4, Types DEF IsObject, OfObject, VAL_NIL, VAL_BOOL, VAL_NUMBER, VAL_OBJ
<1> QED
  BY <1>1, <1>2, <1>3, <1>4, ValueCases

LEMMA NumberCase ==
    ASSUME NEW v \in ValueWords, v.type = VAL_NUMBER
    PROVE  v.word \in Doubles /\ LoxValue(v) = Lox!number(v.word) /\ LoxValue(v).number = v.word
<1>1. PICK x \in Doubles : IsNumber(v, x)
  BY ValueCases DEF IsNil, IsBool, IsObject, VAL_NIL, VAL_BOOL, VAL_NUMBER, VAL_OBJ
<1> QED
  BY <1>1, Types DEF IsNumber

LEMMA ObjectCase ==
    ASSUME NEW v \in ValueWords, v.type = VAL_OBJ
    PROVE  /\ ObjectAt(v.word) \in Objects /\ v.word = Address[ObjectAt(v.word)]
           /\ LoxValue(v) = OfObject(ObjectAt(v.word))
           /\ ObjType(v.word) = OBJ_STRING <=> ObjectAt(v.word) \in Texts
           /\ LoxValue(v).type = "string" <=> ObjectAt(v.word) \in Texts
<1>1. PICK o \in Objects : IsObject(v, o)
  BY ValueCases DEF IsNil, IsBool, IsNumber, VAL_NIL, VAL_BOOL, VAL_NUMBER, VAL_OBJ
<1>2. ObjectAt(v.word) = o
  BY <1>1, ObjectThere DEF IsObject
<1> QED
  BY <1>1, <1>2, Types DEF IsObject, ObjType, OBJ_STRING, OBJ_CLOSURE, OfObject

\* The test of a condition, and not.
LEMMA FalseyIs ==
    ASSUME NEW v \in ValueWords
    PROVE  JumpTaken(v) <=> Lox!Falsey(LoxValue(v))
<1>1. CASE IsNil(v)
  BY <1>1 DEF IsNil, JumpTaken, Lox!Falsey
<1>2. CASE \E b \in BOOLEAN : IsBool(v, b)
  <2>1. PICK b \in BOOLEAN : IsBool(v, b)
    BY <1>2
  <2>2. JumpTaken(v) <=> ~b
    BY <2>1 DEF IsBool, JumpTaken, VAL_NIL, VAL_BOOL
  <2>3. Lox!boolean(b) # Lox!nil /\ (Lox!boolean(b) = Lox!boolean(FALSE) <=> b = FALSE)
    <3>1. Lox!boolean(b) # Lox!nil
      BY Types
    <3> QED
      BY <3>1, BooleansDiffer, Zenon
  <2>4. LoxValue(v) = Lox!boolean(b)
    BY <2>1 DEF IsBool
  <2>5. Lox!Falsey(LoxValue(v)) <=> b = FALSE
    BY <2>3, <2>4, Zenon DEF Lox!Falsey
  <2> QED
    BY <2>2, <2>5
<1>3. CASE v.type \in {VAL_NUMBER, VAL_OBJ}
  <2>1. LoxValue(v).type # "nil" /\ LoxValue(v).type # "boolean"
    BY <1>3, TypesAgree DEF VAL_NIL, VAL_BOOL, VAL_NUMBER, VAL_OBJ
  <2>2. ~Lox!Falsey(LoxValue(v))
    BY <2>1, Types DEF Lox!Falsey
  <2> QED
    BY <1>3, <2>2 DEF JumpTaken, VAL_NIL, VAL_BOOL, VAL_NUMBER, VAL_OBJ
<1> QED
  BY <1>1, <1>2, <1>3, ValueCases DEF IsNumber, IsObject

\* Equality: of nil there is one, of each string one object.
LEMMA EqualIs ==
    ASSUME NEW a \in ValueWords, NEW b \in ValueWords
    PROVE  (a.type = b.type /\ SameContents(a, b)) <=> Lox!Equal(LoxValue(a), LoxValue(b))
<1>1. CASE a.type = VAL_NUMBER /\ b.type = VAL_NUMBER
  <2>1. /\ a.word \in Doubles /\ b.word \in Doubles
        /\ LoxValue(a).type = "number" /\ LoxValue(b).type = "number"
        /\ LoxValue(a).number = a.word /\ LoxValue(b).number = b.word
    BY <1>1, NumberCase, TypesAgree
  <2>2. SameContents(a, b) <=> eq(fcmp(a.word, b.word))
    BY <1>1 DEF SameContents, VAL_NIL, VAL_BOOL, VAL_NUMBER, VAL_OBJ
  <2>3. Lox!Equal(LoxValue(a), LoxValue(b)) <=> Lox!EqualNumbers(a.word, b.word)
    BY <2>1 DEF Lox!Equal, Lox!Both
  <2> QED
    BY <1>1, <2>1, <2>2, <2>3, Comparisons
<1>2. CASE ~(a.type = VAL_NUMBER /\ b.type = VAL_NUMBER)
  <2>1. Lox!Equal(LoxValue(a), LoxValue(b)) <=> LoxValue(a) = LoxValue(b)
    BY <1>2, TypesAgree DEF Lox!Equal, Lox!Both
  <2>2. CASE a.type # b.type
    <3>1. LoxValue(a) # LoxValue(b)
      BY <2>2, TypesAgree
    <3> QED
      BY <2>1, <2>2, <3>1
  <2>3. CASE a.type = VAL_NIL /\ b.type = VAL_NIL
    <3>1. LoxValue(a) = Lox!nil /\ LoxValue(b) = Lox!nil
      BY <2>3, ValueCases DEF IsNil, IsBool, IsNumber, IsObject, VAL_NIL, VAL_BOOL, VAL_NUMBER, VAL_OBJ
    <3>2. SameContents(a, b)
      BY <2>3 DEF SameContents, VAL_NIL, VAL_BOOL, VAL_NUMBER, VAL_OBJ
    <3> QED
      BY <2>1, <2>3, <3>1, <3>2
  <2>4. CASE a.type = VAL_BOOL /\ b.type = VAL_BOOL
    <3>1. PICK p \in BOOLEAN : IsBool(a, p)
      BY <2>4, ValueCases DEF IsNil, IsNumber, IsObject, VAL_NIL, VAL_BOOL, VAL_NUMBER, VAL_OBJ
    <3>2. PICK q \in BOOLEAN : IsBool(b, q)
      BY <2>4, ValueCases DEF IsNil, IsNumber, IsObject, VAL_NIL, VAL_BOOL, VAL_NUMBER, VAL_OBJ
    <3>3. SameContents(a, b) <=> a.word.low = b.word.low
      BY <2>4 DEF SameContents, VAL_NIL, VAL_BOOL, VAL_NUMBER, VAL_OBJ
    <3>4. a.word.low = b.word.low <=> p = q
      BY <3>1, <3>2 DEF IsBool
    <3>5. LoxValue(a) = Lox!boolean(p) /\ LoxValue(b) = Lox!boolean(q)
      BY <3>1, <3>2 DEF IsBool
    <3>6. Lox!boolean(p) = Lox!boolean(q) <=> p = q
      BY BooleansDiffer, Zenon
    <3> QED
      BY <2>1, <2>4, <3>3, <3>4, <3>5, <3>6, Zenon
  <2>5. CASE a.type = VAL_OBJ /\ b.type = VAL_OBJ
    <3> DEFINE o == ObjectAt(a.word)
               p == ObjectAt(b.word)
    <3>1. /\ o \in Objects /\ a.word = Address[o] /\ LoxValue(a) = OfObject(o)
          /\ p \in Objects /\ b.word = Address[p] /\ LoxValue(b) = OfObject(p)
      BY <2>5, ObjectCase
    <3>2. SameContents(a, b) <=> a.word = b.word
      BY <2>5 DEF SameContents, VAL_NIL, VAL_BOOL, VAL_NUMBER, VAL_OBJ
    <3>3. a.word = b.word <=> o = p
      <4> HIDE DEF o, p
      <4> QED
        BY <3>1, OperatorsAssumption
    <3> HIDE DEF o, p
    <3>4. OfObject(o) = OfObject(p) <=> o = p
      BY Types DEF OfObject
    <3> QED
      BY <2>1, <2>5, <3>1, <3>2, <3>3, <3>4
  <2> QED
    BY <1>2, <2>2, <2>3, <2>4, <2>5, TypesAgree
<1> QED
  BY <1>1, <1>2

-----------------------------------------------------------------------------
(* The handlers.                                                           *)

\* What a handler may leave: a value of Lox with the same meaning, or an error.
\* Object Nowhere stands for a string outside Texts.
Means(v, w) ==
    \/ v = Fail /\ w = Lox!error
    \/ v \in ValueWords /\ LoxValue(v) = w
    \/ v.word = Nowhere /\ v # Fail

LEMMA NumberMeans == ASSUME NEW x \in Doubles PROVE Means(Value(VAL_NUMBER, x), Lox!number(x))
  BY NumberStands DEF Means, ValueWords

LEMMA BoolMeans ==
    ASSUME NEW b, NEW c, b \in BOOLEAN, c \in BOOLEAN, b <=> c
    PROVE  Means(Bool(b), Lox!boolean(c))
<1>1. b = c
  BY Zenon
<1>2. Bool(b) \in ValueWords
  <2>1. b = TRUE \/ b = FALSE
    OBVIOUS
  <2> QED
    BY <2>1, Zenon DEF ValueWords, Booleans
<1> QED
  BY <1>1, <1>2, BoolStands DEF Means

LEMMA FailMeans == Means(Fail, Lox!error)
  BY DEF Means

\* The type checks of the arithmetic handlers.
LEMMA ChecksNumbers ==
    ASSUME NEW a \in ValueWords, NEW b \in ValueWords
    PROVE  /\ NotNumbers(a, b) <=> ~(a.type = VAL_NUMBER /\ b.type = VAL_NUMBER)
           /\ Lox!Both("number", LoxValue(a), LoxValue(b)) <=> a.type = VAL_NUMBER /\ b.type = VAL_NUMBER
  BY TypesAgree DEF NotNumbers, cset, csetm, Lox!Both

\* One lemma per shape of handler: arithmetic, comparisons, the rest.
LEMMA CheckedMeans ==
    ASSUME NEW a \in ValueWords, NEW b \in ValueWords, NEW op,
           op \notin {"equal", "not_equal", "add"}, NEW result,
           a.type = VAL_NUMBER /\ b.type = VAL_NUMBER =>
              Means(result, Lox!OfNumbers(op, a.word, b.word))
    PROVE  Means(Checked(a, b, result), Lox!Binary(op, LoxValue(a), LoxValue(b)))
<1>1. CASE a.type = VAL_NUMBER /\ b.type = VAL_NUMBER
  <2>1. LoxValue(a).number = a.word /\ LoxValue(b).number = b.word
    BY <1>1, NumberCase
  <2>2. Lox!Binary(op, LoxValue(a), LoxValue(b)) = Lox!OfNumbers(op, a.word, b.word)
    BY <1>1, <2>1, ChecksNumbers DEF Lox!Binary
  <2>3. Checked(a, b, result) = result
    BY <1>1, ChecksNumbers DEF Checked
  <2> QED
    BY <1>1, <2>2, <2>3
<1>2. CASE ~(a.type = VAL_NUMBER /\ b.type = VAL_NUMBER)
  <2>1. Lox!Binary(op, LoxValue(a), LoxValue(b)) = Lox!error
    BY <1>2, ChecksNumbers DEF Lox!Binary
  <2>2. Checked(a, b, result) = Fail
    BY <1>2, ChecksNumbers DEF Checked
  <2> QED
    BY <2>1, <2>2, FailMeans
<1> QED
  BY <1>1, <1>2

LEMMA SubtractMeans ==
    ASSUME NEW a \in ValueWords, NEW b \in ValueWords
    PROVE  Means(op_subtract(a, b), Lox!Binary("subtract", LoxValue(a), LoxValue(b)))
<1> DEFINE r == Value(VAL_NUMBER, fsub(a.word, b.word))
<1>1. ASSUME a.type = VAL_NUMBER /\ b.type = VAL_NUMBER
      PROVE  Means(r, Lox!OfNumbers("subtract", a.word, b.word))
  <2>1. fsub(a.word, b.word) \in Doubles
    BY <1>1, NumberCase, DifferenceType
  <2>2. Lox!OfNumbers("subtract", a.word, b.word) = Lox!number(fsub(a.word, b.word))
    BY SameArithmetic DEF Lox!OfNumbers
  <2> QED
    BY <2>1, <2>2, NumberMeans
<1> HIDE DEF r
<1>2. "subtract" \notin {"equal", "not_equal", "add"}
  OBVIOUS
<1>3. Means(Checked(a, b, r), Lox!Binary("subtract", LoxValue(a), LoxValue(b)))
  BY <1>1, <1>2, CheckedMeans
<1> QED
  BY <1>3 DEF op_subtract, r

LEMMA MultiplyMeans ==
    ASSUME NEW a \in ValueWords, NEW b \in ValueWords
    PROVE  Means(op_multiply(a, b), Lox!Binary("multiply", LoxValue(a), LoxValue(b)))
<1> DEFINE r == Value(VAL_NUMBER, fmul(a.word, b.word))
<1>1. ASSUME a.type = VAL_NUMBER /\ b.type = VAL_NUMBER
      PROVE  Means(r, Lox!OfNumbers("multiply", a.word, b.word))
  <2>1. fmul(a.word, b.word) \in Doubles
    BY <1>1, NumberCase, ProductType
  <2>2. Lox!OfNumbers("multiply", a.word, b.word) = Lox!number(fmul(a.word, b.word))
    BY SameArithmetic DEF Lox!OfNumbers
  <2> QED
    BY <2>1, <2>2, NumberMeans
<1> HIDE DEF r
<1>2. "multiply" \notin {"equal", "not_equal", "add"}
  OBVIOUS
<1>3. Means(Checked(a, b, r), Lox!Binary("multiply", LoxValue(a), LoxValue(b)))
  BY <1>1, <1>2, CheckedMeans
<1> QED
  BY <1>3 DEF op_multiply, r

LEMMA DivideMeans ==
    ASSUME NEW a \in ValueWords, NEW b \in ValueWords
    PROVE  Means(op_divide(a, b), Lox!Binary("divide", LoxValue(a), LoxValue(b)))
<1> DEFINE r == Value(VAL_NUMBER, fdiv(a.word, b.word))
<1>1. ASSUME a.type = VAL_NUMBER /\ b.type = VAL_NUMBER
      PROVE  Means(r, Lox!OfNumbers("divide", a.word, b.word))
  <2>1. fdiv(a.word, b.word) \in Doubles
    BY <1>1, NumberCase, QuotientType
  <2>2. Lox!OfNumbers("divide", a.word, b.word) = Lox!number(fdiv(a.word, b.word))
    BY SameArithmetic DEF Lox!OfNumbers
  <2> QED
    BY <2>1, <2>2, NumberMeans
<1> HIDE DEF r
<1>2. "divide" \notin {"equal", "not_equal", "add"}
  OBVIOUS
<1>3. Means(Checked(a, b, r), Lox!Binary("divide", LoxValue(a), LoxValue(b)))
  BY <1>1, <1>2, CheckedMeans
<1> QED
  BY <1>3 DEF op_divide, r

LEMMA LessMeans ==
    ASSUME NEW a \in ValueWords, NEW b \in ValueWords
    PROVE  Means(op_less(a, b), Lox!Binary("less", LoxValue(a), LoxValue(b)))
<1> DEFINE flag == mi(fcmp(a.word, b.word))
           r == Bool(flag)
<1>1. ASSUME a.type = VAL_NUMBER /\ b.type = VAL_NUMBER
      PROVE  Means(r, Lox!OfNumbers("less", a.word, b.word))
  <2> DEFINE c == Lox!LessThan(a.word, b.word)
  <2>1. flag <=> c
    BY <1>1, NumberCase, Comparisons
  <2>2. flag \in BOOLEAN /\ c \in BOOLEAN
    BY DEF mi, Lox!LessThan, Lox!EqualNumbers, Lox!Ordered, fcmp
  <2>3. Lox!OfNumbers("less", a.word, b.word) = Lox!boolean(c)
    BY DEF Lox!OfNumbers
  <2> HIDE DEF flag, c
  <2> QED
    BY <2>1, <2>2, <2>3, BoolMeans
<1> HIDE DEF r
<1>2. "less" \notin {"equal", "not_equal", "add"}
  OBVIOUS
<1>3. Means(Checked(a, b, r), Lox!Binary("less", LoxValue(a), LoxValue(b)))
  BY <1>1, <1>2, CheckedMeans
<1>4. op_less(a, b) = Checked(a, b, r)
  BY ChecksNumbers DEF op_less, Checked, r
<1> QED
  BY <1>3, <1>4

LEMMA LessEqualMeans ==
    ASSUME NEW a \in ValueWords, NEW b \in ValueWords
    PROVE  Means(op_less_equal(a, b), Lox!Binary("less_equal", LoxValue(a), LoxValue(b)))
<1> DEFINE flag == ls(fcmp(a.word, b.word))
           r == Bool(flag)
<1>1. ASSUME a.type = VAL_NUMBER /\ b.type = VAL_NUMBER
      PROVE  Means(r, Lox!OfNumbers("less_equal", a.word, b.word))
  <2> DEFINE c == Lox!LessThan(a.word, b.word) \/ Lox!EqualNumbers(a.word, b.word)
  <2>1. flag <=> c
    BY <1>1, NumberCase, Comparisons
  <2>2. flag \in BOOLEAN /\ c \in BOOLEAN
    BY DEF ls, Lox!LessThan, Lox!EqualNumbers, Lox!Ordered, fcmp
  <2>3. Lox!OfNumbers("less_equal", a.word, b.word) = Lox!boolean(c)
    BY DEF Lox!OfNumbers
  <2> HIDE DEF flag, c
  <2> QED
    BY <2>1, <2>2, <2>3, BoolMeans
<1> HIDE DEF r
<1>2. "less_equal" \notin {"equal", "not_equal", "add"}
  OBVIOUS
<1>3. Means(Checked(a, b, r), Lox!Binary("less_equal", LoxValue(a), LoxValue(b)))
  BY <1>1, <1>2, CheckedMeans
<1> QED
  BY <1>3 DEF op_less_equal, r

LEMMA GreaterMeans ==
    ASSUME NEW a \in ValueWords, NEW b \in ValueWords
    PROVE  Means(op_greater(a, b), Lox!Binary("greater", LoxValue(a), LoxValue(b)))
<1> DEFINE flag == gt(fcmp(a.word, b.word))
           r == Bool(flag)
<1>1. ASSUME a.type = VAL_NUMBER /\ b.type = VAL_NUMBER
      PROVE  Means(r, Lox!OfNumbers("greater", a.word, b.word))
  <2> DEFINE c == Lox!LessThan(b.word, a.word)
  <2>1. flag <=> c
    BY <1>1, NumberCase, Comparisons
  <2>2. flag \in BOOLEAN /\ c \in BOOLEAN
    BY DEF gt, Lox!LessThan, Lox!EqualNumbers, Lox!Ordered, fcmp
  <2>3. Lox!OfNumbers("greater", a.word, b.word) = Lox!boolean(c)
    BY DEF Lox!OfNumbers
  <2> HIDE DEF flag, c
  <2> QED
    BY <2>1, <2>2, <2>3, BoolMeans
<1> HIDE DEF r
<1>2. "greater" \notin {"equal", "not_equal", "add"}
  OBVIOUS
<1>3. Means(Checked(a, b, r), Lox!Binary("greater", LoxValue(a), LoxValue(b)))
  BY <1>1, <1>2, CheckedMeans
<1> QED
  BY <1>3 DEF op_greater, r

LEMMA GreaterEqualMeans ==
    ASSUME NEW a \in ValueWords, NEW b \in ValueWords
    PROVE  Means(op_greater_equal(a, b), Lox!Binary("greater_equal", LoxValue(a), LoxValue(b)))
<1> DEFINE flag == ge(fcmp(a.word, b.word))
           r == Bool(flag)
<1>1. ASSUME a.type = VAL_NUMBER /\ b.type = VAL_NUMBER
      PROVE  Means(r, Lox!OfNumbers("greater_equal", a.word, b.word))
  <2> DEFINE c == Lox!LessThan(b.word, a.word) \/ Lox!EqualNumbers(a.word, b.word)
  <2>1. flag <=> c
    BY <1>1, NumberCase, Comparisons
  <2>2. flag \in BOOLEAN /\ c \in BOOLEAN
    BY DEF ge, Lox!LessThan, Lox!EqualNumbers, Lox!Ordered, fcmp
  <2>3. Lox!OfNumbers("greater_equal", a.word, b.word) = Lox!boolean(c)
    BY DEF Lox!OfNumbers
  <2> HIDE DEF flag, c
  <2> QED
    BY <2>1, <2>2, <2>3, BoolMeans
<1> HIDE DEF r
<1>2. "greater_equal" \notin {"equal", "not_equal", "add"}
  OBVIOUS
<1>3. Means(Checked(a, b, r), Lox!Binary("greater_equal", LoxValue(a), LoxValue(b)))
  BY <1>1, <1>2, CheckedMeans
<1> QED
  BY <1>3 DEF op_greater_equal, r

\* Numbers are added, strings are concatenated.
LEMMA AddMeans ==
    ASSUME NEW a \in ValueWords, NEW b \in ValueWords
    PROVE  Means(op_add(a, b), Lox!Binary("add", LoxValue(a), LoxValue(b)))
<1>1. CASE a.type = VAL_NUMBER /\ b.type = VAL_NUMBER
  <2>1. fadd(a.word, b.word) \in Doubles
    BY <1>1, NumberCase, SumType
  <2>2. LoxValue(a).number = a.word /\ LoxValue(b).number = b.word
    BY <1>1, NumberCase
  <2>3. Lox!Binary("add", LoxValue(a), LoxValue(b)) = Lox!OfNumbers("add", a.word, b.word)
    <3>1. /\ Lox!Both("number", LoxValue(a), LoxValue(b))
          /\ ~Lox!Both("string", LoxValue(a), LoxValue(b))
      BY <1>1, ChecksNumbers DEF Lox!Both
    <3> QED
      BY <2>2, <3>1 DEF Lox!Binary
  <2>4. Lox!OfNumbers("add", a.word, b.word) = Lox!number(fadd(a.word, b.word))
    BY SameArithmetic DEF Lox!OfNumbers
  <2>5. op_add(a, b) = Value(VAL_NUMBER, fadd(a.word, b.word))
    BY <1>1 DEF op_add, VAL_NUMBER, VAL_OBJ
  <2> QED
    BY <2>1, <2>3, <2>4, <2>5, NumberMeans
<1> DEFINE o == ObjectAt(a.word)
           p == ObjectAt(b.word)
<1>2. CASE a.type = VAL_OBJ /\ b.type = VAL_OBJ /\ o \in Texts /\ p \in Texts
  <2>1. /\ LoxValue(a) = Lox!string(o) /\ LoxValue(b) = Lox!string(p)
        /\ ObjType(a.word) = OBJ_STRING /\ ObjType(b.word) = OBJ_STRING
    BY <1>2, ObjectCase DEF OfObject
  <2>2. op_add(a, b) = Object(o \o p)
    BY <1>2, <2>1 DEF op_add, VAL_NUMBER, VAL_OBJ
  <2> HIDE DEF o, p
  <2>3. Lox!Binary("add", LoxValue(a), LoxValue(b)) = Lox!string(o \o p)
    <3>1. /\ LoxValue(a).type = "string" /\ LoxValue(b).type = "string"
          /\ LoxValue(a).string = o /\ LoxValue(b).string = p
      BY <2>1, Types
    <3>2. ~Lox!Both("number", LoxValue(a), LoxValue(b)) /\ Lox!Both("string", LoxValue(a), LoxValue(b))
      BY <3>1 DEF Lox!Both
    <3>3. Lox!Binary("add", LoxValue(a), LoxValue(b))
             = Lox!string(LoxValue(a).string \o LoxValue(b).string)
      BY <3>2 DEF Lox!Binary
    <3> QED
      BY <3>1, <3>3, Zenon
  <2> DEFINE q == o \o p
  <2>4. q \notin Functions
    BY <1>2, OperatorsAssumption
  <2> HIDE DEF q
  <2>5. CASE q \in Texts
    <3>1. q \in Objects /\ OfObject(q) = Lox!string(q)
      BY <2>5 DEF Objects, OfObject
    <3>2. Object(q) = Value(VAL_OBJ, Address[q]) /\ LoxValue(Object(q)) = Lox!string(q)
      BY <3>1, ObjectThere, ObjectStands
    <3>3. Object(q) \in ValueWords
      BY <3>1, <3>2 DEF ValueWords
    <3> QED
      BY <2>2, <2>3, <3>2, <3>3 DEF Means, q
  <2>6. CASE q \notin Texts
    <3>1. Object(q) = Value(VAL_OBJ, Nowhere)
      BY <2>4, <2>6 DEF Object, Objects
    <3>2. Object(q).word = Nowhere /\ Object(q).type = VAL_OBJ
      BY <3>1, ValueParts
    <3>3. Object(q) # Fail
      BY <3>2, ValueParts DEF Fail, VAL_OBJ
    <3> QED
      BY <2>2, <3>2, <3>3 DEF Means, q
  <2> QED
    BY <2>5, <2>6
<1>3. CASE a.type = VAL_OBJ /\ b.type = VAL_OBJ /\ ~(o \in Texts /\ p \in Texts)
  <2>1. ~(ObjType(a.word) = OBJ_STRING /\ ObjType(b.word) = OBJ_STRING)
    BY <1>3, ObjectCase
  <2>2. op_add(a, b) = Fail
    BY <1>3, <2>1 DEF op_add, VAL_NUMBER, VAL_OBJ
  <2>3. ~Lox!Both("string", LoxValue(a), LoxValue(b)) /\ ~Lox!Both("number", LoxValue(a), LoxValue(b))
    <3>1. ~(LoxValue(a).type = "string" /\ LoxValue(b).type = "string")
      BY <1>3, ObjectCase
    <3>2. ~(a.type = VAL_NUMBER)
      BY <1>3 DEF VAL_NUMBER, VAL_OBJ
    <3> QED
      BY <3>1, <3>2, ChecksNumbers DEF Lox!Both
  <2>4. Lox!Binary("add", LoxValue(a), LoxValue(b)) = Lox!error
    BY <2>3 DEF Lox!Binary
  <2> QED
    BY <2>2, <2>4, FailMeans
<1>4. CASE /\ ~(a.type = VAL_NUMBER /\ b.type = VAL_NUMBER)
           /\ ~(a.type = VAL_OBJ /\ b.type = VAL_OBJ)
  <2>1. op_add(a, b) = Fail
    BY <1>4 DEF op_add, VAL_NUMBER, VAL_OBJ
  <2>2. ~Lox!Both("string", LoxValue(a), LoxValue(b)) /\ ~Lox!Both("number", LoxValue(a), LoxValue(b))
    BY <1>4, TypesAgree DEF Lox!Both
  <2>3. Lox!Binary("add", LoxValue(a), LoxValue(b)) = Lox!error
    BY <2>2 DEF Lox!Binary
  <2> QED
    BY <2>1, <2>3, FailMeans
<1> QED
  BY <1>1, <1>2, <1>3, <1>4

LEMMA EqualsMean ==
    ASSUME NEW a \in ValueWords, NEW b \in ValueWords
    PROVE  /\ Means(op_equal(a, b), Lox!Binary("equal", LoxValue(a), LoxValue(b)))
           /\ Means(op_not_equal(a, b), Lox!Binary("not_equal", LoxValue(a), LoxValue(b)))
<1> DEFINE same == a.type = b.type /\ SameContents(a, b)
           equal == Lox!Equal(LoxValue(a), LoxValue(b))
<1>1. /\ op_equal(a, b) = Bool(same) /\ op_not_equal(a, b) = Bool(~same)
      /\ Lox!Binary("equal", LoxValue(a), LoxValue(b)) = Lox!boolean(equal)
      /\ Lox!Binary("not_equal", LoxValue(a), LoxValue(b)) = Lox!boolean(~equal)
  BY DEF op_equal, op_not_equal, Lox!Binary
<1>2. same <=> equal
  BY EqualIs
<1>3. same \in BOOLEAN
  OBVIOUS
<1>4. equal \in BOOLEAN
  BY DEF Lox!Equal, Lox!EqualNumbers, Lox!Ordered
<1> HIDE DEF same, equal
<1>5. Means(Bool(same), Lox!boolean(equal))
  BY <1>2, <1>3, <1>4, BoolMeans
<1>6. Means(Bool(~same), Lox!boolean(~equal))
  BY <1>2, BoolMeans, Zenon
<1> QED
  BY <1>1, <1>5, <1>6

LEMMA UnaryMeans ==
    ASSUME NEW a \in ValueWords
    PROVE  /\ Means(op_not(a), Lox!Unary("not", LoxValue(a)))
           /\ Means(op_negate(a), Lox!Unary("negate", LoxValue(a)))
<1>1. Means(op_not(a), Lox!Unary("not", LoxValue(a)))
  <2> DEFINE test == (a.type = VAL_BOOL /\ a.word.low = 0) \/ a.type = VAL_NIL
             falsey == Lox!Falsey(LoxValue(a))
  <2>1. op_not(a) = Bool(test) /\ Lox!Unary("not", LoxValue(a)) = Lox!boolean(falsey)
    BY DEF op_not, Lox!Unary
  <2>2. test <=> falsey
    BY FalseyIs DEF JumpTaken
  <2>3. falsey \in BOOLEAN /\ test \in BOOLEAN
    BY DEF Lox!Falsey
  <2> HIDE DEF test, falsey
  <2> QED
    BY <2>1, <2>2, <2>3, BoolMeans
<1>2. Means(op_negate(a), Lox!Unary("negate", LoxValue(a)))
  <2>1. CASE a.type = VAL_NUMBER
    <3>1. op_negate(a) = Value(VAL_NUMBER, Negated(a.word))
      BY <2>1 DEF op_negate
    <3>2. LoxValue(a).type = "number" /\ LoxValue(a).number = a.word /\ a.word \in Doubles
      BY <2>1, NumberCase, TypesAgree
    <3>3. Lox!Unary("negate", LoxValue(a)) = Lox!number(Negated(a.word))
      BY <3>2, SameArithmetic DEF Lox!Unary
    <3> QED
      BY <3>1, <3>2, <3>3, NegatedType, NumberMeans
  <2>2. CASE a.type # VAL_NUMBER
    <3>1. op_negate(a) = Fail
      BY <2>2 DEF op_negate
    <3>2. LoxValue(a).type # "number"
      BY <2>2, TypesAgree
    <3>3. Lox!Unary("negate", LoxValue(a)) = Lox!error
      BY <3>2 DEF Lox!Unary
    <3> QED
      BY <3>1, <3>3, FailMeans
  <2> QED
    BY <2>1, <2>2
<1> QED
  BY <1>1, <1>2

\* What the entry of OP_TABLE for a binary operator does.
LEMMA BinaryMeans ==
    ASSUME NEW a \in ValueWords, NEW b \in ValueWords, NEW op \in BinaryOperators
    PROVE  Means(OP_TABLE(op, a, b), Lox!Binary(op, LoxValue(a), LoxValue(b)))
<1>1. /\ op = "add" => OP_TABLE(op, a, b) = op_add(a, b)
      /\ op = "subtract" => OP_TABLE(op, a, b) = op_subtract(a, b)
      /\ op = "multiply" => OP_TABLE(op, a, b) = op_multiply(a, b)
      /\ op = "divide" => OP_TABLE(op, a, b) = op_divide(a, b)
      /\ op = "equal" => OP_TABLE(op, a, b) = op_equal(a, b)
      /\ op = "not_equal" => OP_TABLE(op, a, b) = op_not_equal(a, b)
      /\ op = "less" => OP_TABLE(op, a, b) = op_less(a, b)
      /\ op = "less_equal" => OP_TABLE(op, a, b) = op_less_equal(a, b)
      /\ op = "greater" => OP_TABLE(op, a, b) = op_greater(a, b)
      /\ op = "greater_equal" => OP_TABLE(op, a, b) = op_greater_equal(a, b)
  BY DEF OP_TABLE
<1> QED
  BY <1>1, AddMeans, SubtractMeans, MultiplyMeans, DivideMeans, EqualsMean, LessMeans,
     LessEqualMeans, GreaterMeans, GreaterEqualMeans
  DEF BinaryOperators

LEMMA UnaryTableMeans ==
    ASSUME NEW a \in ValueWords, NEW op \in UnaryOperators
    PROVE  Means(OP_TABLE(op, a, a), Lox!Unary(op, LoxValue(a)))
<1>1. /\ op = "not" => OP_TABLE(op, a, a) = op_not(a)
      /\ op = "negate" => OP_TABLE(op, a, a) = op_negate(a)
  BY DEF OP_TABLE
<1> QED
  BY <1>1, UnaryMeans DEF UnaryOperators

-----------------------------------------------------------------------------
(* The stack.                                                              *)

\* The values that the slots of s stand for.
Stands(s) == [i \in 1..Len(s) |-> LoxValue(s[i])]
LoxValues == {LoxValue(v) : v \in ValueWords}

LEMMA StandsIs ==
    ASSUME NEW s \in Seq(ValueWords)
    PROVE  /\ Stands(s) \in Seq(LoxValues) /\ Len(Stands(s)) = Len(s)
           /\ \A i \in 1..Len(s) : Stands(s)[i] = LoxValue(s[i])
<1>1. Stands(s) \in [1..Len(s) -> LoxValues] /\ Len(s) \in Nat
  <2>1. \A i \in 1..Len(s) : s[i] \in ValueWords
    OBVIOUS
  <2> QED
    BY <2>1 DEF Stands, LoxValues
<1> QED
  BY <1>1 DEF Stands

LEMMA StandsEqual ==
    ASSUME NEW s \in Seq(ValueWords), NEW q \in Seq(LoxValues), Len(q) = Len(s),
           \A i \in 1..Len(s) : q[i] = LoxValue(s[i])
    PROVE  Stands(s) = q
<1>1. Stands(s) \in Seq(LoxValues) /\ Len(Stands(s)) = Len(q) /\ \A i \in 1..Len(q) : Stands(s)[i] = q[i]
  BY StandsIs
<1> QED
  BY <1>1, SeqEqual

LEMMA StandsPushed ==
    ASSUME NEW s \in Seq(ValueWords), NEW v \in ValueWords
    PROVE  /\ Append(s, v) \in Seq(ValueWords) /\ Append(s, v)[Len(Append(s, v))] = v
           /\ Stands(Append(s, v)) = Append(Stands(s), LoxValue(v))
<1> DEFINE w == LoxValue(v)
           q == Stands(s)
           n == Len(s)
<1>1. w \in LoxValues
  BY DEF LoxValues
<1>2. q \in Seq(LoxValues) /\ Len(q) = n /\ n \in Nat /\ \A i \in 1..n : q[i] = LoxValue(s[i])
  BY StandsIs
<1> DEFINE t == Append(s, v)
           r == Append(q, w)
<1>3. t \in Seq(ValueWords) /\ Len(t) = n + 1 /\ t[n + 1] = v /\ \A i \in 1..n : t[i] = s[i]
  OBVIOUS
<1> HIDE DEF q, n, t, w
<1>4. r \in Seq(LoxValues) /\ Len(r) = n + 1 /\ r[n + 1] = w /\ \A i \in 1..n : r[i] = q[i]
  BY <1>1, <1>2
<1> HIDE DEF r
<1>5. \A i \in 1..(n + 1) : r[i] = LoxValue(t[i])
  <2>1. SUFFICES ASSUME NEW i \in 1..(n + 1) PROVE r[i] = LoxValue(t[i])
    OBVIOUS
  <2>2. CASE i \in 1..n
    BY <1>2, <1>3, <1>4, <2>2
  <2>3. CASE i = n + 1
    BY <1>3, <1>4, <2>3 DEF w
  <2> QED
    BY <1>2, <2>2, <2>3
<1>6. Stands(t) = r
  BY <1>3, <1>4, <1>5, StandsEqual
<1> QED
  BY <1>3, <1>6 DEF t, r, q, w

LEMMA StandsCut ==
    ASSUME NEW s \in Seq(ValueWords), NEW m \in Nat, m <= Len(s)
    PROVE  /\ SubSeq(s, 1, m) \in Seq(ValueWords) /\ Len(SubSeq(s, 1, m)) = m
           /\ \A i \in 1..m : SubSeq(s, 1, m)[i] = s[i]
           /\ Stands(SubSeq(s, 1, m)) = SubSeq(Stands(s), 1, m)
<1> DEFINE q == Stands(s)
           t == SubSeq(s, 1, m)
           r == SubSeq(q, 1, m)
<1>1. q \in Seq(LoxValues) /\ Len(q) = Len(s) /\ \A i \in 1..Len(s) : q[i] = LoxValue(s[i])
  BY StandsIs
<1>2. t \in Seq(ValueWords) /\ Len(t) = m /\ \A i \in 1..m : t[i] = s[i]
  BY SubSeqProperties
<1> HIDE DEF q
<1>3. r \in Seq(LoxValues) /\ Len(r) = m /\ \A i \in 1..m : r[i] = q[i]
  BY <1>1, SubSeqProperties
<1> HIDE DEF t, r
<1>4. \A i \in 1..Len(t) : r[i] = LoxValue(t[i])
  BY <1>1, <1>2, <1>3
<1>5. Stands(t) = r
  BY <1>2, <1>3, <1>4, StandsEqual
<1> QED
  BY <1>2, <1>5 DEF t, r, q

\* The values that LoxOperators sees.
Seen == [i \in 1..sp |-> LoxValue(stack[i])]

LEMMA SeenIs == Seen = Stands(stack)
  BY DEF Seen, Stands, sp

LEMMA LiteralWords ==
    /\ \A w \in Leftover \cup {Word(0, 0, 1)} : Value(VAL_NIL, w) \in ValueWords
    /\ \A b \in BOOLEAN : Bool(b) \in ValueWords
    /\ \A x \in Doubles : Value(VAL_NUMBER, x) \in ValueWords
    /\ \A o \in Objects : Object(o) \in ValueWords
<1>1. \A b \in BOOLEAN : Bool(b) \in ValueWords
  <2>1. \A b \in BOOLEAN : b = TRUE \/ b = FALSE
    OBVIOUS
  <2> QED
    BY <2>1, Zenon DEF ValueWords, Booleans
<1>2. \A o \in Objects : Object(o) \in ValueWords
  BY ObjectThere DEF ValueWords
<1> QED
  BY <1>1, <1>2 DEF ValueWords

\* Any word that a register may hold beside the type of nil.
LEMMA NilWords == \A v \in ValueWords : Value(VAL_NIL, v.word) \in ValueWords
<1>1. \A b \in BOOLEAN : Bool(b).word \in Leftover \cup {Word(0, 0, 1)}
  <2>1. \A b \in BOOLEAN : Bool(b).word = Word(0, 0, IF b THEN 1 ELSE 0)
    BY ValueParts DEF Bool
  <2>2. Word(0, 0, 0) \in Doubles
    BY DEF Doubles, Double, Zero
  <2> QED
    BY <2>1, <2>2 DEF Leftover
<1>2. \A v \in ValueWords : v.word \in Leftover \cup {Word(0, 0, 1)}
  <2>1. SUFFICES ASSUME NEW v \in ValueWords PROVE v.word \in Leftover \cup {Word(0, 0, 1)}
    OBVIOUS
  <2>2. CASE \E w \in Leftover \cup {Word(0, 0, 1)} : v = Value(VAL_NIL, w)
    BY <2>2, ValueParts
  <2>3. CASE v \in Booleans
    BY <1>1, <2>3 DEF Booleans
  <2>4. CASE \E x \in Doubles : v = Value(VAL_NUMBER, x)
    BY <2>4, ValueParts DEF Leftover
  <2>5. CASE \E o \in Objects : v = Value(VAL_OBJ, Address[o])
    BY <2>5, ValueParts DEF Leftover
  <2> QED
    BY <2>2, <2>3, <2>4, <2>5 DEF ValueWords
<1> QED
  BY <1>2, LiteralWords

\* A value that is pushed and left in x0 and x1, up to the second word of nil.
LEMMA PushFacts ==
    ASSUME IInv, NEW v \in ValueWords, Push(v), acc' \in ValueWords, LoxValue(acc') = LoxValue(v)
    PROVE  IInv' /\ Lox!Push(LoxValue(v))
<1>1. /\ stack \in Seq(ValueWords) /\ stack' = Append(stack, v) /\ sp < MaxValues /\ last' = <<>>
  BY DEF IInv, Push
<1>2. /\ stack' \in Seq(ValueWords) /\ stack'[Len(stack')] = v
      /\ Stands(stack') = Append(Stands(stack), LoxValue(v))
  BY <1>1, StandsPushed
<1>3. IInv'
  BY <1>2 DEF IInv, TopInAcc, sp
<1>4. Lox!Push(LoxValue(v))
  <2>1. Seen' = Append(Seen, LoxValue(v))
    <3>1. Seen' = Stands(stack')
      BY DEF Seen, Stands, sp
    <3> QED
      BY <1>2, <3>1, SeenIs
  <2>2. Len(Seen) = sp
    BY <1>1, SeenIs, StandsIs DEF sp
  <2> QED
    BY <1>1, <2>1, <2>2 DEF Lox!Push, Lox!Size, Seen
<1> QED
  BY <1>3, <1>4

LEMMA LiteralStep ==
    ASSUME IInv, emitNil \/ emitFalse \/ emitTrue \/ emitNumber \/ emitGetConstant
    PROVE  IInv' /\ Lox!Literal
<1>1. CASE emitNil
  <2> DEFINE v == Value(VAL_NIL, Word(0, 0, 0))
  <2>1. v \in ValueWords
    <3>1. Word(0, 0, 0) \in Doubles
      BY DEF Doubles, Double, Zero
    <3> QED
      BY <3>1, LiteralWords DEF Leftover
  <2>2. acc' = Value(VAL_NIL, acc.word) /\ Push(v)
    BY <1>1 DEF emitNil
  <2>3. LoxValue(v) = Lox!nil /\ LoxValue(acc') = Lox!nil /\ acc' \in ValueWords
    BY <2>2, NilStands, NilWords DEF IInv
  <2> HIDE DEF v
  <2>4. IInv' /\ Lox!Push(LoxValue(v))
    BY <2>1, <2>2, <2>3, PushFacts
  <2> QED
    BY <2>3, <2>4 DEF Lox!Literal, Lox!Literals
<1>2. ASSUME NEW v \in ValueWords, Push(v), acc' = v, LoxValue(v) \in Lox!Literals
      PROVE  IInv' /\ Lox!Literal
  BY <1>2, PushFacts DEF Lox!Literal
<1>3. CASE emitFalse \/ emitTrue
  <2>1. PICK b \in BOOLEAN : Push(Bool(b)) /\ acc' = Bool(b)
    BY <1>3 DEF emitFalse, emitTrue
  <2>2. LoxValue(Bool(b)) \in Lox!Literals
    <3>1. b = TRUE \/ b = FALSE
      OBVIOUS
    <3> QED
      BY <3>1, BoolStands, Zenon DEF Lox!Literals
  <2> QED
    BY <1>2, <2>1, <2>2, LiteralWords
<1>4. CASE emitNumber
  <2>1. PICK x \in Doubles : Push(Value(VAL_NUMBER, x)) /\ acc' = Value(VAL_NUMBER, x)
    BY <1>4 DEF emitNumber
  <2>2. LoxValue(Value(VAL_NUMBER, x)) \in Lox!Literals
    BY NumberStands, SameArithmetic DEF Lox!Literals
  <2> QED
    BY <1>2, <2>1, <2>2, LiteralWords
<1>5. CASE emitGetConstant
  <2>1. PICK o \in Objects : Push(Object(o)) /\ acc' = Object(o)
    BY <1>5 DEF emitGetConstant
  <2>2. LoxValue(Object(o)) \in Lox!Literals
    BY ObjectThere, ObjectStands DEF OfObject, Objects, Lox!Literals
  <2> QED
    BY <1>2, <2>1, <2>2, LiteralWords
<1> QED
  BY <1>1, <1>3, <1>4, <1>5

LEMMA GetLocalStep == ASSUME IInv, emitGetLocal PROVE IInv' /\ Lox!Get
<1>1. PICK i \in 1..sp : Push(stack[i]) /\ acc' = stack[i]
  BY DEF emitGetLocal
<1>2. stack[i] \in ValueWords /\ i \in 1..Len(Seen) /\ Seen[i] = LoxValue(stack[i])
  BY SeenIs, StandsIs DEF IInv, sp
<1>3. IInv' /\ Lox!Push(LoxValue(stack[i]))
  BY <1>1, <1>2, PushFacts
<1> QED
  BY <1>2, <1>3 DEF Lox!Get, Lox!Size, Seen

\* The value of an assignment comes from x0 and x1 (emitSetLocal).
LEMMA SetLocalStep == ASSUME IInv, emitSetLocal PROVE IInv' /\ Lox!Set
<1>1. /\ sp > 1 /\ stack' = [stack EXCEPT ![1] = acc] /\ last' = <<>> /\ acc' = acc
  BY DEF emitSetLocal
<1>2. /\ stack \in Seq(ValueWords) /\ sp = Len(stack) /\ sp \in Nat /\ acc \in ValueWords
      /\ LoxValue(acc) = LoxValue(stack[sp])
  BY <1>1 DEF IInv, TopInAcc, sp
<1>3. /\ stack' \in Seq(ValueWords) /\ Len(stack') = sp /\ stack'[sp] = stack[sp]
      /\ stack'[1] = acc /\ \A i \in 1..sp : i # 1 => stack'[i] = stack[i]
  BY <1>1, <1>2
<1>4. IInv'
  BY <1>1, <1>2, <1>3 DEF IInv, TopInAcc, sp
<1>5. Seen' = Stands(stack') /\ Seen = Stands(stack)
  BY DEF Seen, Stands, sp
<1> DEFINE q == Stands(stack)
<1>6. q \in Seq(LoxValues) /\ Len(q) = sp /\ \A i \in 1..sp : q[i] = LoxValue(stack[i])
  BY <1>2, StandsIs
<1> HIDE DEF q
<1>7. Stands(stack') = [q EXCEPT ![1] = q[sp]]
  <2> DEFINE r == [q EXCEPT ![1] = q[sp]]
  <2>1. /\ r \in Seq(LoxValues) /\ Len(r) = sp
        /\ \A i \in 1..sp : r[i] = IF i = 1 THEN q[sp] ELSE q[i]
    BY <1>1, <1>2, <1>6
  <2> HIDE DEF r
  <2>2. \A i \in 1..sp : r[i] = LoxValue(stack'[i])
    <3>1. SUFFICES ASSUME NEW i \in 1..sp PROVE r[i] = LoxValue(stack'[i])
      OBVIOUS
    <3>2. sp \in 1..sp
      BY <1>1, <1>2
    <3>3. q[sp] = LoxValue(acc)
      BY <1>2, <1>6, <3>2
    <3> QED
      BY <1>3, <1>6, <2>1, <3>3
  <2>3. Stands(stack') = r
    BY <1>3, <2>1, <2>2, StandsEqual
  <2> QED
    BY <2>3 DEF r
<1>8. Seen' = [Seen EXCEPT ![1] = Seen[sp]] /\ Len(Seen) = sp /\ 1 \in 1..(sp - 1)
  BY <1>1, <1>2, <1>5, <1>6, <1>7 DEF q
<1>9. Lox!Set
  BY <1>1, <1>8 DEF Lox!Set, Lox!Size, Seen
<1> QED
  BY <1>4, <1>9

LEMMA PopStep == ASSUME IInv, emitPop PROVE IInv' /\ Lox!Pop
<1>1. sp \in {1, 2} /\ stack' = SubSeq(stack, 1, sp - 1) /\ last' = <<>> /\ acc' = acc
  BY DEF emitPop
<1>2. stack \in Seq(ValueWords) /\ sp = Len(stack) /\ acc \in ValueWords /\ sp - 1 \in Nat /\ sp - 1 <= sp
  <2>1. stack \in Seq(ValueWords) /\ sp = Len(stack) /\ acc \in ValueWords
    BY DEF IInv, sp
  <2>2. sp - 1 \in Nat /\ sp - 1 <= sp
    BY <1>1
  <2> QED
    BY <2>1, <2>2
<1>3. /\ stack' \in Seq(ValueWords) /\ Len(stack') = sp - 1
      /\ Stands(stack') = SubSeq(Stands(stack), 1, sp - 1)
  BY <1>1, <1>2, StandsCut
<1>4. IInv'
  <2>1. ~(Len(stack') > 1)
    BY <1>1, <1>3
  <2> QED
    BY <1>1, <1>2, <1>3, <2>1 DEF IInv, TopInAcc, sp
<1>5. Seen' = Stands(stack') /\ Seen = Stands(stack) /\ Len(Seen) = sp
  <2>1. Seen' = Stands(stack') /\ Seen = Stands(stack)
    BY DEF Seen, Stands, sp
  <2> QED
    BY <1>2, <2>1, StandsIs
<1>6. Len(Seen) > 0
  BY <1>1, <1>5
<1> QED
  BY <1>1, <1>3, <1>4, <1>5, <1>6 DEF Lox!Pop, Lox!Size, Seen

\* An operator of n operands, whose result means w.
LEMMA CallStep ==
    ASSUME IInv, NEW n \in {1, 2}, n <= sp, NEW op, NEW v, NEW w, Means(v, w), Call(op, n, v)
    PROVE  IInv' /\ Lox!Replace(n, w, op)
<1>1. stack \in Seq(ValueWords) /\ sp = Len(stack) /\ sp \in Nat /\ sp - n \in Nat /\ sp - n <= sp
  <2>1. stack \in Seq(ValueWords) /\ sp = Len(stack) /\ sp \in Nat
    BY DEF IInv, sp
  <2>2. n = 1 \/ n = 2
    OBVIOUS
  <2> QED
    BY <2>1, <2>2
<1>2. Seen' = Stands(stack') /\ Seen = Stands(stack) /\ Len(Seen) = sp
  <2>1. Seen' = Stands(stack') /\ Seen = Stands(stack)
    BY DEF Seen, Stands, sp
  <2> QED
    BY <1>1, <2>1, StandsIs
<1>3. \A u \in ValueWords : u # Fail /\ LoxValue(u) # Lox!error
  BY TypesAgree, ValueParts DEF Fail, VAL_NIL, VAL_BOOL, VAL_NUMBER, VAL_OBJ
<1>4. CASE v = Fail
  <2>1. w = Lox!error
    BY <1>3, <1>4 DEF Means
  <2>2. stack' = <<>> /\ last' = <<op, "error">> /\ \E x \in Leftover : acc' = Value(VAL_NIL, x)
    BY <1>4 DEF Call, runtimeError
  <2>3. IInv'
    BY <2>2, LiteralWords DEF IInv, TopInAcc, sp
  <2>4. Seen' = <<>>
    BY <2>2 DEF Seen, sp
  <2> QED
    BY <2>1, <2>2, <2>3, <2>4 DEF Lox!Replace, Seen
<1>5. CASE v # Fail
  <2> DEFINE cut == SubSeq(stack, 1, sp - n)
  <2>1. v.word # Nowhere /\ stack' = Append(cut, v) /\ acc' = v /\ last' = <<op, "value">>
    BY <1>5 DEF Call, Return
  <2>2. v \in ValueWords /\ LoxValue(v) = w
    BY <1>5, <2>1 DEF Means
  <2>3. cut \in Seq(ValueWords) /\ Stands(cut) = SubSeq(Stands(stack), 1, sp - n)
    BY <1>1, StandsCut
  <2> HIDE DEF cut
  <2>4. /\ stack' \in Seq(ValueWords) /\ stack'[Len(stack')] = v
        /\ Stands(stack') = Append(Stands(cut), w)
    BY <2>1, <2>2, <2>3, StandsPushed
  <2>5. IInv'
    BY <2>1, <2>2, <2>4 DEF IInv, TopInAcc, sp
  <2>6. Seen' = Append(SubSeq(Seen, 1, Len(Seen) - n), w)
    BY <1>2, <2>3, <2>4
  <2>7. w # Lox!error
    BY <1>3, <2>2
  <2>8. w.type = "string" => w.string \in Texts
    <3>1. SUFFICES ASSUME w.type = "string" PROVE w.string \in Texts
      OBVIOUS
    <3>2. v.type = VAL_OBJ
      BY <2>2, <3>1, TypesAgree
    <3>3. ObjectAt(v.word) \in Texts /\ w = OfObject(ObjectAt(v.word))
      BY <2>2, <3>1, <3>2, ObjectCase
    <3> QED
      BY <3>3, Types DEF OfObject
  <2> QED
    BY <2>1, <2>5, <2>6, <2>7, <2>8 DEF Lox!Replace, Lox!Size, Seen
<1> QED
  BY <1>4, <1>5

LEMMA OperateStep == ASSUME IInv, emitUnary \/ emitBinary PROVE IInv' /\ Lox!Operate
<1>1. stack \in Seq(ValueWords) /\ sp = Len(stack) /\ sp \in Nat
  BY DEF IInv, sp
<1>2. Len(Seen) = sp /\ \A i \in 1..sp : Seen[i] = LoxValue(stack[i]) /\ stack[i] \in ValueWords
  BY <1>1, SeenIs, StandsIs
<1>3. CASE emitUnary
  <2>1. PICK op \in UnaryOperators : sp >= 1 /\ Call(op, 1, OP_TABLE(op, stack[sp], stack[sp]))
    BY <1>3 DEF emitUnary
  <2>2. stack[sp] \in ValueWords /\ Seen[sp] = LoxValue(stack[sp])
    BY <1>1, <1>2, <2>1
  <2>3. Means(OP_TABLE(op, stack[sp], stack[sp]), Lox!Unary(op, LoxValue(stack[sp])))
    BY <2>2, UnaryTableMeans
  <2>4. IInv' /\ Lox!Replace(1, Lox!Unary(op, LoxValue(stack[sp])), op)
    BY <2>1, <2>3, CallStep
  <2>5. op \in Lox!UnaryOperators
    BY DEF UnaryOperators, Lox!UnaryOperators
  <2> QED
    BY <1>2, <2>1, <2>2, <2>4, <2>5 DEF Lox!Operate, Lox!Size, Seen
<1>4. CASE emitBinary
  <2>1. PICK op \in BinaryOperators : sp >= 2 /\ Call(op, 2, OP_TABLE(op, stack[sp - 1], stack[sp]))
    BY <1>4 DEF emitBinary
  <2>2. /\ stack[sp] \in ValueWords /\ Seen[sp] = LoxValue(stack[sp])
        /\ stack[sp - 1] \in ValueWords /\ Seen[sp - 1] = LoxValue(stack[sp - 1])
    BY <1>1, <1>2, <2>1
  <2>3. Means(OP_TABLE(op, stack[sp - 1], stack[sp]),
              Lox!Binary(op, LoxValue(stack[sp - 1]), LoxValue(stack[sp])))
    BY <2>2, BinaryMeans
  <2>4. IInv' /\ Lox!Replace(2, Lox!Binary(op, LoxValue(stack[sp - 1]), LoxValue(stack[sp])), op)
    BY <2>1, <2>3, CallStep
  <2>5. op \in Lox!BinaryOperators
    BY DEF BinaryOperators, Lox!BinaryOperators
  <2> QED
    BY <1>2, <2>1, <2>2, <2>4, <2>5 DEF Lox!Operate, Lox!Size, Seen
<1> QED
  BY <1>3, <1>4

LEMMA TestStep == ASSUME IInv, emitConditionalJump PROVE IInv' /\ Lox!Test
<1>1. /\ sp > 0 /\ last' = <<"test", IF JumpTaken(stack[sp]) THEN "false" ELSE "true">>
      /\ acc' = stack[sp] /\ stack' = stack
  BY DEF emitConditionalJump
<1>2. stack \in Seq(ValueWords) /\ sp = Len(stack) /\ sp \in 1..sp
  BY <1>1 DEF IInv, sp
<1>3. stack[sp] \in ValueWords /\ Len(Seen) = sp /\ Seen[sp] = LoxValue(stack[sp])
  BY <1>2, SeenIs, StandsIs
<1>4. IInv'
  BY <1>1, <1>2, <1>3 DEF IInv, TopInAcc, sp
<1>5. Seen' = Seen
  BY <1>1 DEF Seen, sp
<1>6. JumpTaken(stack[sp]) <=> Lox!Falsey(Seen[sp])
  BY <1>3, FalseyIs
<1>7. Lox!Test
  BY <1>1, <1>3, <1>5, <1>6 DEF Lox!Test, Lox!Size, Seen
<1> QED
  BY <1>4, <1>7

\* Every step keeps the invariant and is a step of LoxOperators.
LEMMA StepRefines == ASSUME IInv, [Next]_vars PROVE IInv' /\ [Lox!Next]_(Lox!vars)
<1>1. CASE emitNil \/ emitFalse \/ emitTrue \/ emitNumber \/ emitGetConstant
  BY <1>1, LiteralStep DEF Lox!Next
<1>2. CASE emitGetLocal \/ emitSetLocal \/ emitPop
  BY <1>2, GetLocalStep, SetLocalStep, PopStep DEF Lox!Next
<1>3. CASE emitUnary \/ emitBinary \/ emitConditionalJump
  BY <1>3, OperateStep, TestStep DEF Lox!Next
<1>4. CASE UNCHANGED vars
  BY <1>4 DEF vars, IInv, TopInAcc, sp, Lox!vars
<1> QED
  BY <1>1, <1>2, <1>3, <1>4 DEF Next

LEMMA InitRefines == ASSUME Init PROVE IInv /\ Lox!Init
<1>1. IInv
  BY LiteralWords DEF Init, IInv, TopInAcc, sp
<1>2. Lox!Init
  BY DEF Init, sp, Lox!Init
<1> QED
  BY <1>1, <1>2

\* Every pair of words on the stack, and the one in x0 and x1, is a value of
\* Lox: what op_equal relies on when it compares booleans as words, and what the
\* handlers that follow an address rely on.
THEOREM WordsAreValues == Spec => []TypeOK
<1>1. IInv => TypeOK
  <2>1. \A v \in ValueWords : IsValue(v)
    <3>1. SUFFICES ASSUME NEW v \in ValueWords PROVE IsValue(v)
      OBVIOUS
    <3>2. CASE \E w \in Leftover \cup {Word(0, 0, 1)} : v = Value(VAL_NIL, w)
      <4>1. Word(0, 0, 1) \in {w.word : w \in Booleans}
        BY ValueParts DEF Booleans, Bool
      <4>2. v.type = VAL_NIL /\ v.word \in Leftover \cup {Word(0, 0, 1)}
        BY <3>2, ValueParts
      <4>3. v.word \in Leftover \cup {w.word : w \in Booleans}
        BY <4>1, <4>2
      <4> QED
        BY <4>2, <4>3 DEF IsValue, VAL_NIL, VAL_BOOL, VAL_NUMBER, VAL_OBJ
    <3>3. CASE v \in Booleans
      <4>1. v.type = VAL_BOOL
        BY <3>3, ValueParts DEF Booleans, Bool
      <4> QED
        BY <3>3, <4>1 DEF IsValue, VAL_NIL, VAL_BOOL, VAL_NUMBER, VAL_OBJ
    <3>4. CASE \E x \in Doubles : v = Value(VAL_NUMBER, x)
      <4>1. v.type = VAL_NUMBER /\ v.word \in Doubles
        BY <3>4, ValueParts
      <4> QED
        BY <4>1 DEF IsValue, VAL_NIL, VAL_BOOL, VAL_NUMBER, VAL_OBJ
    <3>5. CASE \E o \in Objects : v = Value(VAL_OBJ, Address[o])
      <4>1. v.type = VAL_OBJ /\ v.word \in {Address[o] : o \in Objects}
        BY <3>5, ValueParts
      <4> QED
        BY <4>1 DEF IsValue, VAL_NIL, VAL_BOOL, VAL_NUMBER, VAL_OBJ
    <3> QED
      BY <3>2, <3>3, <3>4, <3>5 DEF ValueWords
  <2> QED
    BY <2>1 DEF IInv, TypeOK, sp
<1>2. Init => IInv
  BY InitRefines
<1>3. IInv /\ [Next]_vars => IInv'
  BY StepRefines
<1> QED
  BY <1>1, <1>2, <1>3, PTL DEF Spec

\* However operands came about, each handler computes what Lox promises of its
\* operator: no stale word of nil, zero of either sign, NaN or equal half of two
\* addresses makes a difference, and each error is one.
THEOREM OperatorsCorrect == Spec => ImplementsLoxOperators
<1>1. Init => IInv /\ Lox!Init
  BY InitRefines
<1>2. IInv /\ [Next]_vars => IInv' /\ [Lox!Next]_(Lox!vars)
  BY StepRefines
<1> QED
  BY <1>1, <1>2, PTL DEF Spec, ImplementsLoxOperators, Lox!Spec
=============================================================================
