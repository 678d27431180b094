------------------------------ MODULE Doubles ------------------------------
(***************************************************************************)
(* The 64-bit words of Values, and IEEE 754 arithmetic on few enough of    *)
(* them to enumerate. A word is a sign, a magnitude in its high half, and  *)
(* its low half. As in IEEE 754, bits of the same sign are in the order of *)
(* their numbers, infinity is the largest number and NaN lies above it.    *)
(* Here zero, one and infinity are the doubles; anything above one is      *)
(* infinite. Magnitude 1 is left for addresses, which are tiny as doubles. *)
(***************************************************************************)
EXTENDS Integers

Word(sign, mag, low) == [sign |-> sign, mag |-> mag, low |-> low]

Zero == 0
One == 2
Infinity == 3
NaN == 4

Double(sign, mag) == Word(sign, mag, 0)
Doubles == {Double(s, m) : s \in {0, 1}, m \in {Zero, One, Infinity, NaN}}

IsNaN(x) == x.mag = NaN
IsZero(x) == x.mag = Zero
IsInfinite(x) == x.mag = Infinity

LowHalves == 16

\* The number that a word is as a double, up to scale.
Number(x) == (x.mag * LowHalves + x.low) * (IF x.sign = 1 THEN -1 ELSE 1)

Negated(x) == [x EXCEPT !.sign = 1 - @]

fadd(x, y) ==
    LET sum == Number(x) + Number(y)
        mag == CASE sum = 0 -> Zero
                 [] sum \in {Number(Double(0, One)), Number(Double(1, One))} -> One
                 [] OTHER -> Infinity
    IN  IF \/ IsNaN(x) \/ IsNaN(y)
           \/ IsInfinite(x) /\ IsInfinite(y) /\ x # y
        THEN Double(0, NaN)
        ELSE Double(IF sum < 0 \/ (sum = 0 /\ x.sign + y.sign = 2) THEN 1 ELSE 0, mag)

fsub(x, y) == fadd(x, Negated(y))

fmul(x, y) ==
    LET either(P(_)) == P(x) \/ P(y)
    IN  IF either(IsNaN) \/ (either(IsZero) /\ either(IsInfinite))
        THEN Double(0, NaN)
        ELSE Double((x.sign + y.sign) % 2,
                    CASE either(IsZero) -> Zero [] either(IsInfinite) -> Infinity [] OTHER -> One)

Reciprocal(y) ==
    [y EXCEPT !.mag = CASE IsZero(y) -> Infinity [] IsInfinite(y) -> Zero [] OTHER -> @]

fdiv(x, y) == fmul(x, Reciprocal(y))
=============================================================================
