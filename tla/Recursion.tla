------------------------------ MODULE Recursion ------------------------------
(***************************************************************************)
(* Induction and recursion over natural numbers, as the proofs of this     *)
(* project use them.  A recursive function of TLA+ is chosen among the     *)
(* solutions of its equation: what it computes can only be proved once     *)
(* there is one.  Here that is shown for recursions that follow a link to  *)
(* a smaller number: from a frame to its caller's, from an entry of a      *)
(* batch to the one before it.                                             *)
(***************************************************************************)
EXTENDS Integers, WellFoundedInduction, TLAPS

\* A set of numbers has a least element, so what fails somewhere fails first
\* somewhere: the induction of all proofs over frames and batches.
LEMMA LeastNatural ==
    ASSUME NEW T \in SUBSET Nat, T # {} PROVE \E m \in T : \A n \in T : m <= n
<1>1. IsWellFoundedOn(OpToRel(<,Nat), Nat)
  BY NatLessThanWellFounded
<1>2. PICK m \in T : \A n \in T : ~(<<n, m>> \in OpToRel(<,Nat))
  BY <1>1, WFMin
<1>3. \A n \in T : ~(n < m)
  BY <1>2 DEF OpToRel
<1> QED
  BY <1>3

-----------------------------------------------------------------------------
\* What f says of i: a function of what it says of the number i links to, if
\* that is smaller, and otherwise where the recursion starts.
Equation(f, i, up, start, step) ==
    f[i] = IF up[i] < i THEN step[i][f[up[i]]] ELSE start[i]

Upto(S, n) == {i \in S : i <= n}

\* f is the recursion as far as n.
Solves(f, S, n, up, start, step, A) ==
    /\ f \in [Upto(S, n) -> A]
    /\ \A i \in Upto(S, n) : Equation(f, i, up, start, step)

\* Two solutions agree as far as both go.
LEMMA SolvedOnce ==
    ASSUME NEW S \in SUBSET Nat, NEW up \in [S -> S], NEW A, NEW start, NEW step,
           NEW n \in S, NEW m \in Nat, n <= m, NEW f, NEW g,
           Solves(f, S, n, up, start, step, A), Solves(g, S, m, up, start, step, A)
    PROVE  f[n] = g[n]
<1> DEFINE Differ == {i \in Upto(S, n) : f[i] # g[i]}
<1>1. \A i \in S : i \in Nat /\ up[i] \in Nat /\ up[i] \in S
  OBVIOUS
<1>2. Differ \in SUBSET Nat /\ n \in Upto(S, n)
  <2>1. n \in Nat /\ n <= n
    BY <1>1
  <2> QED
    BY <1>1, <2>1 DEF Upto
<1>3. CASE Differ # {}
  <2>1. PICK i \in Differ : \A j \in Differ : i <= j
    BY <1>2, <1>3, LeastNatural
  <2>2. i \in Nat /\ up[i] \in Nat /\ up[i] \in S /\ n \in Nat /\ i <= n
    BY <1>1, <2>1 DEF Upto
  <2>3. i \in Upto(S, n) /\ i \in Upto(S, m)
    BY <2>1, <2>2 DEF Upto
  <2>4. Equation(f, i, up, start, step) /\ Equation(g, i, up, start, step)
    BY <2>3 DEF Solves
  <2>5. up[i] < i /\ f[up[i]] # g[up[i]]
    BY <2>1, <2>4 DEF Equation
  <2>6. up[i] \in Differ
    BY <2>2, <2>5 DEF Upto
  <2> QED
    BY <2>1, <2>2, <2>5, <2>6
<1>4. CASE Differ = {}
  BY <1>2, <1>4
<1> QED
  BY <1>3, <1>4

\* There is a solution up to every number: one more step extends it.
LEMMA Solvable ==
    ASSUME NEW S \in SUBSET Nat, NEW up \in [S -> S], NEW A,
           NEW start \in [S -> A], NEW step \in [S -> [A -> A]], NEW n \in Nat
    PROVE  \E f : Solves(f, S, n, up, start, step, A)
<1> DEFINE Bad == {m \in Nat : ~\E f : Solves(f, S, m, up, start, step, A)}
<1> SUFFICES ASSUME Bad # {} PROVE FALSE
  OBVIOUS
<1>1. PICK m \in Bad : \A k \in Bad : m <= k
  <2> HIDE DEF Bad
  <2>1. Bad \in SUBSET Nat
    BY DEF Bad
  <2> QED
    BY <2>1, LeastNatural
<1>2. m \in Nat /\ ~\E f : Solves(f, S, m, up, start, step, A)
  OBVIOUS
<1>3. \E f : \A i \in Upto(S, m) : i # m => f[i] \in A /\ Equation(f, i, up, start, step)
  <2>1. CASE m = 0
    BY <2>1 DEF Upto
  <2>2. CASE m # 0
    <3>1. m - 1 \in Nat /\ m - 1 \notin Bad
      BY <1>1, <1>2, <2>2
    <3>2. PICK f : Solves(f, S, m - 1, up, start, step, A)
      BY <3>1
    <3>3. \A i \in Upto(S, m) : i # m => i \in Upto(S, m - 1)
      BY <1>2 DEF Upto
    <3> QED
      BY <3>2, <3>3 DEF Solves
  <2> QED
    BY <2>1, <2>2
<1>4. PICK f : \A i \in Upto(S, m) : i # m => f[i] \in A /\ Equation(f, i, up, start, step)
  BY <1>3
<1> DEFINE last == IF up[m] < m THEN step[m][f[up[m]]] ELSE start[m]
           g == [i \in Upto(S, m) |-> IF i = m THEN last ELSE f[i]]
<1>5. \A i \in Upto(S, m) : i \in S /\ i \in Nat /\ up[i] \in Nat /\ up[i] \in S
  BY DEF Upto
<1>6. \A i \in Upto(S, m) : up[i] < i => up[i] \in Upto(S, m) /\ up[i] # m
  BY <1>2, <1>5 DEF Upto
<1>7. m \in Upto(S, m) => last \in A
  BY <1>4, <1>5, <1>6
<1>8. g \in [Upto(S, m) -> A]
  BY <1>4, <1>7
<1>9. \A i \in Upto(S, m) : Equation(g, i, up, start, step)
  BY <1>4, <1>6 DEF Equation
<1>10. Solves(g, S, m, up, start, step, A)
  BY <1>8, <1>9 DEF Solves
<1> QED
  BY <1>2, <1>10

\* f is the recursion over all of S.
FollowsChain(f, S, up, start, step) ==
    f = [i \in S |-> IF up[i] < i THEN step[i][f[up[i]]] ELSE start[i]]

\* So there is one for the whole of S, and a recursive function over a chain of
\* links to smaller numbers satisfies its equation.
LEMMA ChainRecursion ==
    ASSUME NEW S \in SUBSET Nat, NEW up \in [S -> S], NEW A,
           NEW start \in [S -> A], NEW step \in [S -> [A -> A]]
    PROVE  \E f \in [S -> A] : FollowsChain(f, S, up, start, step)
<1> DEFINE part == [n \in S |-> CHOOSE g : Solves(g, S, n, up, start, step, A)]
           f == [n \in S |-> part[n][n]]
<1>1. \A i \in S : i \in Nat /\ up[i] \in Nat /\ up[i] \in S /\ i <= i
  <2>1. \A i \in S : i \in Nat /\ up[i] \in Nat /\ up[i] \in S
    OBVIOUS
  <2>2. \A i \in Nat : i <= i
    OBVIOUS
  <2> QED
    BY <2>1, <2>2
<1>2. \A n \in S : Solves(part[n], S, n, up, start, step, A)
  <2>1. \A n \in S : \E g : Solves(g, S, n, up, start, step, A)
    BY <1>1, Solvable
  <2> QED
    BY <2>1
<1>3. \A n \in S : n \in Upto(S, n)
  BY <1>1 DEF Upto
<1> HIDE DEF part
<1>4. f \in [S -> A]
  BY <1>2, <1>3 DEF Solves
<1>5. \A n \in S : f[n] = IF up[n] < n THEN step[n][f[up[n]]] ELSE start[n]
  <2> SUFFICES ASSUME NEW n \in S
               PROVE  part[n][n] = IF up[n] < n THEN step[n][part[up[n]][up[n]]] ELSE start[n]
    BY <1>1
  <2>1. part[n][n] = IF up[n] < n THEN step[n][part[n][up[n]]] ELSE start[n]
    BY <1>2, <1>3 DEF Solves, Equation
  <2>2. CASE up[n] < n
    <3>1. up[n] \in S /\ n \in Nat /\ up[n] <= n
      BY <1>1, <2>2
    <3>2. Solves(part[n], S, n, up, start, step, A)
          /\ Solves(part[up[n]], S, up[n], up, start, step, A)
      BY <1>2, <3>1
    <3>3. \A g, h : /\ Solves(g, S, up[n], up, start, step, A)
                    /\ Solves(h, S, n, up, start, step, A)
                    => g[up[n]] = h[up[n]]
      <4> DEFINE k == up[n]
      <4> SUFFICES ASSUME NEW g, NEW h, Solves(g, S, k, up, start, step, A),
                          Solves(h, S, n, up, start, step, A)
                   PROVE  g[k] = h[k]
        OBVIOUS
      <4>1. k \in S /\ n \in Nat /\ k <= n
        BY <3>1
      <4> HIDE DEF k
      <4> QED
        BY <4>1, SolvedOnce
    <3>4. part[up[n]][up[n]] = part[n][up[n]]
      BY <3>2, <3>3
    <3> QED
      BY <2>1, <3>4
  <2> QED
    BY <2>1, <2>2
<1> HIDE DEF f
<1> QED
  BY <1>4, <1>5 DEF FollowsChain

\* The same for a loop over n entries: each round makes a value of the last one.
FollowsLoop(f, n, base, step) ==
    f = [k \in 0..n |-> IF k = 0 THEN base ELSE step[k][f[k - 1]]]

LEMMA LoopRecursion ==
    ASSUME NEW n \in Nat, NEW A, NEW base \in A, NEW step \in [1..n -> [A -> A]]
    PROVE  \E f \in [0..n -> A] : FollowsLoop(f, n, base, step)
<1> DEFINE S == 0..n
           up == [k \in S |-> IF k = 0 THEN 0 ELSE k - 1]
           start == [k \in S |-> base]
           round == [k \in S |-> IF k = 0 THEN [x \in A |-> x] ELSE step[k]]
<1>1. S \in SUBSET Nat /\ up \in [S -> S] /\ start \in [S -> A] /\ round \in [S -> [A -> A]]
  OBVIOUS
<1>2. PICK f \in [S -> A] : FollowsChain(f, S, up, start, round)
  <2> HIDE DEF S, up, start, round
  <2> QED
    BY <1>1, ChainRecursion
<1>3. \A k \in S : f[k] = IF up[k] < k THEN round[k][f[up[k]]] ELSE start[k]
  <2> HIDE DEF up, start, round
  <2> QED
    BY <1>2 DEF FollowsChain
<1>4. \A k \in S : f[k] = IF k = 0 THEN base ELSE step[k][f[k - 1]]
  <2>1. SUFFICES ASSUME NEW k \in S PROVE f[k] = IF k = 0 THEN base ELSE step[k][f[k - 1]]
    OBVIOUS
  <2>2. CASE k = 0
    <3>1. ~(up[k] < k) /\ start[k] = base
      BY <2>2
    <3> HIDE DEF up, round, start
    <3> QED
      BY <1>3, <2>2, <3>1
  <2>3. CASE k # 0
    <3>1. up[k] = k - 1 /\ up[k] < k /\ round[k] = step[k]
      BY <2>3
    <3> HIDE DEF up, round, start
    <3> QED
      BY <1>3, <2>3, <3>1
  <2> QED
    BY <2>2, <2>3
<1>5. f = [k \in 0..n |-> IF k = 0 THEN base ELSE step[k][f[k - 1]]]
  BY <1>2, <1>4
<1> QED
  BY <1>2, <1>5 DEF FollowsLoop
=============================================================================
