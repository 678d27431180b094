---------------------------- MODULE FramesProofs ----------------------------
(***************************************************************************)
(* The stack discipline of Frames holds for every set of functions, every  *)
(* arity and any depth of calls, when the top-level code declares no       *)
(* block-scoped variable.                                                  *)
(***************************************************************************)
EXTENDS Frames, SequenceTheorems, TLAPS

\* Arities are natural numbers: the fact the arithmetic needs of the range 0..31
\* that arm64.c can address.
LEMMA ArityType == \A g \in Callables : Arity[g] \in Nat
  BY FramesAssumption DEF Callables

\* The bounds are natural numbers.
LEMMA BoundTypes == MaxLocals \in Nat /\ MaxTemps \in Nat /\ MaxStack \in Nat
  BY FramesAssumption

\* Slots that are not stored to are the same in s and t up to n; the slot x
\* that is stored to holds a Value before and after.
SameBelow(s, t, n, x) ==
    \A k \in 1..n : s[k] = t[k] \/ (k = x /\ s[k].kind = "value" /\ t[k].kind = "value")

\* A call's frame is still one in a stack that has the same slots up to its
\* spill, but for a store above its callee.
LEMMA CallOfKept ==
    ASSUME NEW s \in Seq(Slots), NEW t \in Seq(Slots), NEW n \in Nat, NEW x \in Nat,
           NEW i \in Nat, NEW g,
           n <= Len(s), n <= Len(t), SameBelow(s, t, n, x),
           CallOf(s, i, g), i + 1 <= n, x = 0 \/ x > i - Arity[g] - 1
    PROVE  CallOf(t, i, g)
<1> DEFINE caller == s[i].fp
           lr == s[i].lr
           c == i - Arity[g] - 1
<1>1. /\ i \in 1..n /\ i + 1 \in 1..n /\ s[i].kind = "frame"
      /\ caller \in 1..n /\ s[caller].kind = "frame" /\ caller < i /\ caller >= 3
  BY DEF CallOf, FrameSlots, ScriptFrame
<1>2. g \in Functions /\ c = caller + SpillCount(lr.fn) + lr.locals + lr.temps /\ lr.temps >= 1
  BY DEF CallOf
<1>12. Arity[g] \in Nat
  BY <1>2, ArityType DEF Callables
<1>3. lr \in Points /\ SpillCount(lr.fn) \in Nat /\ lr.locals \in Nat /\ lr.temps \in Nat
  BY BoundTypes DEF CallOf, Points, SpillCount, FUNCTION_STACK_SPILL
<1>4. c \in 1..n /\ c # x
  <2>1. caller \in Int /\ i \in Int /\ caller >= 1 /\ i <= n
    BY <1>1
  <2>2. c = i - Arity[g] - 1 /\ c < i /\ c \in Int
    BY <2>1, <1>12
  <2> HIDE DEF caller, lr, c
  <2>3. c >= 1
    BY <2>1, <1>2, <1>3
  <2> QED
    BY <2>1, <2>2, <2>3
<1>5. \A k \in 1..n : s[k].kind = "frame" <=> t[k].kind = "frame"
  BY DEF SameBelow
<1>6. t[i] = s[i] /\ t[caller].kind = "frame"
  BY <1>1, <1>5 DEF SameBelow
<1>7. s[i + 1].kind = "spill"
  BY DEF CallOf, Spill
<1>8. t[i + 1] = s[i + 1]
  BY <1>1, <1>7 DEF SameBelow
<1>9. t[c] = s[c]
  BY <1>4 DEF SameBelow
<1>10. \A j \in FrameSlots(t) : j < i => j \in FrameSlots(s)
  BY <1>1, <1>5 DEF FrameSlots
<1>11. i \in FrameSlots(t) /\ caller \in FrameSlots(t) /\ i + 1 \in DOMAIN t
  BY <1>1, <1>6 DEF FrameSlots
<1> QED
  BY <1>6, <1>8, <1>9, <1>10, <1>11 DEF CallOf

\* Below n, a stack that is cut, extended by Values or stored to keeps its
\* chain of frames, from the newest frame p that is left.
LEMMA WellFramedKept ==
    ASSUME NEW s \in Seq(Slots), NEW t \in Seq(Slots), NEW n \in Nat, NEW x \in Nat,
           NEW f \in Nat, NEW g, NEW p \in Nat, NEW h,
           WellFramed(s, f, g), p \in FrameSlots(s), FrameOf(s, p, h),
           \A j \in FrameSlots(s) : j <= n => j <= p,
           p + SpillCount(h) <= n, n <= Len(s), n <= Len(t),
           SameBelow(s, t, n, x),
           \A k \in (n + 1)..Len(t) : t[k].kind = "value",
           x = 0 \/ (x > ScriptFrame + 2 /\ (h # Script => x > p - Arity[h] - 1))
    PROVE  WellFramed(t, p, h)
<1>1. p >= 3 /\ p + 1 <= n /\ n >= 5 /\ (p = 3 <=> h = Script)
  <2>1. SpillCount(h) = IF h = Script THEN 2 ELSE 1
    BY DEF SpillCount, FUNCTION_STACK_SPILL
  <2>2. CASE h = Script /\ p = 3
    BY <2>1, <2>2
  <2>3. CASE CallOf(s, p, h)
    <3>1. p > 3 /\ h \in Functions
      BY <2>3 DEF CallOf, ScriptFrame
    <3> QED
      BY <3>1, <2>1, FramesAssumption
  <2> QED
    BY <2>2, <2>3 DEF FrameOf, ScriptFrame
<1>2. \A k \in 1..n : s[k].kind = t[k].kind
  BY DEF SameBelow
<1>3. \A k \in 1..n : k # x => s[k] = t[k]
  BY DEF SameBelow
<1>4. \A k \in 1..n : s[k].kind # "value" => s[k] = t[k]
  BY DEF SameBelow
<1>5. FrameSlots(t) = {j \in FrameSlots(s) : j <= n}
  <2>1. ASSUME NEW j \in FrameSlots(t) PROVE j \in FrameSlots(s) /\ j <= n
    <3>1. j \in 1..Len(t) /\ t[j].kind = "frame"
      BY DEF FrameSlots
    <3>2. j <= n
      BY <3>1
    <3> QED
      BY <3>1, <3>2, <1>2 DEF FrameSlots
  <2>2. ASSUME NEW j \in FrameSlots(s), j <= n PROVE j \in FrameSlots(t)
    BY <2>2, <1>2 DEF FrameSlots
  <2> QED
    BY <2>1, <2>2
<1>6. ScriptEntered(t)
  <2>1. /\ s[1] = Frame(CFrame, MainReturn) /\ s[2] = Saved(CRegister)
        /\ s[3] = Frame(1, StartScript) /\ s[4] = Spill(CRegister, CRegister)
        /\ s[5] = Value(Script)
    BY DEF WellFramed, ScriptEntered
  <2>2. t[1] = s[1] /\ t[2] = s[2] /\ t[3] = s[3] /\ t[4] = s[4] /\ t[5] = s[5]
    <3>1. x \notin {1, 2, 3, 4, 5}
      BY DEF ScriptFrame
    <3>2. 1 \in 1..n /\ 2 \in 1..n /\ 3 \in 1..n /\ 4 \in 1..n /\ 5 \in 1..n
      BY <1>1
    <3> QED
      BY <3>1, <3>2, <1>3
  <2> QED
    BY <1>1, <2>1, <2>2 DEF ScriptEntered, ScriptFrame
<1>7. ASSUME NEW i \in Nat, NEW k, FrameOf(s, i, k), i + 1 <= n, (i = p /\ k = h) \/ i < p
      PROVE  FrameOf(t, i, k)
  <2>1. CASE k = Script /\ i = ScriptFrame
    BY <2>1 DEF FrameOf
  <2>2. CASE CallOf(s, i, k)
    <3>1. x = 0 \/ x > i - Arity[k] - 1
      <4>1. Arity[k] \in Nat /\ i > 3 /\ i \in FrameSlots(s) /\ k \in Functions
        BY <2>2, ArityType DEF CallOf, Callables, ScriptFrame
      <4>2. CASE i = p /\ k = h
        BY <4>1, <4>2, FramesAssumption
      <4>3. CASE i < p
        <5>1. h # Script
          BY <4>1, <4>3, <1>1
        <5>2. CallOf(s, p, h)
          BY <5>1 DEF FrameOf
        <5> DEFINE c == p - Arity[h] - 1
                   caller == s[p].fp
                   lr == s[p].lr
        <5>3. /\ i <= caller /\ c = caller + SpillCount(lr.fn) + lr.locals + lr.temps
              /\ lr \in Points /\ caller \in FrameSlots(s)
          BY <5>2, <4>1, <4>3 DEF CallOf
        <5>4. SpillCount(lr.fn) \in Nat /\ lr.locals \in Nat /\ lr.temps \in Nat /\ caller \in Nat
          BY <5>3, BoundTypes DEF Points, SpillCount, FUNCTION_STACK_SPILL, FrameSlots
        <5>5. x = 0 \/ x > c
          BY <5>1
        <5> HIDE DEF c, caller, lr
        <5>6. i <= c /\ c \in Nat
          BY <5>3, <5>4, SMTT(30)
        <5>7. i - Arity[k] - 1 <= i /\ i - Arity[k] - 1 \in Int
          BY <4>1
        <5> QED
          BY <5>5, <5>6, <5>7
      <4> QED
        BY <1>7, <4>2, <4>3
    <3> QED
      BY <1>7, <2>2, <3>1, CallOfKept DEF FrameOf
  <2> QED
    BY <1>7, <2>1, <2>2 DEF FrameOf
<1>8. FrameOf(t, p, h)
  BY <1>1, <1>7
<1>9. ASSUME NEW j \in FrameSlots(t), j > ScriptFrame
      PROVE  t[j].fp < j /\ FrameOf(t, t[j].fp, t[j].lr.fn)
  <2>1. j \in FrameSlots(s) /\ j <= p /\ j \in 1..n
    BY <1>5 DEF FrameSlots
  <2>2. t[j] = s[j]
    BY <2>1, <1>4 DEF FrameSlots
  <2>3. s[j].fp < j /\ FrameOf(s, s[j].fp, s[j].lr.fn)
    BY <1>9, <2>1 DEF WellFramed
  <2>4. s[j].fp \in Nat
    <3>1. s[j].fp \in FrameSlots(s) \/ s[j].fp = 3
      BY <2>3 DEF FrameOf, CallOf, ScriptFrame
    <3> QED
      BY <3>1 DEF FrameSlots
  <2>5. s[j].fp < p /\ s[j].fp + 1 <= n
    BY <2>1, <2>3, <2>4, <1>1
  <2> QED
    BY <2>2, <2>3, <2>4, <2>5, <1>7
<1>10. ASSUME NEW i \in 4..Len(t)
       PROVE  /\ t[i].kind = "spill" <=> t[i - 1].kind = "frame"
              /\ t[i].kind \in {"value", "frame", "spill"}
  <2>1. CASE i <= n
    <3>1. i \in 4..Len(s) /\ i \in 1..n /\ i - 1 \in 1..n
      BY <2>1
    <3> QED
      BY <3>1, <1>2 DEF WellFramed
  <2>2. CASE i > n
    <3>1. t[i].kind = "value" /\ i - 1 \in 1..Len(t)
      BY <2>2, <1>1
    <3>2. t[i - 1].kind # "frame"
      <4>1. SUFFICES ASSUME i - 1 \in FrameSlots(t) PROVE FALSE
        BY <3>1 DEF FrameSlots
      <4>2. i - 1 <= n /\ i - 1 <= p
        BY <4>1, <1>5
      <4> QED
        BY <4>2, <2>2, <1>1
    <3> QED
      BY <3>1, <3>2
  <2> QED
    BY <2>1, <2>2
<1>11. p \in FrameSlots(t) /\ \A j \in FrameSlots(t) : j <= p
  BY <1>1, <1>5
<1> QED
  BY <1>6, <1>8, <1>9, <1>10, <1>11 DEF WellFramed

\* Dropping the slots above m keeps those up to m (add sp, sp, #16n).
LEMMA Cut ==
    ASSUME NEW s \in Seq(Slots), NEW m \in Nat, m <= Len(s)
    PROVE  /\ SubSeq(s, 1, m) \in Seq(Slots) /\ Len(SubSeq(s, 1, m)) = m
           /\ \A k \in 1..m : SubSeq(s, 1, m)[k] = s[k]
<1> QED
  BY SubSeqProperties

\* Pushing a Value keeps the slots below it (stp x0, x1, [sp, #-16]!).
LEMMA Pushed ==
    ASSUME NEW s \in Seq(Slots), NEW v \in Values \cup {Script}
    PROVE  LET t == Append(s, Value(v))
           IN  /\ t \in Seq(Slots) /\ Len(t) = Len(s) + 1 /\ t[Len(t)] = Value(v)
               /\ \A k \in 1..Len(s) : t[k] = s[k]
<1>1. Value(v) \in Slots
  BY DEF Slots, Value
<1> QED
  BY <1>1, AppendProperties

\* What has to be shown of a frame for it to be the frame of a call of g.
LEMMA CallOfIntro ==
    ASSUME NEW s \in Seq(Slots), NEW i \in Nat, NEW g \in Functions, NEW f \in Nat, NEW lr \in Points,
           i \in FrameSlots(s), s[i].fp = f, s[i].lr = lr, i > ScriptFrame, i + 1 \in DOMAIN s,
           lr.temps >= 1, lr.fn = Script => lr.locals = 0 \/ ScriptLocals,
           f \in FrameSlots(s), f >= ScriptFrame, f < i, \A j \in FrameSlots(s) : j < i => j <= f,
           i - Arity[g] - 1 = f + SpillCount(lr.fn) + lr.locals + lr.temps,
           s[i - Arity[g] - 1] = Value(g), s[i + 1] = Spill(lr.fn, lr.fn)
    PROVE  CallOf(s, i, g)
<1> QED
  BY Zenon DEF CallOf

\* A new call's frame, on top of its callee and arguments, extends the chain.
LEMMA CallFramed ==
    ASSUME NEW s \in Seq(Slots), NEW f \in Nat, NEW g, NEW h \in Functions, NEW lr \in Points,
           WellFramed(s, f, g), lr.fn = g, lr.temps >= 1,
           g = Script => lr.locals = 0 \/ ScriptLocals,
           NEW i \in Nat, i = Len(s) + 1,
           i - Arity[h] - 1 = f + SpillCount(g) + lr.locals + lr.temps,
           s[i - Arity[h] - 1] = Value(h)
    PROVE  LET t == s \o << Frame(f, lr), Spill(g, g) >>
           IN  t \in Seq(Slots) /\ Len(t) = Len(s) + 2 /\ WellFramed(t, i, h)
<1> DEFINE t == s \o << Frame(f, lr), Spill(g, g) >>
           n == Len(s)
<1>1. /\ t \in Seq(Slots) /\ Len(t) = n + 2 /\ n \in Nat
      /\ \A k \in 1..n : t[k] = s[k]
      /\ t[n + 1] = Frame(f, lr) /\ t[n + 2] = Spill(g, g)
  <2>1. Frame(f, lr) \in Slots /\ Spill(g, g) \in Slots
    BY DEF Slots, Frame, Spill, Points
  <2>2. << Frame(f, lr), Spill(g, g) >> \in Seq(Slots)
    BY <2>1
  <2>3. Len(<< Frame(f, lr), Spill(g, g) >>) = 2
    OBVIOUS
  <2> QED
    BY <2>2, <2>3, ConcatProperties
<1>2. /\ f \in FrameSlots(s) /\ f >= 3 /\ f + 1 <= n /\ n >= 5
      /\ \A j \in FrameSlots(s) : j <= f
  <2>1. f \in FrameSlots(s) /\ (\A j \in FrameSlots(s) : j <= f) /\ ScriptEntered(s) /\ FrameOf(s, f, g)
    BY DEF WellFramed
  <2>2. n >= 5
    BY <2>1 DEF ScriptEntered, ScriptFrame
  <2>3. CASE f = 3
    BY <2>1, <2>2, <2>3
  <2>4. CASE CallOf(s, f, g)
    BY <2>1, <2>2, <2>4 DEF CallOf, ScriptFrame
  <2> QED
    BY <2>1, <2>3, <2>4 DEF FrameOf, ScriptFrame
<1>3. FrameSlots(t) = FrameSlots(s) \cup {n + 1}
  <2>1. t[n + 1].kind = "frame" /\ t[n + 2].kind # "frame"
    BY <1>1 DEF Frame, Spill
  <2> QED
    BY <1>1, <2>1 DEF FrameSlots
<1>4. SameBelow(s, t, n, 0)
  BY <1>1 DEF SameBelow
<1>5. ASSUME NEW m \in Nat, NEW k, m + 1 <= n, FrameOf(s, m, k) PROVE FrameOf(t, m, k)
  <2>1. n <= Len(s) /\ n <= Len(t) /\ 0 \in Nat
    BY <1>1
  <2> HIDE DEF t, n
  <2> QED
    BY <1>1, <1>4, <1>5, <2>1, CallOfKept DEF FrameOf
<1>6. CallOf(t, i, h)
  <2>1. t[i].fp = f /\ t[i].lr = lr /\ t[i + 1] = Spill(lr.fn, lr.fn)
    <3>1. i = n + 1 /\ i + 1 = n + 2
      OBVIOUS
    <3> HIDE DEF t, n
    <3> QED
      BY <1>1, <3>1 DEF Frame
  <2>2. i - Arity[h] - 1 \in 1..n
    <3>1. SpillCount(g) \in Nat /\ lr.locals \in Nat /\ lr.temps \in Nat /\ Arity[h] \in Nat
      BY BoundTypes, ArityType DEF Points, SpillCount, FUNCTION_STACK_SPILL, Callables
    <3>2. i - Arity[h] - 1 >= 1
      BY <1>2, <3>1
    <3>3. i - Arity[h] - 1 <= n /\ i - Arity[h] - 1 \in Int
      BY <3>1
    <3> QED
      BY <3>2, <3>3, <1>1
  <2>3. t[i - Arity[h] - 1] = Value(h)
    BY <1>1, <2>2
  <2>4. \A j \in FrameSlots(t) : j < i => j <= f
    <3>1. \A j \in FrameSlots(s) : j <= f
      BY <1>2
    <3> QED
      BY <1>1, <1>3, <3>1
  <2>5. i \in FrameSlots(t) /\ f \in FrameSlots(t) /\ i + 1 \in DOMAIN t
    BY <1>1, <1>2, <1>3
  <2>6. i > ScriptFrame /\ f >= ScriptFrame /\ f < i
    BY <1>1, <1>2 DEF ScriptFrame
  <2>7. i - Arity[h] - 1 = f + SpillCount(lr.fn) + lr.locals + lr.temps
    OBVIOUS
  <2>8. t \in Seq(Slots)
    BY <1>1
  <2>9. lr.fn = Script => lr.locals = 0 \/ ScriptLocals
    OBVIOUS
  <2> HIDE DEF t, n
  <2> QED
    BY <2>1, <2>3, <2>4, <2>5, <2>6, <2>7, <2>8, <2>9, CallOfIntro, Zenon
<1>7. ScriptEntered(t)
  BY <1>1, <1>2 DEF WellFramed, ScriptEntered, ScriptFrame
<1>8. ASSUME NEW j \in FrameSlots(t), j > ScriptFrame
      PROVE  t[j].fp < j /\ FrameOf(t, t[j].fp, t[j].lr.fn)
  <2>1. CASE j = n + 1
    <3>1. t[j].fp = f /\ t[j].lr.fn = g
      BY <1>1, <2>1 DEF Frame
    <3>2. FrameOf(s, f, g)
      BY DEF WellFramed
    <3>3. FrameOf(t, f, g)
      BY <1>2, <1>5, <3>2
    <3>4. f < j
      BY <1>1, <1>2, <2>1
    <3> QED
      BY <3>1, <3>3, <3>4
  <2>2. CASE j \in FrameSlots(s)
    <3>1. s[j].fp < j /\ FrameOf(s, s[j].fp, s[j].lr.fn)
      BY <1>8, <2>2 DEF WellFramed
    <3>2. t[j] = s[j]
      BY <1>1, <2>2 DEF FrameSlots
    <3>3. s[j].fp \in Nat
      <4>1. s[j].fp \in FrameSlots(s) \/ s[j].fp = 3
        BY <3>1 DEF FrameOf, CallOf, ScriptFrame
      <4> QED
        BY <4>1 DEF FrameSlots
    <3>4. j <= f /\ j \in Nat
      BY <1>2, <2>2 DEF FrameSlots
    <3>5. s[j].fp + 1 <= n
      BY <1>1, <1>2, <3>1, <3>3, <3>4
    <3> QED
      BY <1>5, <3>1, <3>2, <3>3, <3>5
  <2> QED
    BY <1>3, <2>1, <2>2
<1>9. ASSUME NEW m \in 4..Len(t)
      PROVE  /\ t[m].kind = "spill" <=> t[m - 1].kind = "frame"
             /\ t[m].kind \in {"value", "frame", "spill"}
  <2>1. t[n + 1].kind = "frame" /\ t[n + 2].kind = "spill"
    BY <1>1 DEF Frame, Spill
  <2>2. t[n].kind = s[n].kind /\ s[n].kind # "frame"
    BY <1>1, <1>2 DEF FrameSlots
  <2>3. CASE m <= n
    BY <1>1, <2>3 DEF WellFramed
  <2>4. CASE m = n + 1
    BY <1>1, <2>1, <2>2, <2>4
  <2>5. CASE m = n + 2
    BY <1>1, <2>1, <2>5
  <2>6. m <= n \/ m = n + 1 \/ m = n + 2
    BY <1>1
  <2> HIDE DEF t, n
  <2> QED
    BY <2>3, <2>4, <2>5, <2>6
<1>10. i \in FrameSlots(t) /\ \A j \in FrameSlots(t) : j <= i
  <2>1. \A j \in FrameSlots(s) : j \in Nat /\ j <= f
    BY <1>2 DEF FrameSlots
  <2>2. i = n + 1 /\ f < i
    BY <1>1, <1>2
  <2> HIDE DEF t, n
  <2> QED
    BY <1>3, <2>1, <2>2
<1> QED
  BY <1>1, <1>6, <1>7, <1>8, <1>9, <1>10 DEF WellFramed, FrameOf

-----------------------------------------------------------------------------
(* The inductive invariant adds that the closure of the script, which is   *)
(* what a read of a local of the script would find, is in no other slot.   *)

ScriptOnce == \A i \in DOMAIN stack : i > ScriptFrame + 2 => stack[i] # Value(Script)

IInv ==
    /\ TypeOK
    /\ StackDiscipline
    /\ RegistersMatchCode
    /\ TopInAcc
    /\ ScriptOnce

\* A slot that is neither a frame nor right above one holds a Value.
LEMMA ValueSlot ==
    ASSUME IInv, Running, NEW i \in Nat, i > ScriptFrame + 2, i <= Len(stack),
           i \notin FrameSlots(stack), i - 1 \notin FrameSlots(stack)
    PROVE  /\ stack[i].kind = "value" /\ stack[i].v \in Values
           /\ Read(i) \in Values /\ stack[i] = Value(Read(i))
<1>1. stack \in Seq(Slots) /\ WellFramed(stack, fp, pc.fn) /\ stack[i] # Value(Script)
  <2>1. stack \in Seq(Slots) /\ WellFramed(stack, fp, pc.fn) /\ ScriptOnce
    BY DEF IInv, TypeOK, StackDiscipline
  <2>2. i \in DOMAIN stack
    BY <2>1 DEF ScriptFrame
  <2> QED
    BY <2>1, <2>2 DEF ScriptOnce
<1>2. i \in 4..Len(stack) /\ i \in 1..Len(stack) /\ i - 1 \in 1..Len(stack)
  BY <1>1 DEF ScriptFrame
<1>3. stack[i].kind # "frame" /\ stack[i - 1].kind # "frame"
  BY <1>1, <1>2 DEF FrameSlots
<1>4. stack[i].kind = "value"
  BY <1>2, <1>3, <1>1 DEF WellFramed
<1>5. stack[i] \in Slots
  BY <1>1, <1>2
<1>6. stack[i] \in [kind : {"value"}, v : Values \cup {Script}]
  BY <1>4, <1>5 DEF Slots
<1>7. stack[i] = Value(stack[i].v) /\ stack[i].v \in Values
  BY <1>1, <1>6 DEF Value
<1> QED
  BY <1>4, <1>7 DEF Read, ReadFrom

\* What the inductive invariant says while Lox code runs: the stack pointer, the
\* frame pointer and the numbers the compiler keeps, with their types.
LEMMA RunningFacts ==
    ASSUME IInv, Running
    PROVE  /\ stack \in Seq(Slots) /\ sp \in Nat /\ fp \in Nat /\ fp >= 3 /\ pc \in Points
           /\ pc.fn \in Callables /\ pc.locals \in Nat /\ pc.temps \in Nat
           /\ SpillCount(pc.fn) \in Nat /\ SpillCount(pc.fn) >= 1
           /\ fp + SpillCount(pc.fn) >= 5
           /\ WellFramed(stack, fp, pc.fn) /\ FrameOf(stack, fp, pc.fn)
           /\ sp = fp + SpillCount(pc.fn) + pc.locals + pc.temps
           /\ fp \in FrameSlots(stack) /\ \A j \in FrameSlots(stack) : j <= fp
           /\ closure = pc.fn /\ constants = pc.fn /\ optable = OpTable
<1>1. stack \in Seq(Slots) /\ pc \in Points /\ Len(stack) \in Nat
  BY DEF IInv, TypeOK, Running
<1>2. pc.fn \in Callables /\ pc.locals \in Nat /\ pc.temps \in Nat
  BY <1>1, BoundTypes DEF Points
<1>3. /\ WellFramed(stack, fp, pc.fn) /\ sp = fp + SpillCount(pc.fn) + pc.locals + pc.temps
  BY DEF IInv, StackDiscipline
<1>4. /\ FrameOf(stack, fp, pc.fn) /\ fp \in FrameSlots(stack)
      /\ \A j \in FrameSlots(stack) : j <= fp
  BY <1>3 DEF WellFramed
<1>5. fp \in Nat
  BY <1>1, <1>4 DEF FrameSlots
<1>6. SpillCount(pc.fn) = IF pc.fn = Script THEN 2 ELSE 1
  BY DEF SpillCount, FUNCTION_STACK_SPILL
<1>7. (fp = 3 /\ pc.fn = Script) \/ fp > 3
  BY <1>4 DEF FrameOf, CallOf, ScriptFrame
<1>8. fp >= 3 /\ fp + SpillCount(pc.fn) >= 5 /\ SpillCount(pc.fn) \in Nat /\ SpillCount(pc.fn) >= 1
  BY <1>5, <1>6, <1>7
<1>9. closure = pc.fn /\ constants = pc.fn /\ optable = OpTable
  BY DEF IInv, RegistersMatchCode
<1> QED
  BY <1>1, <1>2, <1>3, <1>4, <1>5, <1>8, <1>9 DEF sp

\* The locals and the temporaries of the running function are Values.
LEMMA OwnSlot ==
    ASSUME IInv, Running, NEW i \in Nat, i > fp + SpillCount(pc.fn), i <= sp
    PROVE  /\ stack[i].kind = "value" /\ Read(i) \in Values /\ stack[i] = Value(Read(i))
           /\ i > ScriptFrame + 2 /\ (pc.fn # Script => i > fp - Arity[pc.fn] - 1)
<1>1. i > 5 /\ i <= Len(stack) /\ i - 1 > fp /\ i > fp
  BY RunningFacts DEF sp
<1>2. i \notin FrameSlots(stack) /\ i - 1 \notin FrameSlots(stack)
  <2>1. \A j \in FrameSlots(stack) : j <= fp
    BY RunningFacts
  <2> QED
    BY <1>1, <2>1, RunningFacts
<1>3. pc.fn # Script => i > fp - Arity[pc.fn] - 1
  <2>1. Arity[pc.fn] \in Nat /\ fp \in Nat
    BY RunningFacts, ArityType
  <2> QED
    BY <2>1, <1>1
<1> QED
  BY <1>1, <1>2, <1>3, ValueSlot DEF ScriptFrame

\* So are its arguments.
LEMMA ArgumentIsValue ==
    ASSUME IInv, Running, NEW i \in Int, i >= fp - Arity[pc.fn], i < fp
    PROVE  /\ i \in Nat /\ i <= sp
           /\ stack[i].kind = "value" /\ Read(i) \in Values /\ stack[i] = Value(Read(i))
           /\ i > ScriptFrame + 2 /\ (pc.fn # Script => i > fp - Arity[pc.fn] - 1)
<1> DEFINE caller == stack[fp].fp
           lr == stack[fp].lr
           c == fp - Arity[pc.fn] - 1
<1>1. Arity[pc.fn] \in Nat /\ fp \in Nat /\ i > c
  BY RunningFacts, ArityType
<1>2. pc.fn # Script
  <2>1. Arity[pc.fn] # 0
    BY <1>1
  <2> QED
    BY <2>1, FramesAssumption
<1>3. CallOf(stack, fp, pc.fn)
  BY <1>2, RunningFacts DEF FrameOf
<1>4. /\ caller \in FrameSlots(stack) /\ caller >= 3 /\ lr \in Points /\ lr.temps >= 1
      /\ c = caller + SpillCount(lr.fn) + lr.locals + lr.temps
      /\ \A j \in FrameSlots(stack) : j < fp => j <= caller
      /\ fp > 3
  BY <1>3 DEF CallOf, ScriptFrame
<1>5. FrameOf(stack, caller, lr.fn)
  BY <1>4, RunningFacts DEF WellFramed, ScriptFrame
<1>6. SpillCount(lr.fn) = (IF lr.fn = Script THEN 2 ELSE 1) /\ lr.locals \in Nat /\ lr.temps \in Nat
  BY <1>4, BoundTypes DEF SpillCount, FUNCTION_STACK_SPILL, Points
<1>7. (caller = 3 /\ lr.fn = Script) \/ caller > 3
  BY <1>5 DEF FrameOf, CallOf, ScriptFrame
<1>8. caller \in Nat
  <2>1. stack \in Seq(Slots)
    BY RunningFacts
  <2>2. caller \in DOMAIN stack
    BY <1>4 DEF FrameSlots
  <2> HIDE DEF caller
  <2> QED
    BY <2>1, <2>2
<1>9. caller + SpillCount(lr.fn) >= 5 /\ SpillCount(lr.fn) \in Nat /\ SpillCount(lr.fn) >= 1
  <2> HIDE DEF caller, lr
  <2> QED
    BY <1>6, <1>7, <1>8
<1> HIDE DEF caller, lr, c
<1>10. c >= 6 /\ c > caller + 1 /\ c \in Nat
  BY <1>4, <1>6, <1>8, <1>9
<1>11. i > 5 /\ i \in Nat /\ i - 1 > caller /\ i <= sp
  BY <1>1, <1>10, RunningFacts, <1>8
<1>12. i \notin FrameSlots(stack) /\ i - 1 \notin FrameSlots(stack)
  BY <1>1, <1>4, <1>8, <1>11
<1>13. i > fp - Arity[pc.fn] - 1
  BY <1>1 DEF c
<1> QED
  BY <1>11, <1>12, <1>13, ValueSlot DEF ScriptFrame, sp

-----------------------------------------------------------------------------
(* Each action preserves the invariant.                                    *)

\* A code address in a function is not one in the C program.
LEMMA PointIsRunning == \A p \in Points : p # Native
  BY FramesAssumption DEF Points, Callables

\* The numbers the compiler keeps after code that adds l locals and t temporaries.
LEMMA AdvanceType ==
    ASSUME pc \in Points, NEW l \in Int, NEW t \in Int,
           pc.locals + l \in 0..MaxLocals, pc.temps + t \in 0..MaxTemps
    PROVE  /\ Advance(l, t) \in Points /\ Advance(l, t).fn = pc.fn
           /\ Advance(l, t).locals = pc.locals + l /\ Advance(l, t).temps = pc.temps + t
  BY DEF Advance, Points

\* A step within one activation: below n the stack is kept but for a store of
\* a Value to x, above n it consists of new Values.
LEMMA FrameStep ==
    ASSUME IInv, Running, InFrame, ScriptLocals = FALSE,
           stack' \in Seq(Slots), pc' \in Points, pc'.fn = pc.fn,
           pc.fn = Script => pc'.locals = 0,
           Len(stack') = fp + SpillCount(pc.fn) + pc'.locals + pc'.temps,
           NEW n \in Nat, NEW x \in Nat,
           fp + SpillCount(pc.fn) <= n, n <= Len(stack), n <= Len(stack'),
           SameBelow(stack, stack', n, x),
           \A k \in (n + 1)..Len(stack') : \E v \in Values : stack'[k] = Value(v),
           \/ x = 0
           \/ /\ x > ScriptFrame + 2 /\ (pc.fn # Script => x > fp - Arity[pc.fn] - 1)
              /\ \E v \in Values : stack'[x] = Value(v),
           acc' \in Values \cup {Junk}, pc'.temps > 0 => acc' = Read(sp)'
    PROVE  IInv'
<1>1. /\ fp' = fp /\ closure' = closure /\ constants' = constants /\ optable' = optable
      /\ result' = result
  BY DEF InFrame
<1>2. Running'
  BY PointIsRunning DEF Running
<1>3. TypeOK'
  BY <1>1 DEF IInv, TypeOK
<1>4. WellFramed(stack', fp, pc.fn)
  <2>1. \A k \in (n + 1)..Len(stack') : stack'[k].kind = "value"
    <3>1. \A v \in Values : Value(v).kind = "value"
      BY DEF Value
    <3> QED
      BY <3>1, Zenon
  <2>2. \A j \in FrameSlots(stack) : j <= n => j <= fp
    BY RunningFacts
  <2>3. x = 0 \/ (x > ScriptFrame + 2 /\ (pc.fn # Script => x > fp - Arity[pc.fn] - 1))
    OBVIOUS
  <2>4. /\ stack \in Seq(Slots) /\ fp \in Nat /\ fp \in FrameSlots(stack)
        /\ WellFramed(stack, fp, pc.fn) /\ FrameOf(stack, fp, pc.fn)
    BY RunningFacts
  <2> QED
    BY <2>1, <2>2, <2>3, <2>4, WellFramedKept, Zenon
<1>5. StackDiscipline'
  BY <1>1, <1>2, <1>4 DEF StackDiscipline, sp
<1>6. RegistersMatchCode'
  BY <1>1, <1>2, RunningFacts DEF RegistersMatchCode
<1>7. TopInAcc'
  BY DEF TopInAcc
<1>8. ScriptOnce'
  <2>1. SUFFICES ASSUME NEW k \in DOMAIN stack', k > ScriptFrame + 2
                 PROVE  stack'[k] # Value(Script)
    BY DEF ScriptOnce
  <2>2. \A v \in Values : Value(v) # Value(Script)
    BY FramesAssumption DEF Values, Value
  <2>3. CASE k > n
    BY <2>1, <2>2, <2>3
  <2>4. CASE k <= n /\ stack'[k] = stack[k]
    <3>1. k \in DOMAIN stack
      BY <2>1, <2>4, RunningFacts
    <3> QED
      BY <2>1, <2>4, <3>1 DEF IInv, ScriptOnce
  <2>5. CASE k <= n /\ k = x
    <3>1. x # 0
      BY <2>1, <2>5
    <3> QED
      BY <3>1, <2>2, <2>5
  <2>6. k \in Nat /\ (k <= n => k \in 1..n)
    BY <2>1
  <2> QED
    BY <2>3, <2>4, <2>5, <2>6 DEF SameBelow
<1> QED
  BY <1>3, <1>5, <1>6, <1>7, <1>8 DEF IInv

\* The case this proof is about: the script has no locals.
LEMMA NoScriptLocals ==
    ASSUME IInv, Running, ScriptLocals = FALSE, pc.fn = Script
    PROVE  pc.locals = 0
  BY DEF IInv, StackDiscipline

\* An expression that pushes a Value keeps the invariant.
LEMMA PushStep ==
    ASSUME IInv, ScriptLocals = FALSE, NEW v \in Values, PushValue(v)
    PROVE  IInv'
<1>1. /\ Running /\ pc.temps < MaxTemps /\ InFrame /\ acc' = v
      /\ stack' = Append(stack, Value(v)) /\ pc' = Advance(0, 1)
  BY DEF PushValue, HasTemps
<1>2. pc.locals + 0 \in 0..MaxLocals /\ pc.temps + 1 \in 0..MaxTemps
  BY <1>1, RunningFacts, BoundTypes DEF Points
<1>3. /\ pc' \in Points /\ pc'.fn = pc.fn /\ pc'.locals = pc.locals /\ pc'.temps = pc.temps + 1
  BY <1>1, <1>2, AdvanceType, RunningFacts
<1>4. /\ stack \in Seq(Slots) /\ stack' \in Seq(Slots) /\ Len(stack') = Len(stack) + 1
      /\ stack'[Len(stack')] = Value(v) /\ \A k \in 1..Len(stack) : stack'[k] = stack[k]
  BY <1>1, RunningFacts, Pushed
<1>5. SameBelow(stack, stack', Len(stack), 0)
  BY <1>4 DEF SameBelow
<1>6. \A k \in (Len(stack) + 1)..Len(stack') : \E w \in Values : stack'[k] = Value(w)
  <2>1. \A k \in (Len(stack) + 1)..Len(stack') : k = Len(stack')
    BY <1>4
  <2> QED
    BY <1>4, <2>1
<1>7. acc' \in Values \cup {Junk} /\ acc' = Read(sp)'
  BY <1>1, <1>4 DEF Read, ReadFrom, sp, Value
<1>8. /\ Len(stack) \in Nat /\ Len(stack) <= Len(stack) /\ Len(stack) <= Len(stack')
      /\ fp + SpillCount(pc.fn) <= Len(stack)
      /\ Len(stack') = fp + SpillCount(pc.fn) + pc'.locals + pc'.temps
  BY <1>1, <1>3, <1>4, RunningFacts, SMTT(30) DEF sp
<1>9. pc.fn = Script => pc'.locals = 0
  BY <1>1, <1>3, NoScriptLocals
<1> QED
  BY <1>1, <1>3, <1>4, <1>5, <1>6, <1>7, <1>8, <1>9, FrameStep

\* Constants, globals and closures are Values.
LEMMA LoadStep == ASSUME IInv, ScriptLocals = FALSE, Load PROVE IInv'
  BY PushStep DEF Load

\* The local that code addresses is one of the function's own slots.
LEMMA LocalSlotOwn ==
    ASSUME IInv, Running, ScriptLocals = FALSE, NEW i \in 0..(pc.locals - 1)
    PROVE  LocalSlot(i) \in Nat /\ LocalSlot(i) > fp + SpillCount(pc.fn)
           /\ LocalSlot(i) <= fp + SpillCount(pc.fn) + pc.locals /\ LocalSlot(i) <= sp
<1>1. pc.fn # Script
  <2>1. SUFFICES ASSUME pc.fn = Script PROVE FALSE
    OBVIOUS
  <2>2. pc.locals = 0
    BY <2>1, NoScriptLocals
  <2> QED
    BY <2>2
<1>2. SpillCount(pc.fn) = 1
  BY <1>1 DEF SpillCount, FUNCTION_STACK_SPILL
<1> QED
  <2>1. fp \in Nat /\ pc.locals \in Nat /\ pc.temps \in Nat /\ sp = fp + 1 + pc.locals + pc.temps
    BY <1>2, RunningFacts
  <2>2. LocalSlot(i) = fp + 2 + i
    BY <2>1 DEF LocalSlot, FUNCTION_STACK_SPILL
  <2> QED
    BY <1>2, <2>1, <2>2

\* The arguments of the running function lie between its callee and its frame.
LEMMA ArgumentSlotOwn ==
    ASSUME IInv, Running, NEW a \in 1..Arity[pc.fn]
    PROVE  ArgumentSlot(a) \in Int /\ ArgumentSlot(a) >= fp - Arity[pc.fn] /\ ArgumentSlot(a) < fp
<1>1. Arity[pc.fn] \in Nat /\ fp \in Nat
  BY RunningFacts, ArityType
<1> QED
  BY <1>1 DEF ArgumentSlot

\* The slot of a local holds a Value (emitGetLocal).
LEMMA GetLocalStep == ASSUME IInv, ScriptLocals = FALSE, GetLocal PROVE IInv'
<1>1. PICK i \in 0..(pc.locals - 1) : Running /\ PushValue(Read(LocalSlot(i)))
  BY DEF GetLocal
<1>2. Read(LocalSlot(i)) \in Values
  BY <1>1, LocalSlotOwn, OwnSlot
<1> QED
  BY <1>1, <1>2, PushStep

\* The slot of an argument holds a Value (emitGetArgument).
LEMMA GetArgumentStep == ASSUME IInv, ScriptLocals = FALSE, GetArgument PROVE IInv'
<1>1. PICK a \in 1..Arity[pc.fn] : Running /\ PushValue(Read(ArgumentSlot(a)))
  BY DEF GetArgument
<1>2. Read(ArgumentSlot(a)) \in Values
  BY <1>1, ArgumentSlotOwn, ArgumentIsValue
<1> QED
  BY <1>1, <1>2, PushStep

\* A store of x0 and x1 to a slot that holds a Value, and is no callee, keeps
\* the invariant.
LEMMA StoreStep ==
    ASSUME IInv, ScriptLocals = FALSE, HasTemps(1), NEW x \in Nat, x <= sp, StoreAcc(x),
           stack[x].kind = "value", x > ScriptFrame + 2,
           pc.fn # Script => x > fp - Arity[pc.fn] - 1
    PROVE  IInv'
<1>1. /\ Running /\ pc.temps >= 1 /\ InFrame /\ acc' = acc /\ pc' = pc
      /\ stack' = [stack EXCEPT ![x] = Value(acc)]
  BY DEF HasTemps, StoreAcc
<1>2. acc = Read(sp) /\ acc \in Values
  <2>1. acc = Read(sp)
    BY <1>1, RunningFacts DEF IInv, TopInAcc
  <2>2. sp \in Nat /\ sp > fp + SpillCount(pc.fn) /\ sp <= sp
    BY <1>1, RunningFacts
  <2> QED
    BY <1>1, <2>1, <2>2, OwnSlot
<1>3. /\ stack \in Seq(Slots) /\ x \in 1..Len(stack) /\ Value(acc) \in Slots
  <2>1. stack \in Seq(Slots) /\ x <= Len(stack)
    BY <1>1, RunningFacts DEF sp
  <2>2. x > 0
    BY DEF ScriptFrame
  <2>3. Value(acc) \in Slots
    BY <1>2 DEF Slots, Value
  <2> QED
    BY <2>1, <2>2, <2>3
<1>4. /\ stack' \in Seq(Slots) /\ Len(stack') = Len(stack) /\ stack'[x] = Value(acc)
      /\ \A k \in 1..Len(stack) : k # x => stack'[k] = stack[k]
  <2> HIDE DEF Value, Slots
  <2> QED
    BY <1>1, <1>3
<1>5. SameBelow(stack, stack', Len(stack), x)
  BY <1>3, <1>4 DEF SameBelow, Value
<1>6. Read(sp)' = acc
  <2>1. sp \in 1..Len(stack) /\ Len(stack') = sp
    BY <1>1, <1>4, RunningFacts DEF sp
  <2>2. CASE sp = x
    BY <1>4, <2>1, <2>2 DEF Read, ReadFrom, Value, sp
  <2>3. CASE sp # x
    BY <1>2, <1>4, <2>1, <2>3 DEF Read, ReadFrom, sp
  <2> QED
    BY <2>2, <2>3
<1>7. /\ Len(stack) \in Nat /\ Len(stack) <= Len(stack) /\ Len(stack) <= Len(stack')
      /\ fp + SpillCount(pc.fn) <= Len(stack)
      /\ Len(stack') = fp + SpillCount(pc.fn) + pc'.locals + pc'.temps
      /\ \A k \in (Len(stack) + 1)..Len(stack') : FALSE
  BY <1>1, <1>4, RunningFacts DEF sp
<1>8. pc' \in Points /\ (pc.fn = Script => pc'.locals = 0) /\ acc' = Read(sp)'
  BY <1>1, <1>6, RunningFacts, NoScriptLocals
<1> QED
  BY <1>1, <1>2, <1>4, <1>5, <1>7, <1>8, FrameStep

\* emitSetLocal stores to a local of the running function.
LEMMA SetLocalStep == ASSUME IInv, ScriptLocals = FALSE, SetLocal PROVE IInv'
<1>1. PICK i \in 0..(pc.locals - 1) : HasTemps(1) /\ StoreAcc(LocalSlot(i))
  BY DEF SetLocal
<1> DEFINE x == LocalSlot(i)
<1>2. Running /\ x \in Nat /\ x > fp + SpillCount(pc.fn) /\ x <= sp
  BY <1>1, LocalSlotOwn DEF HasTemps
<1>3. StoreAcc(x)
  BY <1>1
<1> HIDE DEF x
<1>4. stack[x].kind = "value" /\ x > ScriptFrame + 2 /\ (pc.fn # Script => x > fp - Arity[pc.fn] - 1)
  BY <1>2, OwnSlot
<1> QED
  BY <1>1, <1>2, <1>3, <1>4, StoreStep

\* emitSetArgument stores to an argument of the running function.
LEMMA SetArgumentStep == ASSUME IInv, ScriptLocals = FALSE, SetArgument PROVE IInv'
<1>1. PICK a \in 1..Arity[pc.fn] : HasTemps(1) /\ StoreAcc(ArgumentSlot(a))
  BY DEF SetArgument
<1> DEFINE x == ArgumentSlot(a)
<1>2. Running /\ x \in Int /\ x >= fp - Arity[pc.fn] /\ x < fp /\ StoreAcc(x)
  BY <1>1, ArgumentSlotOwn DEF HasTemps
<1> HIDE DEF x
<1>3. /\ x \in Nat /\ x <= sp /\ stack[x].kind = "value" /\ x > ScriptFrame + 2
      /\ (pc.fn # Script => x > fp - Arity[pc.fn] - 1)
  BY <1>2, ArgumentIsValue
<1> QED
  BY <1>1, <1>2, <1>3, StoreStep

\* A step that leaves the stack as it is.
LEMMA SameStackStep ==
    ASSUME IInv, ScriptLocals = FALSE, Running, InFrame, stack' = stack,
           pc' \in Points, pc'.fn = pc.fn, pc.fn = Script => pc'.locals = 0,
           pc'.locals + pc'.temps = pc.locals + pc.temps,
           acc' \in Values \cup {Junk}, pc'.temps > 0 => acc' = Read(sp)
    PROVE  IInv'
<1>1. SameBelow(stack, stack', Len(stack), 0)
  BY DEF SameBelow
<1>2. pc'.locals \in Nat /\ pc'.temps \in Nat
  BY BoundTypes DEF Points
<1>3. /\ Len(stack) \in Nat /\ Len(stack) <= Len(stack) /\ Len(stack) <= Len(stack')
      /\ fp + SpillCount(pc.fn) <= Len(stack)
      /\ Len(stack') = fp + SpillCount(pc.fn) + pc'.locals + pc'.temps
      /\ \A k \in (Len(stack) + 1)..Len(stack') : FALSE
  <2>1. /\ fp \in Nat /\ SpillCount(pc.fn) \in Nat /\ pc.locals \in Nat /\ pc.temps \in Nat
        /\ Len(stack) \in Nat /\ Len(stack) = fp + SpillCount(pc.fn) + pc.locals + pc.temps
    BY RunningFacts DEF sp
  <2>2. Len(stack') = Len(stack)
    OBVIOUS
  <2>3. fp + SpillCount(pc.fn) <= Len(stack)
    BY <2>1
  <2>4. Len(stack') = fp + SpillCount(pc.fn) + pc'.locals + pc'.temps
    BY <1>2, <2>1, <2>2
  <2> QED
    BY <2>1, <2>2, <2>3, <2>4
<1>4. pc'.temps > 0 => acc' = Read(sp)'
  BY DEF Read, ReadFrom, sp
<1> QED
  BY <1>1, <1>3, <1>4, RunningFacts, FrameStep

\* op_set_global loads the operand again after tableSet.
LEMMA SetGlobalStep == ASSUME IInv, ScriptLocals = FALSE, SetGlobal PROVE IInv'
<1>1. /\ Running /\ pc.temps >= 1 /\ InFrame /\ stack' = stack /\ pc' = pc /\ acc' = Read(sp)
  BY DEF SetGlobal, HasTemps
<1>2. sp \in Nat /\ sp > fp + SpillCount(pc.fn) /\ sp <= sp
  BY <1>1, RunningFacts
<1>3. Read(sp) \in Values
  BY <1>1, <1>2, OwnSlot
<1> QED
  BY <1>1, <1>3, NoScriptLocals, RunningFacts, SameStackStep

\* A temporary becomes a local where it is.
LEMMA DefineLocalStep == ASSUME IInv, ScriptLocals = FALSE, DefineLocal PROVE IInv'
<1>1. /\ Running /\ pc.temps = 1 /\ pc.locals < MaxLocals /\ pc.fn # Script
      /\ InFrame /\ stack' = stack /\ acc' = acc /\ pc' = Advance(1, -1)
  BY DEF DefineLocal, HasTemps
<1>2. pc.locals + 1 \in 0..MaxLocals /\ pc.temps + (-1) \in 0..MaxTemps
  BY <1>1, RunningFacts, BoundTypes
<1>3. pc' \in Points /\ pc'.fn = pc.fn /\ pc'.locals = pc.locals + 1 /\ pc'.temps = 0
  BY <1>1, <1>2, AdvanceType, RunningFacts
<1>4. acc' \in Values \cup {Junk}
  BY <1>1 DEF IInv, TypeOK
<1>5. pc'.locals + pc'.temps = pc.locals + pc.temps
  BY <1>1, <1>3, RunningFacts
<1>6. pc.fn = Script => pc'.locals = 0
  BY <1>1
<1>7. pc'.temps > 0 => acc' = Read(sp)
  BY <1>3
<1> QED
  BY <1>1, <1>3, <1>4, <1>5, <1>6, <1>7, SameStackStep

\* Dropping all temporaries, or a local, of the running function keeps the
\* invariant.
LEMMA CutStep ==
    ASSUME IInv, ScriptLocals = FALSE, Running, InFrame, NEW m \in Nat, m <= sp,
           stack' = SubSeq(stack, 1, m), pc' \in Points, pc'.fn = pc.fn, pc'.temps = 0,
           pc.fn = Script => pc'.locals = 0,
           m = fp + SpillCount(pc.fn) + pc'.locals, acc' \in Values \cup {Junk}
    PROVE  IInv'
<1>1. /\ stack' \in Seq(Slots) /\ Len(stack') = m /\ \A k \in 1..m : stack'[k] = stack[k]
  BY Cut, RunningFacts DEF sp
<1>2. SameBelow(stack, stack', m, 0)
  BY <1>1 DEF SameBelow
<1>3. pc'.locals \in Nat
  BY BoundTypes DEF Points
<1>4. fp + SpillCount(pc.fn) <= m /\ Len(stack') = fp + SpillCount(pc.fn) + pc'.locals + pc'.temps
  BY <1>1, <1>3, RunningFacts, SMTT(30)
<1>5. m <= Len(stack) /\ m <= Len(stack') /\ \A k \in (m + 1)..Len(stack') : FALSE
  BY <1>1 DEF sp
<1>6. pc'.temps > 0 => acc' = Read(sp)'
  OBVIOUS
<1>7. 0 \in Nat /\ \A k \in (m + 1)..Len(stack') : \E v \in Values : stack'[k] = Value(v)
  BY <1>5
<1> QED
  BY <1>1, <1>2, <1>4, <1>5, <1>6, <1>7, FrameStep, Zenon

\* emitPop, op_print and op_define_global drop one temporary.
LEMMA DiscardStep == ASSUME IInv, ScriptLocals = FALSE, Discard PROVE IInv'
<1>1. /\ Running /\ pc.temps = 1 /\ InFrame /\ acc' \in {acc, Junk}
      /\ stack' = SubSeq(stack, 1, sp - 1) /\ pc' = Advance(0, -1)
  BY DEF Discard, HasTemps
<1>2. pc.locals + 0 \in 0..MaxLocals /\ pc.temps + (-1) \in 0..MaxTemps
  BY <1>1, RunningFacts, BoundTypes DEF Points
<1>3. pc' \in Points /\ pc'.fn = pc.fn /\ pc'.locals = pc.locals /\ pc'.temps = 0
  BY <1>1, <1>2, AdvanceType, RunningFacts
<1>4. sp - 1 \in Nat /\ sp - 1 <= sp /\ sp - 1 = fp + SpillCount(pc.fn) + pc'.locals
  BY <1>1, <1>3, RunningFacts
<1>5. acc' \in Values \cup {Junk}
  BY <1>1 DEF IInv, TypeOK
<1>6. pc.fn = Script => pc'.locals = 0
  BY <1>1, <1>3, NoScriptLocals
<1> QED
  BY <1>1, <1>3, <1>4, <1>5, <1>6, CutStep

\* endScope drops one local.
LEMMA EndScopeStep == ASSUME IInv, ScriptLocals = FALSE, EndScope PROVE IInv'
<1>1. /\ Running /\ pc.temps = 0 /\ pc.locals > 0 /\ InFrame /\ acc' = acc
      /\ stack' = SubSeq(stack, 1, sp - 1) /\ pc' = Advance(-1, 0)
  BY DEF EndScope
<1>2. pc.locals + (-1) \in 0..MaxLocals /\ pc.temps + 0 \in 0..MaxTemps
  BY <1>1, RunningFacts, BoundTypes DEF Points
<1>3. pc' \in Points /\ pc'.fn = pc.fn /\ pc'.locals = pc.locals + (-1) /\ pc'.temps = 0
  <2>1. pc' \in Points /\ pc'.fn = pc.fn /\ pc'.locals = pc.locals + (-1) /\ pc'.temps = pc.temps + 0
    BY <1>1, <1>2, AdvanceType, RunningFacts
  <2> QED
    BY <1>1, <2>1
<1>4. sp - 1 \in Nat /\ sp - 1 <= sp /\ sp - 1 = fp + SpillCount(pc.fn) + pc'.locals
  BY <1>1, <1>3, RunningFacts
<1>5. acc' \in Values \cup {Junk}
  BY <1>1 DEF IInv, TypeOK
<1>6. pc.fn # Script
  <2>1. pc.fn = Script => pc.locals = 0
    BY <1>1, NoScriptLocals
  <2> QED
    BY <1>1, <2>1
<1> QED
  BY <1>1, <1>3, <1>4, <1>5, <1>6, CutStep

\* An operator of n operands writes its result over the first of them.
LEMMA OperateStep ==
    ASSUME IInv, ScriptLocals = FALSE, NEW n \in Nat, n >= 1, Operate(n)
    PROVE  IInv'
<1>1. PICK v \in Plain : stack' = Append(SubSeq(stack, 1, sp - n), Value(v)) /\ acc' = v
  BY DEF Operate
<1>2. Running /\ pc.temps >= n /\ InFrame /\ pc' = Advance(0, 1 - n)
  BY DEF Operate, HasTemps
<1>3. pc.locals + 0 \in 0..MaxLocals /\ pc.temps + (1 - n) \in 0..MaxTemps /\ 1 - n \in Int
  BY <1>2, RunningFacts, BoundTypes DEF Points
<1>4. /\ pc' \in Points /\ pc'.fn = pc.fn /\ pc'.locals = pc.locals
      /\ pc'.temps = pc.temps + (1 - n)
  BY <1>2, <1>3, AdvanceType, RunningFacts, SMTT(30)
<1> DEFINE m == sp - n
           cut == SubSeq(stack, 1, m)
<1>5. m \in Nat /\ m <= Len(stack) /\ fp + SpillCount(pc.fn) <= m
      /\ m + 1 = fp + SpillCount(pc.fn) + pc'.locals + pc'.temps
  <2>1. /\ sp \in Nat /\ fp \in Nat /\ SpillCount(pc.fn) \in Nat
        /\ pc.locals \in Nat /\ pc.temps \in Nat
        /\ sp = fp + SpillCount(pc.fn) + pc.locals + pc.temps
    BY <1>2, RunningFacts
  <2>2. m + 1 = fp + SpillCount(pc.fn) + pc'.locals + pc'.temps
    BY <1>4, <2>1
  <2>3. m <= sp /\ fp + SpillCount(pc.fn) <= m /\ m \in Nat
    <3>1. pc.temps >= n
      BY <1>2
    <3> QED
      BY <3>1, <2>1
  <2> QED
    BY <2>2, <2>3 DEF sp
<1> HIDE DEF m
<1>6. cut \in Seq(Slots) /\ Len(cut) = m /\ \A k \in 1..m : cut[k] = stack[k]
  <2>1. stack \in Seq(Slots)
    BY <1>2, RunningFacts
  <2> QED
    BY <1>5, <2>1, Cut, Zenon
<1>7. stack' = Append(cut, Value(v)) /\ v \in Values \cup {Script} /\ v \in Values
  BY <1>1 DEF m, Values
<1> HIDE DEF cut
<1>8. /\ stack' \in Seq(Slots) /\ Len(stack') = m + 1 /\ stack'[m + 1] = Value(v)
      /\ \A k \in 1..m : stack'[k] = stack[k]
  BY <1>6, <1>7, Pushed
<1>9. SameBelow(stack, stack', m, 0)
  BY <1>8 DEF SameBelow
<1>10. \A k \in (m + 1)..Len(stack') : \E w \in Values : stack'[k] = Value(w)
  <2>1. \A k \in (m + 1)..Len(stack') : k = m + 1
    BY <1>5, <1>8
  <2> QED
    BY <1>7, <1>8, <2>1
<1>11. acc' \in Values \cup {Junk} /\ acc' = Read(sp)'
  BY <1>1, <1>7, <1>8 DEF Read, ReadFrom, sp, Value
<1>12. pc.fn = Script => pc'.locals = 0
  BY <1>2, <1>4, NoScriptLocals
<1>13. m <= Len(stack') /\ Len(stack') = fp + SpillCount(pc.fn) + pc'.locals + pc'.temps
  BY <1>5, <1>8
<1> QED
  BY <1>2, <1>4, <1>5, <1>8, <1>9, <1>10, <1>11, <1>12, <1>13, FrameStep

\* op_call builds a frame that is chained to the caller's.
LEMMA CallStep == ASSUME IInv, ScriptLocals = FALSE, Call PROVE IInv'
<1>1. PICK n \in 0..(pc.temps - 1) :
         LET callee == Read(sp - n)
         IN  /\ Callable(callee, n)
             /\ stack' = stack \o << Frame(fp, Advance(0, -n)), Spill(closure, constants) >>
             /\ fp' = sp + 1
             /\ closure' = callee /\ constants' = callee
             /\ acc' = Junk
             /\ pc' = [fn |-> callee, locals |-> 0, temps |-> 0]
             /\ UNCHANGED <<optable, result>>
  BY DEF Call
<1>2. Running
  BY DEF Call
<1>3. n \in Nat /\ n <= pc.temps - 1
  BY <1>1, <1>2, RunningFacts
<1> DEFINE g == pc.fn
           h == Read(sp - n)
           lr == Advance(0, -n)
           i == sp + 1
<1>4. /\ sp - n \in Nat /\ sp - n > fp + SpillCount(g) /\ sp - n <= sp
      /\ sp - n = fp + SpillCount(g) + pc.locals + (pc.temps + (-n))
  BY <1>2, <1>3, RunningFacts
<1>5. h \in Values /\ stack[sp - n] = Value(h)
  <2>1. \A k \in Nat : k > fp + SpillCount(g) /\ k <= sp => Read(k) \in Values /\ stack[k] = Value(Read(k))
    BY <1>2, OwnSlot
  <2> QED
    BY <1>4, <2>1
<1>6. h \in Functions /\ Arity[h] = n
  BY <1>1, <1>5, FramesAssumption DEF Callable, Callables, Values
<1>7. lr \in Points /\ lr.fn = g /\ lr.locals = pc.locals /\ lr.temps = pc.temps + (-n) /\ lr.temps >= 1
  <2>1. pc \in Points /\ pc.locals \in 0..MaxLocals /\ pc.temps \in 0..MaxTemps
    BY <1>2, RunningFacts DEF Points
  <2>2. pc.locals + 0 \in 0..MaxLocals /\ pc.temps + (-n) \in 0..MaxTemps /\ -n \in Int /\ pc.temps + (-n) >= 1
    BY <1>3, <2>1, BoundTypes
  <2>3. pc.locals + 0 = pc.locals
    BY <1>2, RunningFacts
  <2> QED
    BY <2>1, <2>2, <2>3, AdvanceType
<1>8. /\ i \in Nat /\ i = Len(stack) + 1 /\ i - Arity[h] - 1 = sp - n
      /\ i - Arity[h] - 1 = fp + SpillCount(g) + lr.locals + lr.temps
  <2>1. sp \in Nat /\ sp = Len(stack)
    BY <1>2, RunningFacts DEF sp
  <2> HIDE DEF lr, h
  <2>2. i - Arity[h] - 1 = sp - n
    BY <1>3, <1>6, <2>1
  <2>3. i - Arity[h] - 1 = fp + SpillCount(g) + lr.locals + lr.temps
    BY <1>4, <1>7, <2>2
  <2> QED
    BY <2>1, <2>2, <2>3
<1>9. stack[i - Arity[h] - 1] = Value(h)
  BY <1>5, <1>8, Zenon
<1>10. g = Script => lr.locals = 0 \/ ScriptLocals
  BY <1>2, <1>7, NoScriptLocals
<1>11. stack' = stack \o << Frame(fp, lr), Spill(g, g) >>
  BY <1>1, <1>2, RunningFacts
<1>12. /\ fp' = i /\ closure' = h /\ constants' = h /\ acc' = Junk /\ optable' = optable
       /\ result' = result /\ pc' = [fn |-> h, locals |-> 0, temps |-> 0]
  BY <1>1
<1>13. stack \in Seq(Slots) /\ WellFramed(stack, fp, g) /\ fp \in Nat
  BY <1>2, RunningFacts
<1> HIDE DEF g, h, lr, i
<1>14. stack' \in Seq(Slots) /\ Len(stack') = Len(stack) + 2 /\ WellFramed(stack', i, h)
  BY <1>6, <1>7, <1>8, <1>9, <1>10, <1>11, <1>13, CallFramed, Zenon
<1>15. pc' \in Points /\ pc'.fn = h /\ pc'.locals = 0 /\ pc'.temps = 0
  BY <1>6, <1>12, BoundTypes DEF Points, Callables
<1>16. Running'
  BY <1>15, PointIsRunning DEF Running
<1>17. TypeOK'
  <2>1. h \in Callables
    BY <1>6 DEF Callables
  <2> QED
    BY <1>8, <1>12, <1>14, <1>15, <2>1 DEF IInv, TypeOK
<1>18. StackDiscipline'
  <2>1. SpillCount(h) = 1
    BY <1>6, FramesAssumption DEF SpillCount, FUNCTION_STACK_SPILL
  <2>2. Len(stack') = i + SpillCount(h) + pc'.locals + pc'.temps
    BY <1>8, <1>13, <1>14, <1>15, <2>1
  <2> QED
    BY <1>12, <1>14, <1>15, <1>16, <2>2 DEF StackDiscipline, sp
<1>19. RegistersMatchCode'
  BY <1>2, <1>12, <1>15, <1>16, RunningFacts DEF RegistersMatchCode
<1>20. TopInAcc'
  BY <1>15 DEF TopInAcc
<1>21. ScriptOnce'
  <2>1. SUFFICES ASSUME NEW k \in DOMAIN stack', k > ScriptFrame + 2
                 PROVE  stack'[k] # Value(Script)
    BY DEF ScriptOnce
  <2>2. CASE k \in 1..Len(stack)
    <3>1. stack'[k] = stack[k]
      BY <1>11, <1>13, <2>2, <1>14
    <3> QED
      BY <2>1, <2>2, <3>1, <1>13 DEF IInv, ScriptOnce
  <2>3. CASE k = Len(stack) + 1
    BY <1>11, <1>13, <2>3 DEF Frame, Value
  <2>4. CASE k = Len(stack) + 2
    BY <1>11, <1>13, <2>4 DEF Spill, Value
  <2> QED
    BY <1>13, <1>14, <2>1, <2>2, <2>3, <2>4
<1> QED
  BY <1>17, <1>18, <1>19, <1>20, <1>21 DEF IInv

\* The heart of the calling convention: what op_return reads from the frame,
\* the spill slot and the arity leads back to the caller's state.
LEMMA ReturnValue ==
    ASSUME IInv, ScriptLocals = FALSE, Running, pc.fn # Script, NEW v \in Values, OpReturn(v)
    PROVE  IInv'
<1> DEFINE p == stack[fp].fp
           lr == stack[fp].lr
           c == fp - Arity[pc.fn] - 1
           m == c - 1
           cut == SubSeq(stack, 1, m)
<1>1. /\ stack' = Append(SubSeq(stack, 1, fp - Arity[pc.fn] - 2), Value(v))
      /\ closure' = stack[fp + 1].closure /\ constants' = stack[fp + 1].constants
      /\ fp' = p /\ pc' = lr /\ acc' = v /\ optable' = optable /\ result' = result
  BY RunningFacts DEF OpReturn
<1>2. /\ stack \in Seq(Slots) /\ fp \in Nat /\ fp \in FrameSlots(stack) /\ sp = Len(stack)
      /\ WellFramed(stack, fp, pc.fn) /\ CallOf(stack, fp, pc.fn) /\ fp <= sp
  BY RunningFacts DEF FrameOf, sp
<1>3. /\ p \in FrameSlots(stack) /\ p >= 3 /\ p < fp /\ fp > 3 /\ lr \in Points /\ lr.temps >= 1
      /\ c = p + SpillCount(lr.fn) + lr.locals + lr.temps
      /\ \A j \in FrameSlots(stack) : j < fp => j <= p
      /\ (lr.fn = Script => lr.locals = 0)
  BY <1>2 DEF CallOf, ScriptFrame
<1>4. stack[fp + 1].closure = lr.fn /\ stack[fp + 1].constants = lr.fn
  BY <1>2 DEF CallOf, Spill
<1>5. FrameOf(stack, p, lr.fn)
  BY <1>2, <1>3 DEF WellFramed, ScriptFrame
<1>6. p \in Nat
  BY <1>2, <1>3 DEF FrameSlots
<1>7. lr.fn \in Callables /\ lr.locals \in Nat /\ lr.temps \in Nat
  BY <1>3, BoundTypes DEF Points
<1>8. SpillCount(lr.fn) \in Nat /\ SpillCount(lr.fn) >= 1
  BY DEF SpillCount, FUNCTION_STACK_SPILL
<1>9. Arity[pc.fn] \in Nat
  BY RunningFacts, ArityType
<1>10. c \in Int /\ c < fp /\ fp - Arity[pc.fn] - 2 = m
  BY <1>2, <1>9
<1>11. m + 1 = p + SpillCount(lr.fn) + lr.locals + lr.temps
  BY <1>3, <1>10
<1> HIDE DEF p, lr, c
<1>12. m \in Nat /\ p + SpillCount(lr.fn) <= m /\ m <= Len(stack) /\ m < fp
  BY <1>2, <1>3, <1>6, <1>7, <1>8, <1>10
<1> HIDE DEF m
<1>13. cut \in Seq(Slots) /\ Len(cut) = m /\ \A k \in 1..m : cut[k] = stack[k]
  BY <1>2, <1>12, Cut, Zenon
<1>14. stack' = Append(cut, Value(v)) /\ v \in Values \cup {Script}
  BY <1>1, <1>10
<1> HIDE DEF cut
<1>15. /\ stack' \in Seq(Slots) /\ Len(stack') = m + 1 /\ stack'[m + 1] = Value(v)
       /\ \A k \in 1..m : stack'[k] = stack[k]
  BY <1>13, <1>14, Pushed
<1>16. WellFramed(stack', p, lr.fn)
  <2>1. SameBelow(stack, stack', m, 0) /\ 0 \in Nat /\ m <= Len(stack')
    BY <1>12, <1>15 DEF SameBelow
  <2>2. \A k \in (m + 1)..Len(stack') : stack'[k].kind = "value"
    <3>1. \A k \in (m + 1)..Len(stack') : k = m + 1
      BY <1>12, <1>15
    <3>2. stack'[m + 1].kind = "value"
      BY <1>15 DEF Value
    <3> QED
      BY <3>1, <3>2
  <2>3. \A j \in FrameSlots(stack) : j <= m => j <= p
    <3>1. \A j \in FrameSlots(stack) : j \in Nat
      BY <1>2 DEF FrameSlots
    <3> QED
      BY <1>2, <1>3, <1>12, <3>1
  <2> QED
    BY <1>2, <1>3, <1>5, <1>6, <1>12, <1>15, <2>1, <2>2, <2>3, WellFramedKept, Zenon
<1>17. Running'
  BY <1>1, <1>3, PointIsRunning DEF Running
<1>18. TypeOK'
  BY <1>1, <1>3, <1>4, <1>6, <1>7, <1>15 DEF IInv, TypeOK
<1>19. StackDiscipline'
  BY <1>1, <1>3, <1>11, <1>15, <1>16, <1>17 DEF StackDiscipline, sp
<1>20. RegistersMatchCode'
  BY <1>1, <1>4, <1>17, RunningFacts DEF RegistersMatchCode
<1>21. TopInAcc'
  BY <1>1, <1>15 DEF TopInAcc, Read, ReadFrom, Value, sp
<1>22. ScriptOnce'
  <2>1. SUFFICES ASSUME NEW k \in DOMAIN stack', k > ScriptFrame + 2
                 PROVE  stack'[k] # Value(Script)
    BY DEF ScriptOnce
  <2>2. CASE k \in 1..m
    <3>1. stack'[k] = stack[k] /\ k \in DOMAIN stack
      BY <1>2, <1>12, <1>15, <2>2
    <3> QED
      BY <2>1, <3>1 DEF IInv, ScriptOnce
  <2>3. CASE k = m + 1
    BY <1>15, <2>3, FramesAssumption DEF Value, Values
  <2> QED
    BY <1>12, <1>15, <2>1, <2>2, <2>3
<1> QED
  BY <1>18, <1>19, <1>20, <1>21, <1>22 DEF IInv

\* op_return drops the frame, the arguments and the callee, whatever they are.
LEMMA ReturnStep == ASSUME IInv, ScriptLocals = FALSE, Return PROVE IInv'
<1>1. Running /\ pc.fn # Script
  BY DEF Return
<1>2. CASE pc.temps = 1 /\ OpReturn(Read(sp))
  <2>1. sp \in Nat /\ sp > fp + SpillCount(pc.fn) /\ sp <= sp
    BY <1>1, <1>2, RunningFacts
  <2>2. Read(sp) \in Values
    BY <1>1, <2>1, OwnSlot
  <2> QED
    BY <1>1, <1>2, <2>2, ReturnValue
<1>3. CASE OpReturn(Nil)
  BY <1>1, <1>3, ReturnValue DEF Values
<1> QED
  BY <1>2, <1>3 DEF Return

\* interpret() enters start_script from C, with an empty stack.
LEMMA StartStep == ASSUME IInv, Start PROVE IInv'
<1>1. /\ fp = CFrame /\ closure = CRegister /\ constants = CRegister /\ optable = CRegister
  BY DEF Start, IInv, StackDiscipline, RegistersMatchCode
<1>2. /\ stack' = << Frame(CFrame, MainReturn), Saved(CRegister),
                     Frame(1, StartScript), Spill(CRegister, CRegister), Value(Script) >>
      /\ fp' = 3 /\ closure' = Script /\ constants' = Script /\ optable' = OpTable
      /\ acc' = Junk /\ pc' = [fn |-> Script, locals |-> 0, temps |-> 0] /\ result' = "none"
  BY <1>1 DEF Start
<1>3. pc' \in Points /\ Running' /\ pc'.fn = Script /\ pc'.locals = 0 /\ pc'.temps = 0
  BY <1>2, BoundTypes, PointIsRunning DEF Points, Callables, Running
<1>4. /\ Len(stack') = 5 /\ DOMAIN stack' = 1..5
      /\ stack'[1] = Frame(CFrame, MainReturn) /\ stack'[2] = Saved(CRegister)
      /\ stack'[3] = Frame(1, StartScript) /\ stack'[4] = Spill(CRegister, CRegister)
      /\ stack'[5] = Value(Script)
  BY <1>2
<1>5. stack' \in Seq(Slots)
  <2>1. Frame(CFrame, MainReturn) \in Slots /\ Frame(1, StartScript) \in Slots
    BY DEF Slots, Frame
  <2>2. /\ Saved(CRegister) \in Slots /\ Spill(CRegister, CRegister) \in Slots
        /\ Value(Script) \in Slots
    BY DEF Slots, Saved, Spill, Value
  <2> QED
    BY <1>2, <2>1, <2>2
<1>6. /\ stack'[1].kind = "frame" /\ stack'[2].kind = "saved" /\ stack'[3].kind = "frame"
      /\ stack'[4].kind = "spill" /\ stack'[5].kind = "value"
  BY <1>4 DEF Frame, Saved, Spill, Value
<1>7. FrameSlots(stack') = {1, 3}
  BY <1>4, <1>6 DEF FrameSlots
<1>8. WellFramed(stack', 3, Script)
  <2>1. ScriptEntered(stack')
    BY <1>4 DEF ScriptEntered, ScriptFrame
  <2>2. \A i \in 4..Len(stack') : /\ stack'[i].kind = "spill" <=> stack'[i - 1].kind = "frame"
                                  /\ stack'[i].kind \in {"value", "frame", "spill"}
    <3>1. \A i \in 4..Len(stack') : i = 4 \/ i = 5
      BY <1>4
    <3> QED
      BY <3>1, <1>6
  <2>3. FrameOf(stack', 3, Script)
    BY DEF FrameOf, ScriptFrame
  <2>4. ~ \E j \in FrameSlots(stack') : j > ScriptFrame
    BY <1>7 DEF ScriptFrame
  <2>5. 3 \in FrameSlots(stack') /\ \A j \in FrameSlots(stack') : j <= 3
    BY <1>7
  <2> QED
    BY <2>1, <2>2, <2>3, <2>4, <2>5 DEF WellFramed
<1>9. TypeOK'
  BY <1>2, <1>3, <1>5 DEF TypeOK, Callables
<1>10. StackDiscipline'
  BY <1>2, <1>3, <1>4, <1>8 DEF StackDiscipline, sp, SpillCount
<1>11. RegistersMatchCode' /\ TopInAcc'
  BY <1>2, <1>3 DEF RegistersMatchCode, TopInAcc
<1>12. ScriptOnce'
  BY <1>4 DEF ScriptOnce, ScriptFrame
<1> QED
  BY <1>9, <1>10, <1>11, <1>12 DEF IInv

\* C runs again, with the stack and the registers it had before.
LEMMA BackInC ==
    ASSUME stack' = <<>>, fp' = CFrame, closure' = CRegister, constants' = CRegister,
           optable' = CRegister, acc' = Junk, pc' = Native,
           result' \in {"ok", "runtime_error"}
    PROVE  IInv'
<1>1. ~Running'
  BY DEF Running
<1>2. TypeOK'
  BY DEF TypeOK
<1>3. StackDiscipline' /\ RegistersMatchCode' /\ TopInAcc' /\ ScriptOnce'
  BY <1>1 DEF StackDiscipline, RegistersMatchCode, TopInAcc, ScriptOnce
<1> QED
  BY <1>2, <1>3 DEF IInv

\* After the longjmp there is no frame, and C has its registers.
LEMMA UnwindStep == ASSUME Unwind PROVE IInv'
  BY BackInC DEF Unwind

\* The script's frame is above start_script's, whose frame is the first slot.
LEMMA FinishStep == ASSUME IInv, Finish PROVE IInv'
<1>1. /\ Running /\ pc.fn = Script /\ acc' = Junk /\ result' = "ok"
      /\ stack' = SubSeq(stack, 1, stack[fp].fp - 1) /\ fp' = stack[stack[fp].fp].fp
      /\ pc' = IF stack[stack[fp].fp].lr = MainReturn THEN Native ELSE pc
      /\ optable' = stack[stack[fp].fp + 1].optable
      /\ closure' = stack[fp + 1].closure /\ constants' = stack[fp + 1].constants
  BY DEF Finish
<1>2. fp = 3
  <2>1. FrameOf(stack, fp, Script)
    BY <1>1, RunningFacts
  <2>2. ~CallOf(stack, fp, Script)
    BY FramesAssumption DEF CallOf
  <2> QED
    BY <2>1, <2>2 DEF FrameOf, ScriptFrame
<1>3. /\ stack[1] = Frame(CFrame, MainReturn) /\ stack[2] = Saved(CRegister)
      /\ stack[3] = Frame(1, StartScript) /\ stack[4] = Spill(CRegister, CRegister)
  BY <1>1, RunningFacts DEF WellFramed, ScriptEntered
<1>4. stack[fp].fp = 1
  BY <1>2, <1>3 DEF Frame
<1>5. stack' = <<>>
  <2>1. stack' = SubSeq(stack, 1, 0)
    BY <1>1, <1>4
  <2> QED
    BY <2>1, RunningFacts, SubSeqEmpty
<1>6. /\ fp' = CFrame /\ pc' = Native /\ optable' = CRegister
      /\ closure' = CRegister /\ constants' = CRegister
  <2>1. stack[1].fp = CFrame /\ stack[1].lr = MainReturn
    BY <1>3 DEF Frame
  <2>2. stack[1 + 1].optable = CRegister
    BY <1>3 DEF Saved
  <2>3. stack[3 + 1].closure = CRegister /\ stack[3 + 1].constants = CRegister
    BY <1>3 DEF Spill
  <2> QED
    BY <1>1, <1>2, <1>4, <2>1, <2>2, <2>3
<1> QED
  BY <1>1, <1>5, <1>6, BackInC

\* The invariant holds before the first script.
LEMMA InitStep == ASSUME Init PROVE IInv
<1>1. ~Running
  BY DEF Init, Running
<1>2. TypeOK
  BY DEF Init, TypeOK
<1> QED
  BY <1>1, <1>2 DEF Init, IInv, StackDiscipline, RegistersMatchCode, TopInAcc, ScriptOnce

\* Every step keeps the invariant.
LEMMA NextStep == ASSUME IInv, ScriptLocals = FALSE, [Next]_vars PROVE IInv'
<1>1. CASE Start
  BY <1>1, StartStep
<1>2. CASE Finish
  BY <1>2, FinishStep
<1>3. CASE RuntimeError \/ CallError
  BY <1>3, UnwindStep DEF RuntimeError, CallError
<1>4. CASE Load \/ GetLocal \/ GetArgument
  BY <1>4, LoadStep, GetLocalStep, GetArgumentStep
<1>5. CASE SetLocal \/ SetArgument \/ SetGlobal
  BY <1>5, SetLocalStep, SetArgumentStep, SetGlobalStep
<1>6. CASE DefineLocal \/ EndScope \/ Discard
  BY <1>6, DefineLocalStep, EndScopeStep, DiscardStep
<1>7. CASE Unary
  <2>1. 1 \in Nat /\ 1 >= 1
    OBVIOUS
  <2> QED
    BY <1>7, <2>1, OperateStep DEF Unary
<1>8. CASE Binary
  <2>1. 2 \in Nat /\ 2 >= 1
    OBVIOUS
  <2> QED
    BY <1>8, <2>1, OperateStep DEF Binary
<1>9. CASE Call
  BY <1>9, CallStep
<1>10. CASE Return
  BY <1>10, ReturnStep
<1>11. CASE UNCHANGED vars
  BY <1>11 DEF vars, IInv, TypeOK, StackDiscipline, RegistersMatchCode, TopInAcc, ScriptOnce,
               Running, Read, ReadFrom, sp
<1> QED
  BY <1>1, <1>2, <1>3, <1>4, <1>5, <1>6, <1>7, <1>8, <1>9, <1>10, <1>11 DEF Next

\* The inductive invariant holds in every state, if no variable is declared in
\* a block of the top-level code.
THEOREM Inductive == ASSUME ScriptLocals = FALSE PROVE Spec => []IInv
<1>1. Init => IInv
  BY InitStep
<1>2. IInv /\ [Next]_vars => IInv'
  BY NextStep
<1> QED
  BY <1>1, <1>2, PTL DEF Spec

\* Every slot, register and code address keeps the form that the emitted code
\* and the handlers of call.sx and return.sx rely on.
THEOREM TypeCorrect == ASSUME ScriptLocals = FALSE PROVE Spec => []TypeOK
<1>1. IInv => TypeOK
  BY DEF IInv
<1> QED
  BY <1>1, Inductive, PTL

\* Whatever functions call each other, however deep, sp is where the compiler
\* thinks it is and the frames form a chain that call_closure, op_return and
\* walkStack can follow.
THEOREM FramesChained == ASSUME ScriptLocals = FALSE PROVE Spec => []StackDiscipline
<1>1. IInv => StackDiscipline
  BY DEF IInv
<1> QED
  BY <1>1, Inductive, PTL

\* Code never runs with the closure or the constants of another function, and
\* C gets its registers back when the script ends or an error unwinds it.
THEOREM RegistersRestored == ASSUME ScriptLocals = FALSE PROVE Spec => []RegistersMatchCode
<1>1. IInv => RegistersMatchCode
  BY DEF IInv
<1> QED
  BY <1>1, Inductive, PTL

\* Stores to locals, arguments and globals and op_print, which take their
\* operand from x0 and x1, find there the value on top of the stack.
THEOREM OperandInRegisters == ASSUME ScriptLocals = FALSE PROVE Spec => []TopInAcc
<1>1. IInv => TopInAcc
  BY DEF IInv
<1> QED
  BY <1>1, Inductive, PTL
=============================================================================
