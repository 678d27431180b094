----------------------------- MODULE CallsProofs -----------------------------
(***************************************************************************)
(* What the chain of frames is for: the collector's walk over it finds     *)
(* every Value and nothing else, and the native stack implements the       *)
(* activations of LoxCalls.  As in FramesProofs, for all functions and any *)
(* depth of calls, when the top-level code declares no block-scoped        *)
(* variable.                                                               *)
(***************************************************************************)
EXTENDS FramesRoots, FramesRefinement, FramesProofs, Recursion

\* Every frame above the script's, not only the newest, is the frame of a call:
\* the frame above it leads back to it.
LEMMA EveryFrameIsACall ==
    ASSUME NEW s \in Seq(Slots), NEW f \in Nat, NEW g, WellFramed(s, f, g),
           NEW i \in FrameSlots(s), i > ScriptFrame
    PROVE  \E h : CallOf(s, i, h)
<1> DEFINE Called(j) == \E h : CallOf(s, j, h)
           Bad == {n \in Nat : f - n \in FrameSlots(s) /\ f - n > 3 /\ ~Called(f - n)}
<1>1. \A j \in FrameSlots(s) : j \in Nat /\ j <= f
  BY DEF FrameSlots, WellFramed
<1> SUFFICES ASSUME ~Called(i) PROVE FALSE
  OBVIOUS
<1> HIDE DEF Called
<1>2. f - i \in Bad
  BY <1>1 DEF ScriptFrame
<1>3. PICK n \in Bad : \A m \in Bad : n <= m
  <2>1. Bad \in SUBSET Nat /\ Bad # {}
    BY <1>2
  <2> HIDE DEF Bad
  <2> QED
    BY <2>1, LeastNatural
<1> DEFINE j == f - n
<1>4. j \in FrameSlots(s) /\ j > 3 /\ ~Called(j) /\ j \in Nat /\ j <= f /\ n \in Nat
  BY <1>1, <1>3
<1>5. \A k \in FrameSlots(s) : k > j => Called(k)
  <2>1. SUFFICES ASSUME NEW k \in FrameSlots(s), k > j, ~Called(k) PROVE FALSE
    OBVIOUS
  <2>2. f - (f - k) = k /\ f - k \in Nat /\ k > 3 /\ f - k < n
    BY <1>1, <1>4, <2>1
  <2>3. f - k \in Bad
    BY <2>1, <2>2
  <2> QED
    BY <1>3, <1>4, <2>2, <2>3
<1> HIDE DEF Bad, j
<1>6. j # f
  <2>1. FrameOf(s, f, g)
    BY DEF WellFramed
  <2> QED
    BY <1>4, <2>1 DEF FrameOf, ScriptFrame, Called
<1> DEFINE Above == {k \in FrameSlots(s) : k > j}
<1>7. PICK k \in Above : \A l \in Above : k <= l
  <2>1. f \in FrameSlots(s) /\ f > j
    BY <1>4, <1>6 DEF WellFramed
  <2>2. Above \in SUBSET Nat /\ Above # {}
    BY <1>1, <2>1
  <2> HIDE DEF Above
  <2> QED
    BY <2>2, LeastNatural
<1>8. k \in FrameSlots(s) /\ k > j /\ k \in Nat
  BY <1>1, <1>7
<1>9. PICK h : CallOf(s, k, h)
  BY <1>5, <1>8 DEF Called
<1>10. s[k].fp \in FrameSlots(s) /\ s[k].fp < k /\ j <= s[k].fp /\ s[k].fp \in Nat
  <2>1. s[k].fp \in FrameSlots(s) /\ s[k].fp < k /\ j <= s[k].fp
    BY <1>4, <1>8, <1>9 DEF CallOf
  <2> QED
    BY <1>1, <2>1
<1>11. s[k].fp = j
  <2>1. ~(s[k].fp > j)
    BY <1>7, <1>8, <1>10
  <2> QED
    BY <1>4, <1>10, <2>1
<1>12. FrameOf(s, j, s[k].lr.fn)
  BY <1>4, <1>8, <1>11 DEF WellFramed, ScriptFrame
<1> QED
  BY <1>4, <1>12 DEF FrameOf, ScriptFrame, Called

\* What a frame above the script's leads back to.
LEMMA CallerFacts ==
    ASSUME NEW s \in Seq(Slots), NEW f \in Nat, NEW g, WellFramed(s, f, g),
           NEW i \in FrameSlots(s), i > ScriptFrame
    PROVE  /\ i \in Nat /\ i <= f /\ f <= Len(s)
           /\ s[i].lr \in Points /\ s[i].lr.temps >= 1
           /\ s[i].fp \in FrameSlots(s) /\ s[i].fp \in Nat /\ s[i].fp >= ScriptFrame /\ s[i].fp < i
           /\ \A j \in FrameSlots(s) : j < i => j <= s[i].fp
           /\ FrameOf(s, s[i].fp, s[i].lr.fn)
<1>1. PICK h : CallOf(s, i, h)
  BY EveryFrameIsACall
<1>2. i \in Nat /\ i <= f /\ f <= Len(s)
  BY DEF FrameSlots, WellFramed
<1>3. /\ s[i].lr \in Points /\ s[i].lr.temps >= 1 /\ s[i].fp \in FrameSlots(s)
      /\ s[i].fp >= ScriptFrame /\ s[i].fp < i
      /\ \A j \in FrameSlots(s) : j < i => j <= s[i].fp
  BY <1>1 DEF CallOf
<1>4. s[i].fp \in Nat
  BY <1>3 DEF FrameSlots
<1> QED
  BY <1>2, <1>3, <1>4 DEF WellFramed

\* The two frames at the bottom are start_script's and the script's.
LEMMA BottomFrames ==
    ASSUME NEW s \in Seq(Slots), ScriptEntered(s), NEW i \in FrameSlots(s), i <= ScriptFrame
    PROVE  \/ i = 1 /\ s[i].fp = CFrame /\ s[i].lr = MainReturn
           \/ i = 3 /\ s[i].fp = 1 /\ s[i].lr = StartScript
<1>1. i = 1 \/ i = 2 \/ i = 3
  BY DEF FrameSlots, ScriptFrame
<1>2. s[i].kind = "frame"
  BY DEF FrameSlots
<1> QED
  BY <1>1, <1>2 DEF ScriptEntered, Frame, Saved

-----------------------------------------------------------------------------
(* The walk of the collector.                                              *)

\* The slots that walkStack marks for one frame, the first it meets.
MarkedAt(s, i) == IF s[i].lr \in Points THEN (s[i].fp + FUNCTION_STACK_SPILL + 1)..(i - 1) ELSE {}

\* The stack as the walk finds it: the handler's frame is one more, on top.
LEMMA HandlerStack ==
    ASSUME IInv, Running
    PROVE  /\ InHandler \in Seq(Slots) /\ FrameSlots(InHandler) = FrameSlots(stack) \cup {sp + 1}
           /\ \A i \in 1..sp : InHandler[i] = stack[i]
           /\ InHandler[sp + 1].fp = fp /\ InHandler[sp + 1].lr = pc
           /\ sp \in Nat /\ sp = Len(stack) /\ sp >= 5
<1>1. Frame(fp, pc) \in Slots /\ Frame(fp, pc).kind = "frame"
  BY RunningFacts DEF Slots, Frame
<1>2. stack \in Seq(Slots) /\ sp \in Nat /\ sp = Len(stack) /\ sp >= 5
  BY RunningFacts DEF sp
<1>3. /\ InHandler \in Seq(Slots) /\ Len(InHandler) = sp + 1 /\ InHandler[sp + 1] = Frame(fp, pc)
      /\ \A i \in 1..sp : InHandler[i] = stack[i]
  BY <1>1, <1>2, AppendProperties DEF InHandler
<1>4. FrameSlots(InHandler) = FrameSlots(stack) \cup {sp + 1}
  BY <1>1, <1>2, <1>3 DEF FrameSlots
<1>5. InHandler[sp + 1].fp = fp /\ InHandler[sp + 1].lr = pc
  BY <1>3 DEF Frame
<1> QED
  BY <1>2, <1>3, <1>4, <1>5

\* Above start_script every frame leads into the generated code and to the
\* nearest frame below; the two at the bottom are start_script's and the script's.
LEMMA HandlerFrames ==
    ASSUME IInv, Running, NEW i \in FrameSlots(InHandler)
    PROVE  /\ i \in Nat
           /\ \/ i = 1 /\ InHandler[i].lr = MainReturn
              \/ i = 3 /\ InHandler[i].lr = StartScript /\ InHandler[i].fp = 1
              \/ /\ i > 3 /\ InHandler[i].lr \in Points
                 /\ InHandler[i].fp \in FrameSlots(InHandler)
                 /\ InHandler[i].fp \in Nat /\ InHandler[i].fp >= 3 /\ InHandler[i].fp < i
                 /\ \A j \in FrameSlots(stack) : j < i => j <= InHandler[i].fp
<1>1. /\ stack \in Seq(Slots) /\ fp \in Nat /\ WellFramed(stack, fp, pc.fn) /\ pc \in Points
      /\ fp \in FrameSlots(stack) /\ \A j \in FrameSlots(stack) : j <= fp
      /\ sp >= 5 /\ fp >= 3 /\ fp <= sp
  BY RunningFacts DEF FrameSlots, sp
<1>2. CASE i = sp + 1
  <2>1. i \in Nat /\ i > 3 /\ fp < i
    BY <1>1, <1>2, HandlerStack
  <2> QED
    BY <1>1, <1>2, <2>1, HandlerStack
<1>3. CASE i \in FrameSlots(stack)
  <2>1. i \in Nat /\ InHandler[i] = stack[i]
    BY <1>3, HandlerStack DEF FrameSlots
  <2>2. CASE i <= ScriptFrame
    <3>1. ScriptEntered(stack)
      BY <1>1 DEF WellFramed
    <3> QED
      BY <1>1, <1>3, <2>1, <2>2, <3>1, BottomFrames
  <2>3. CASE i > ScriptFrame
    <3>1. /\ stack[i].lr \in Points /\ stack[i].fp \in FrameSlots(stack) /\ stack[i].fp \in Nat
          /\ stack[i].fp >= 3 /\ stack[i].fp < i /\ i > 3
          /\ \A j \in FrameSlots(stack) : j < i => j <= stack[i].fp
      BY <1>1, <1>3, <2>3, CallerFacts DEF ScriptFrame
    <3> QED
      BY <2>1, <3>1, HandlerStack
  <2> QED
    BY <2>1, <2>2, <2>3 DEF ScriptFrame
<1> QED
  BY <1>2, <1>3, HandlerStack

\* A return address in the generated code is none in start_script or interpret().
LEMMA PointsApart == MainReturn \notin Points /\ StartScript \notin Points /\ MainReturn # StartScript
  BY FramesAssumption DEF Points, Callables

\* The walk from a frame marks its slots, and those from the frame it leads to.
LEMMA WalkUnfolds ==
    ASSUME IInv, Running, NEW i \in FrameSlots(InHandler)
    PROVE  WalkStack(InHandler)[i] =
              MarkedAt(InHandler, i) \cup
              IF InHandler[i].lr = MainReturn THEN {} ELSE WalkStack(InHandler)[InHandler[i].fp]
<1> DEFINE s == InHandler
           S == FrameSlots(s)
           A == SUBSET Int
           up == [j \in S |-> IF s[j].lr = MainReturn THEN j ELSE s[j].fp]
           here == [j \in S |-> MarkedAt(s, j)]
           step == [j \in S |-> [x \in A |-> MarkedAt(s, j) \cup x]]
<1> HIDE DEF s
<1>1. S \in SUBSET Nat
  BY HandlerFrames DEF s
<1>2. 1 \in S
  <2>1. stack \in Seq(Slots) /\ ScriptEntered(stack)
    BY RunningFacts DEF WellFramed
  <2>2. 1 \in DOMAIN stack /\ stack[1].kind = "frame"
    BY <2>1 DEF ScriptEntered, ScriptFrame, Frame
  <2>3. 1 \in FrameSlots(stack)
    BY <2>2 DEF FrameSlots
  <2> QED
    BY <2>3, HandlerStack DEF s
<1>3. \A j \in S : /\ j \in Nat
                   /\ s[j].lr = MainReturn \/ (s[j].fp \in S /\ s[j].fp < j)
  BY <1>2, HandlerFrames DEF s
<1>4. up \in [S -> S]
  BY <1>3
<1>5. \A j \in S : (up[j] < j) <=> s[j].lr # MainReturn
  BY <1>3
<1>6. \A j \in S : MarkedAt(s, j) \in A
  <2>1. SUFFICES ASSUME NEW j \in S, s[j].lr \in Points PROVE MarkedAt(s, j) \in A
    BY DEF MarkedAt
  <2>2. s[j].lr # MainReturn
    BY <2>1, PointsApart
  <2>3. s[j].fp + FUNCTION_STACK_SPILL + 1 \in Int /\ j - 1 \in Int
    BY <1>1, <1>3, <2>2 DEF FUNCTION_STACK_SPILL
  <2> QED
    BY <2>1, <2>3 DEF MarkedAt
<1>7. here \in [S -> A] /\ step \in [S -> [A -> A]]
  BY <1>6
<1>8. \E walk \in [S -> A] : FollowsChain(walk, S, up, here, step)
  <2> HIDE DEF S, up, A, here, step
  <2> QED
    BY <1>1, <1>4, <1>7, ChainRecursion
<1>9. PICK walk \in [S -> A] :
         walk = [j \in S |-> IF up[j] < j THEN step[j][walk[up[j]]] ELSE here[j]]
  BY <1>8 DEF FollowsChain
<1>10. \A j \in S : /\ up[j] < j => step[j][walk[up[j]]] = MarkedAt(s, j) \cup walk[s[j].fp]
                    /\ ~(up[j] < j) => here[j] = MarkedAt(s, j) \cup {}
  BY <1>3, <1>4, <1>5
<1> HIDE DEF up, here, step, A
<1>11. walk = [j \in S |-> MarkedAt(s, j) \cup IF s[j].lr = MainReturn THEN {} ELSE walk[s[j].fp]]
  BY <1>5, <1>9, <1>10
<1>12. WalkStack(s) = [j \in S |-> MarkedAt(s, j) \cup
                          IF s[j].lr = MainReturn THEN {} ELSE WalkStack(s)[s[j].fp]]
  BY <1>11 DEF WalkStack, MarkedAt
<1> QED
  BY <1>12 DEF s

\* Of the slots between the frame that frame i leads to and i itself all but the
\* spill hold Values.
LEMMA ValuesBetween ==
    ASSUME IInv, Running, NEW i \in FrameSlots(InHandler), i > 3, NEW k \in Nat,
           k > InHandler[i].fp, k < i
    PROVE  /\ k \in 1..sp
           /\ k = InHandler[i].fp + 1 => stack[k].kind = "spill"
           /\ k # InHandler[i].fp + 1 => stack[k].kind = "value"
<1> DEFINE p == InHandler[i].fp
<1>1. /\ i \in Nat /\ i <= sp + 1 /\ p \in Nat /\ p >= 3 /\ p \in FrameSlots(stack)
      /\ \A j \in FrameSlots(stack) : j < i => j <= p
  <2>1. i \in Nat /\ i <= sp + 1
    BY HandlerFrames, HandlerStack DEF FrameSlots
  <2>2. /\ p \in FrameSlots(InHandler) /\ p \in Nat /\ p >= 3 /\ p < i
        /\ \A j \in FrameSlots(stack) : j < i => j <= p
    BY HandlerFrames
  <2>3. p # sp + 1
    BY <2>1, <2>2, HandlerStack
  <2> QED
    BY <2>1, <2>2, <2>3, HandlerStack
<1> HIDE DEF p
<1>2. k \in 4..Len(stack) /\ k \in 1..sp /\ k - 1 \in 1..sp /\ k \in DOMAIN stack /\ k - 1 \in DOMAIN stack
  BY <1>1, HandlerStack DEF p
<1>3. stack[k].kind # "frame"
  BY <1>1, <1>2 DEF p, FrameSlots
<1>4. stack[k - 1].kind = "frame" <=> k - 1 = p
  BY <1>1, <1>2 DEF p, FrameSlots
<1>5. /\ stack[k].kind = "spill" <=> stack[k - 1].kind = "frame"
      /\ stack[k].kind \in {"value", "frame", "spill"}
  BY <1>2, RunningFacts DEF WellFramed
<1>6. k = p + 1 <=> k - 1 = p
  BY <1>1
<1> QED
  BY <1>2, <1>3, <1>4, <1>5, <1>6 DEF p

ValuesBelow(i) == {k \in 1..(i - 1) : stack[k].kind = "value"}

\* From any frame the walk marks the Values below it: from start_script's and the
\* script's none, from a higher one its own and those below the frame it leads to.
LEMMA WalkFromFrame ==
    ASSUME IInv, Running, NEW i \in FrameSlots(InHandler)
    PROVE  WalkStack(InHandler)[i] = ValuesBelow(i)
<1> DEFINE Wrong == {j \in FrameSlots(InHandler) : WalkStack(InHandler)[j] # ValuesBelow(j)}
<1> SUFFICES ASSUME Wrong # {} PROVE FALSE
  OBVIOUS
<1>1. PICK j \in Wrong : \A k \in Wrong : j <= k
  <2>1. Wrong \in SUBSET Nat
    BY HandlerFrames
  <2> HIDE DEF Wrong
  <2> QED
    BY <2>1, LeastNatural
<1> DEFINE p == InHandler[j].fp
<1>2. j \in FrameSlots(InHandler) /\ j \in Nat
  BY <1>1, HandlerFrames
<1>3. WalkStack(InHandler)[j] =
         MarkedAt(InHandler, j) \cup
         IF InHandler[j].lr = MainReturn THEN {} ELSE WalkStack(InHandler)[p]
  BY <1>2, WalkUnfolds
<1>4. stack[1].kind = "frame" /\ stack[2].kind = "saved"
  BY RunningFacts DEF WellFramed, ScriptEntered, Frame, Saved
<1>5. ValuesBelow(1) = {} /\ ValuesBelow(3) = {}
  BY <1>4 DEF ValuesBelow
<1>6. CASE j = 1
  <2>1. InHandler[j].lr = MainReturn
    BY <1>2, <1>6, HandlerFrames
  <2>2. MarkedAt(InHandler, j) = {}
    BY <2>1, PointsApart DEF MarkedAt
  <2> QED
    BY <1>1, <1>3, <1>5, <1>6, <2>1, <2>2
<1>7. CASE j = 3
  <2>1. InHandler[j].lr = StartScript /\ p = 1
    BY <1>2, <1>7, HandlerFrames
  <2>2. MarkedAt(InHandler, j) = {}
    BY <2>1, PointsApart DEF MarkedAt
  <2>3. 1 \in FrameSlots(InHandler) /\ 1 \notin Wrong
    <3>1. 1 \in FrameSlots(stack)
      BY <1>4, HandlerStack DEF FrameSlots
    <3> QED
      BY <1>1, <1>7, <3>1, HandlerStack
  <2> QED
    BY <1>1, <1>3, <1>5, <1>7, <2>1, <2>2, <2>3, PointsApart
<1>8. CASE j > 3
  <2>1. /\ InHandler[j].lr \in Points /\ p \in FrameSlots(InHandler)
        /\ p \in Nat /\ p >= 3 /\ p < j
    BY <1>2, <1>8, HandlerFrames
  <2>2. WalkStack(InHandler)[p] = ValuesBelow(p)
    BY <1>1, <1>2, <2>1
  <2>3. WalkStack(InHandler)[j] = (p + 2)..(j - 1) \cup ValuesBelow(p)
    BY <1>3, <2>1, <2>2, PointsApart DEF MarkedAt, FUNCTION_STACK_SPILL
  <2>4. stack[p].kind = "frame"
    <3>1. p # sp + 1
      <4>1. j <= sp + 1
        BY <1>2, HandlerStack DEF FrameSlots
      <4> QED
        BY <1>2, <2>1, <4>1, HandlerStack
    <3> QED
      BY <2>1, <3>1, HandlerStack DEF FrameSlots
  <2>5. ASSUME NEW k \in Nat, k > p, k < j
        PROVE  stack[k].kind = "value" <=> k # p + 1
    BY <1>2, <1>8, <2>5, ValuesBetween
  <2> HIDE DEF p
  <2>6. ASSUME NEW k \in 1..(j - 1) PROVE k \in ValuesBelow(j) <=> k \in (p + 2)..(j - 1) \cup ValuesBelow(p)
    <3>1. CASE k < p
      BY <1>2, <2>1, <3>1 DEF ValuesBelow
    <3>2. CASE k = p
      BY <1>2, <2>1, <2>4, <3>2 DEF ValuesBelow
    <3>3. CASE k > p
      BY <1>2, <2>1, <2>5, <3>3 DEF ValuesBelow
    <3> QED
      BY <2>1, <3>1, <3>2, <3>3
  <2>7. ValuesBelow(j) \subseteq 1..(j - 1) /\ (p + 2)..(j - 1) \cup ValuesBelow(p) \subseteq 1..(j - 1)
    BY <1>2, <2>1 DEF ValuesBelow
  <2>8. ValuesBelow(j) = (p + 2)..(j - 1) \cup ValuesBelow(p)
    BY <2>6, <2>7
  <2> QED
    BY <1>1, <2>3, <2>8
<1> QED
  BY <1>2, <1>6, <1>7, <1>8, HandlerFrames

\* The values that the collector marks on the stack are all there are, and
\* nothing else is taken for one.
LEMMA MarkedIsAllValues == ASSUME IInv, Running PROVE Marked = {i \in DOMAIN stack : stack[i].kind = "value"}
<1>1. sp + 1 \in FrameSlots(InHandler)
  BY HandlerStack
<1>2. Marked = ValuesBelow(sp + 1)
  BY <1>1, WalkFromFrame DEF Marked
<1>3. DOMAIN stack = 1..((sp + 1) - 1)
  BY HandlerStack, RunningFacts
<1> QED
  BY <1>2, <1>3 DEF ValuesBelow

\* A frame of a function in the middle of a call has its closure on the stack:
\* the callee below its arguments, or the script's in its fixed slot.
LEMMA ClosureOnStack ==
    ASSUME IInv, Running, NEW i, NEW g, FrameOf(stack, i, g)
    PROVE  \E k \in DOMAIN stack : stack[k] = Value(g)
<1>1. CASE g = Script
  <2>1. stack[5] = Value(Script) /\ 5 \in DOMAIN stack
    BY RunningFacts, HandlerStack DEF WellFramed, ScriptEntered
  <2> QED
    BY <1>1, <2>1
<1>2. CASE CallOf(stack, i, g)
  <2> DEFINE lr == stack[i].lr
             caller == stack[i].fp
             c == i - Arity[g] - 1
  <2>1. /\ stack[c] = Value(g) /\ c = caller + SpillCount(lr.fn) + lr.locals + lr.temps
        /\ lr \in Points /\ g \in Functions /\ caller \in FrameSlots(stack) /\ i \in FrameSlots(stack)
    BY <1>2 DEF CallOf
  <2>2. /\ SpillCount(lr.fn) \in Nat /\ lr.locals \in Nat /\ lr.temps \in Nat /\ Arity[g] \in Nat
        /\ caller \in 1..Len(stack) /\ i \in 1..Len(stack) /\ Len(stack) \in Nat
    <3>1. /\ SpillCount(lr.fn) \in Nat /\ lr.locals \in Nat /\ lr.temps \in Nat
          /\ Arity[g] \in Nat
      BY <2>1, BoundTypes, ArityType DEF Points, SpillCount, FUNCTION_STACK_SPILL, Callables
    <3>2. FrameSlots(stack) \subseteq 1..Len(stack) /\ Len(stack) \in Nat
      BY RunningFacts DEF FrameSlots
    <3> QED
      BY <2>1, <3>1, <3>2
  <2>3. c <= Len(stack) /\ c \in Int
    BY <2>2
  <2> HIDE DEF lr, caller
  <2>4. c >= 1
    <3> HIDE DEF c
    <3> QED
      BY <2>1, <2>2
  <2> QED
    BY <2>1, <2>2, <2>3, <2>4
<1> QED
  BY <1>1, <1>2 DEF FrameOf

\* So no closure is freed while its code runs or waits for a call to return.
LEMMA ClosuresMarked == ASSUME IInv PROVE RunningClosuresRooted
<1> SUFFICES ASSUME Running, NEW g,
                    g = pc.fn \/ \E j \in FrameSlots(stack) : j > ScriptFrame /\ g = stack[j].lr.fn
             PROVE  g \in {Read(i) : i \in Marked}
  BY DEF RunningClosuresRooted
<1>1. \E i : FrameOf(stack, i, g)
  <2>1. FrameOf(stack, fp, pc.fn)
    BY RunningFacts
  <2>2. \A j \in FrameSlots(stack) : j > ScriptFrame => FrameOf(stack, stack[j].fp, stack[j].lr.fn)
    BY RunningFacts DEF WellFramed
  <2> QED
    BY <2>1, <2>2
<1>2. PICK k \in DOMAIN stack : stack[k] = Value(g)
  BY <1>1, ClosureOnStack
<1>3. k \in Marked /\ Read(k) = g
  BY <1>2, MarkedIsAllValues DEF Read, ReadFrom, Value
<1> QED
  BY <1>3

\* Wherever generated code has called a handler that may allocate, the walk marks
\* every Value of every activation and no saved register (walkStack, memory.c:196).
THEOREM WalkExact == ASSUME ScriptLocals = FALSE PROVE Spec => []WalkMarksExactlyTheValues
<1>1. IInv => WalkMarksExactlyTheValues
  BY MarkedIsAllValues DEF WalkMarksExactlyTheValues
<1> QED
  BY <1>1, Inductive, PTL

\* A collection frees neither the running function nor one that waits for a call
\* to return, whatever the program has assigned to its variables.
THEOREM RunningCodeRooted == ASSUME ScriptLocals = FALSE PROVE Spec => []RunningClosuresRooted
<1>1. IInv => RunningClosuresRooted
  BY ClosuresMarked
<1> QED
  BY <1>1, Inductive, PTL

-----------------------------------------------------------------------------
(* Runs of slots as sequences of values, the way the refinement mapping    *)
(* reads arguments, locals and temporaries off the stack.                  *)

Words == Values \cup {Script, Junk}

\* Slots first..last of s exist, or there are none of them.
Run(s, first, last) ==
    /\ s \in Seq(Slots) /\ first \in Int /\ last \in Int
    /\ first >= 1 /\ last <= Len(s) /\ first <= last + 1

\* A slot is read as a value, or as junk.
LEMMA ReadType ==
    ASSUME NEW s \in Seq(Slots), NEW i \in 1..Len(s) PROVE ReadFrom(s, i) \in Words
<1>1. s[i] \in Slots
  OBVIOUS
<1>2. s[i].kind = "value" => s[i].v \in Values \cup {Script}
  BY <1>1 DEF Slots
<1> QED
  BY <1>2 DEF ReadFrom, Words

\* The values of a run, one by one.
LEMMA RunValues ==
    ASSUME NEW s, NEW first, NEW last, Run(s, first, last)
    PROVE  /\ ValuesAt(s, first, last) \in Seq(Words)
           /\ Len(ValuesAt(s, first, last)) = last - first + 1
           /\ DOMAIN ValuesAt(s, first, last) = 1..(last - first + 1)
           /\ \A k \in 1..(last - first + 1) :
                 ValuesAt(s, first, last)[k] = ReadFrom(s, first + k - 1)
<1> DEFINE n == last - first + 1
<1>1. n \in Nat /\ Len(s) \in Nat
  BY DEF Run
<1>2. \A k \in 1..n : first + k - 1 \in 1..Len(s)
  BY DEF Run
<1>3. \A k \in 1..n : ReadFrom(s, first + k - 1) \in Words
  BY <1>2, ReadType DEF Run
<1>4. ValuesAt(s, first, last) = [k \in 1..n |-> ReadFrom(s, first + k - 1)]
  BY DEF ValuesAt
<1> HIDE DEF n
<1>5. ValuesAt(s, first, last) \in [1..n -> Words]
  BY <1>3, <1>4
<1>6. ValuesAt(s, first, last) \in Seq(Words) /\ Len(ValuesAt(s, first, last)) = n
  BY <1>1, <1>5
<1> QED
  BY <1>4, <1>6 DEF n

\* A sequence that agrees with a run is its values.
Agrees(q, s, first, last) ==
    /\ q \in Seq(Words) /\ Len(q) = last - first + 1
    /\ \A k \in 1..(last - first + 1) : q[k] = ReadFrom(s, first + k - 1)

LEMMA RunEqual ==
    ASSUME NEW s, NEW first, NEW last, Run(s, first, last), NEW q, Agrees(q, s, first, last)
    PROVE  ValuesAt(s, first, last) = q
<1>1. /\ ValuesAt(s, first, last) \in Seq(Words) /\ Len(ValuesAt(s, first, last)) = Len(q)
      /\ \A k \in 1..Len(ValuesAt(s, first, last)) : ValuesAt(s, first, last)[k] = q[k]
      /\ q \in Seq(Words)
  BY RunValues DEF Agrees
<1> QED
  BY <1>1, SeqEqual

\* The same slots have the same values.
LEMMA RunKept ==
    ASSUME NEW s, NEW t \in Seq(Slots), NEW first, NEW last, Run(s, first, last), last <= Len(t),
           \A i \in first..last : t[i] = s[i]
    PROVE  ValuesAt(t, first, last) = ValuesAt(s, first, last)
<1>1. Run(t, first, last)
  BY DEF Run
<1>2. \A k \in 1..(last - first + 1) : first + k - 1 \in first..last
  BY DEF Run
<1>3. \A k \in 1..(last - first + 1) : ValuesAt(s, first, last)[k] = ReadFrom(t, first + k - 1)
  BY <1>2, RunValues DEF ReadFrom
<1>4. Agrees(ValuesAt(s, first, last), t, first, last)
  BY <1>3, RunValues DEF Agrees
<1> QED
  BY <1>1, <1>4, RunEqual

\* One more value after a run.
LEMMA RunAppend ==
    ASSUME NEW s, NEW t \in Seq(Slots), NEW first, NEW last, Run(s, first, last), last + 1 <= Len(t),
           \A i \in first..last : t[i] = s[i], NEW v \in Values, t[last + 1] = Value(v)
    PROVE  ValuesAt(t, first, last + 1) = Append(ValuesAt(s, first, last), v)
<1> DEFINE q == ValuesAt(s, first, last)
           n == last - first + 1
<1>1. /\ q \in Seq(Words) /\ Len(q) = n /\ n \in Nat
      /\ \A k \in 1..n : q[k] = ReadFrom(s, first + k - 1)
  <2>1. n \in Nat
    BY DEF Run
  <2> QED
    BY <2>1, RunValues, Zenon
<1>2. Run(t, first, last + 1) /\ (last + 1) - first + 1 = n + 1
  BY DEF Run
<1>3. \A k \in 1..n : first + k - 1 \in first..last
  BY DEF Run
<1>4. \A k \in 1..n : q[k] = ReadFrom(t, first + k - 1)
  BY <1>1, <1>3 DEF ReadFrom
<1>5. first + (n + 1) - 1 = last + 1 /\ ReadFrom(t, last + 1) = v /\ v \in Words
  BY DEF Run, ReadFrom, Value, Words
<1> HIDE DEF q, n
<1>6. Append(q, v) \in Seq(Words) /\ Len(Append(q, v)) = n + 1
  BY <1>1, <1>5
<1>7. \A k \in 1..(n + 1) : Append(q, v)[k] = ReadFrom(t, first + k - 1)
  <2>1. \A k \in 1..n : Append(q, v)[k] = q[k]
    BY <1>1, <1>5
  <2>2. Append(q, v)[n + 1] = v
    BY <1>1, <1>5
  <2>3. \A k \in 1..(n + 1) : k \in 1..n \/ k = n + 1
    BY <1>1
  <2> QED
    BY <1>4, <1>5, <2>1, <2>2, <2>3
<1>8. Agrees(Append(q, v), t, first, last + 1)
  BY <1>2, <1>6, <1>7 DEF Agrees
<1>9. ValuesAt(t, first, last + 1) = Append(q, v)
  BY <1>2, <1>8, RunEqual
<1> QED
  BY <1>9 DEF q

\* Slots l..m of t are places a..b of the run first..last of s.
PartOf(s, t, first, last, l, m, a, b) ==
    /\ t \in Seq(Slots) /\ Run(s, first, last)
    /\ l \in Int /\ m \in Int /\ first <= l /\ l <= m + 1 /\ m <= last /\ m <= Len(t)
    /\ a \in Int /\ a = l - first + 1 /\ b \in Int /\ b = m - first + 1
    /\ \A i \in l..m : t[i] = s[i]

LEMMA RunPart ==
    ASSUME NEW s, NEW t, NEW first, NEW last, NEW l, NEW m, NEW a, NEW b,
           PartOf(s, t, first, last, l, m, a, b)
    PROVE  ValuesAt(t, l, m) = SubSeq(ValuesAt(s, first, last), a, b)
<1> USE DEF PartOf
<1> DEFINE q == ValuesAt(s, first, last)
           n == last - first + 1
<1>1. /\ q \in Seq(Words) /\ Len(q) = n /\ n \in Nat
      /\ \A k \in 1..n : q[k] = ReadFrom(s, first + k - 1)
  <2>1. n \in Nat
    BY DEF Run
  <2> QED
    BY <2>1, RunValues, Zenon
<1>2. Run(t, l, m) /\ m - l + 1 = b - a + 1 /\ a \in Int /\ b \in Int /\ a >= 1 /\ b <= n /\ a <= b + 1
  BY DEF Run
<1>3. \A k \in 1..(m - l + 1) : l + k - 1 \in l..m /\ a + k - 1 \in 1..n /\ first + (a + k - 1) - 1 = l + k - 1
  BY DEF Run
<1> HIDE DEF q, n
<1>4. \A i \in a..b : q[i] \in Words
  BY <1>1, <1>2
<1>5. /\ SubSeq(q, a, b) \in Seq(Words) /\ Len(SubSeq(q, a, b)) = m - l + 1
      /\ \A k \in 1..(m - l + 1) : SubSeq(q, a, b)[k] = q[a + k - 1]
  <2>1. /\ SubSeq(q, a, b) \in Seq(Words)
        /\ Len(SubSeq(q, a, b)) = IF a <= b THEN b - a + 1 ELSE 0
        /\ \A k \in 1..(b - a + 1) : SubSeq(q, a, b)[k] = q[a + k - 1]
    BY <1>2, <1>4, SubSeqProperties, SMTT(30)
  <2>2. (IF a <= b THEN b - a + 1 ELSE 0) = b - a + 1
    BY <1>2
  <2> QED
    BY <1>2, <2>1, <2>2
<1>6. \A k \in 1..(m - l + 1) : SubSeq(q, a, b)[k] = ReadFrom(t, l + k - 1)
  <2>1. SUFFICES ASSUME NEW k \in 1..(m - l + 1)
                 PROVE  SubSeq(q, a, b)[k] = ReadFrom(t, l + k - 1)
    OBVIOUS
  <2>2. SubSeq(q, a, b)[k] = q[a + k - 1]
    BY <1>5
  <2>3. q[a + k - 1] = ReadFrom(s, l + k - 1)
    BY <1>1, <1>3
  <2>4. t[l + k - 1] = s[l + k - 1]
    BY <1>3
  <2> QED
    BY <2>2, <2>3, <2>4 DEF ReadFrom
<1>7. ValuesAt(t, l, m) = SubSeq(q, a, b)
  <2>1. Agrees(SubSeq(q, a, b), t, l, m)
    BY <1>5, <1>6 DEF Agrees
  <2> QED
    BY <1>2, <2>1, RunEqual
<1> QED
  BY <1>7 DEF q

\* A store to one slot of a run.
Put(q, i, v) == [q EXCEPT ![i] = v]

\* t has v in slot x of the run, and is s in the others.
Stored(s, t, first, last, x, v) ==
    /\ t \in Seq(Slots) /\ Run(s, first, last) /\ last <= Len(t)
    /\ x \in first..last /\ v \in Values /\ t[x] = Value(v)
    /\ \A i \in first..last : i = x \/ t[i] = s[i]

LEMMA RunStore ==
    ASSUME NEW s, NEW t, NEW first, NEW last, NEW x, NEW v, Stored(s, t, first, last, x, v)
    PROVE  ValuesAt(t, first, last) = Put(ValuesAt(s, first, last), x - first + 1, v)
<1> USE DEF Stored
<1> DEFINE q == ValuesAt(s, first, last)
           n == last - first + 1
           r == [q EXCEPT ![x - first + 1] = v]
<1>1. /\ q \in Seq(Words) /\ Len(q) = n /\ n \in Nat
      /\ \A k \in 1..n : q[k] = ReadFrom(s, first + k - 1)
  <2>1. n \in Nat
    BY DEF Run
  <2> QED
    BY <2>1, RunValues, Zenon
<1>2. Run(t, first, last) /\ x - first + 1 \in 1..n /\ v \in Words
  BY DEF Run, Words
<1>3. /\ r \in Seq(Words) /\ Len(r) = n
      /\ \A k \in 1..n : r[k] = IF k = x - first + 1 THEN v ELSE q[k]
  BY <1>1, <1>2
<1>4. \A k \in 1..n : first + k - 1 \in first..last /\ (k = x - first + 1 <=> first + k - 1 = x)
  BY DEF Run
<1>5. ReadFrom(t, x) = v
  BY DEF ReadFrom, Value
<1>6. \A k \in 1..n : r[k] = ReadFrom(t, first + k - 1)
  <2> HIDE DEF q, n, r
  <2>1. SUFFICES ASSUME NEW k \in 1..n PROVE r[k] = ReadFrom(t, first + k - 1)
    OBVIOUS
  <2>2. CASE k = x - first + 1
    BY <1>3, <1>4, <1>5, <2>2
  <2>3. CASE k # x - first + 1
    <3>1. first + k - 1 \in first..last /\ first + k - 1 # x
      BY <1>4, <2>3
    <3>2. t[first + k - 1] = s[first + k - 1]
      BY <3>1
    <3> QED
      BY <1>1, <1>3, <2>3, <3>2 DEF ReadFrom
  <2> QED
    BY <2>2, <2>3
<1> HIDE DEF q, r
<1>7. ValuesAt(t, first, last) = r
  <2>1. Agrees(r, t, first, last)
    BY <1>3, <1>6 DEF Agrees, n
  <2> QED
    BY <1>2, <2>1, RunEqual
<1> QED
  BY <1>7 DEF q, r, Put

-----------------------------------------------------------------------------
(* The activations on the stack.                                           *)

ActivationSet ==
    [fn : Callables, args : Seq(Words), locals : Seq(Words), temps : Seq(Words)]

\* Code address pt with t temporaries fits frame i of stack s.
Fits(s, i, pt, t) ==
    /\ s \in Seq(Slots) /\ i \in FrameSlots(s) /\ pt \in Points /\ t \in Nat
    /\ FrameOf(s, i, pt.fn)
    /\ i + SpillCount(pt.fn) + pt.locals + t <= Len(s)

\* The numbers that place the variables of an activation.
LEMMA FitsFacts ==
    ASSUME NEW s, NEW i, NEW pt, NEW t, Fits(s, i, pt, t)
    PROVE  /\ s \in Seq(Slots) /\ i \in Nat /\ i >= 3 /\ Len(s) \in Nat
           /\ pt.fn \in Callables /\ Arity[pt.fn] \in Nat /\ i - Arity[pt.fn] >= 1
           /\ pt.locals \in Nat /\ t \in Nat
           /\ SpillCount(pt.fn) \in Nat /\ SpillCount(pt.fn) >= 1
           /\ i + SpillCount(pt.fn) + pt.locals + t <= Len(s)
<1>1. /\ s \in Seq(Slots) /\ i \in Nat /\ Len(s) \in Nat /\ i \in FrameSlots(s)
      /\ pt.fn \in Callables /\ Arity[pt.fn] \in Nat /\ pt.locals \in Nat /\ t \in Nat
  <2>1. /\ s \in Seq(Slots) /\ pt \in Points /\ t \in Nat /\ i \in FrameSlots(s)
    BY DEF Fits
  <2> QED
    BY <2>1, ArityType, BoundTypes DEF FrameSlots, Points
<1>2. SpillCount(pt.fn) \in Nat /\ SpillCount(pt.fn) >= 1
  BY DEF SpillCount, FUNCTION_STACK_SPILL
<1>3. i >= 3 /\ i - Arity[pt.fn] >= 1
  <2>1. CASE pt.fn = Script /\ i = ScriptFrame
    BY <1>1, <2>1, FramesAssumption DEF ScriptFrame
  <2>2. CASE CallOf(s, i, pt.fn)
    <3> DEFINE lr == s[i].lr
               caller == s[i].fp
               c == i - Arity[pt.fn] - 1
    <3>1. /\ c = caller + SpillCount(lr.fn) + lr.locals + lr.temps
          /\ lr \in Points /\ caller \in FrameSlots(s) /\ i > 3
      BY <2>2 DEF CallOf, ScriptFrame
    <3>2. SpillCount(lr.fn) \in Nat /\ lr.locals \in Nat /\ lr.temps \in Nat
      BY <3>1, BoundTypes DEF Points, SpillCount, FUNCTION_STACK_SPILL
    <3>3. caller \in Nat
      BY <3>1, <1>1 DEF FrameSlots
    <3>4. c >= 0
      <4> HIDE DEF c, caller, lr
      <4> QED
        BY <3>1, <3>2, <3>3
    <3> QED
      BY <1>1, <3>1, <3>4
  <2> QED
    BY <2>1, <2>2 DEF Fits, FrameOf
<1> QED
  BY <1>1, <1>2, <1>3 DEF Fits

\* Its arguments, its locals and its temporaries are runs of slots.
LEMMA FitsRuns ==
    ASSUME NEW s, NEW i, NEW pt, NEW t, Fits(s, i, pt, t)
    PROVE  LET base == i + SpillCount(pt.fn)
           IN  /\ Run(s, i - Arity[pt.fn], i - 1)
               /\ Run(s, base + 1, base + pt.locals)
               /\ Run(s, base + pt.locals + 1, base + pt.locals + t)
<1> DEFINE spill == SpillCount(pt.fn)
           arity == Arity[pt.fn]
           locals == pt.locals
<1>1. /\ s \in Seq(Slots) /\ i \in Nat /\ Len(s) \in Nat /\ arity \in Nat /\ i - arity >= 1
      /\ locals \in Nat /\ t \in Nat /\ spill \in Nat /\ i + spill + locals + t <= Len(s)
  BY FitsFacts
<1> HIDE DEF spill, arity, locals
<1>2. Run(s, i - arity, i - 1)
  BY <1>1 DEF Run
<1>3. Run(s, i + spill + 1, i + spill + locals)
  BY <1>1 DEF Run
<1>4. Run(s, i + spill + locals + 1, i + spill + locals + t)
  BY <1>1 DEF Run
<1> QED
  BY <1>2, <1>3, <1>4 DEF spill, arity, locals

LEMMA ActivationType ==
    ASSUME NEW s, NEW i, NEW pt, NEW t, Fits(s, i, pt, t)
    PROVE  ActivationAt(s, i, pt, t) \in ActivationSet
<1> DEFINE base == i + SpillCount(pt.fn)
<1>1. /\ ValuesAt(s, i - Arity[pt.fn], i - 1) \in Seq(Words)
      /\ ValuesAt(s, base + 1, base + pt.locals) \in Seq(Words)
      /\ ValuesAt(s, base + pt.locals + 1, base + pt.locals + t) \in Seq(Words)
  BY FitsRuns, RunValues
<1>2. pt.fn \in Callables
  BY FitsFacts
<1> QED
  BY <1>1, <1>2 DEF ActivationAt, ActivationSet

\* The same slots, up to the last temporary, have the same activation.
LEMMA ActivationKept ==
    ASSUME NEW s, NEW i, NEW pt, NEW t, Fits(s, i, pt, t),
           NEW u \in Seq(Slots), i + SpillCount(pt.fn) + pt.locals + t <= Len(u),
           \A k \in 1..(i + SpillCount(pt.fn) + pt.locals + t) : u[k] = s[k]
    PROVE  ActivationAt(u, i, pt, t) = ActivationAt(s, i, pt, t)
<1> DEFINE base == i + SpillCount(pt.fn)
           a == Arity[pt.fn]
           l == pt.locals
<1>1. /\ Run(s, i - a, i - 1) /\ Run(s, base + 1, base + l) /\ Run(s, base + l + 1, base + l + t)
  BY FitsRuns
<1>2. /\ i \in Nat /\ i - a >= 1 /\ a \in Nat /\ base \in Nat /\ base > i /\ l \in Nat /\ t \in Nat
      /\ base + l + t <= Len(u) /\ Len(u) \in Nat /\ \A k \in 1..(base + l + t) : u[k] = s[k]
  BY FitsFacts
<1> HIDE DEF base, a, l
<1>3. i - 1 <= Len(u) /\ base + l <= Len(u)
  BY <1>2
<1>4. \A k \in (i - a)..(i - 1) : u[k] = s[k]
  BY <1>2
<1>5. \A k \in (base + 1)..(base + l) : u[k] = s[k]
  BY <1>2
<1>6. \A k \in (base + l + 1)..(base + l + t) : u[k] = s[k]
  BY <1>2
<1>7. ValuesAt(u, i - a, i - 1) = ValuesAt(s, i - a, i - 1)
  BY <1>1, <1>3, <1>4, RunKept
<1>8. ValuesAt(u, base + 1, base + l) = ValuesAt(s, base + 1, base + l)
  BY <1>1, <1>3, <1>5, RunKept
<1>9. ValuesAt(u, base + l + 1, base + l + t) = ValuesAt(s, base + l + 1, base + l + t)
  BY <1>1, <1>2, <1>6, RunKept
<1> QED
  BY <1>7, <1>8, <1>9 DEF ActivationAt, base, a, l

\* The activation that the call of frame i has left waiting.
CallerAt(s, i) == ActivationAt(s, s[i].fp, s[i].lr, s[i].lr.temps - 1)

\* A caller's variables and temporaries end below the callee.
LEMMA CallerFits ==
    ASSUME NEW s \in Seq(Slots), NEW i \in Nat, NEW g, CallOf(s, i, g),
           FrameOf(s, s[i].fp, s[i].lr.fn)
    PROVE  /\ Fits(s, s[i].fp, s[i].lr, s[i].lr.temps - 1)
           /\ s[i].fp + SpillCount(s[i].lr.fn) + s[i].lr.locals + (s[i].lr.temps - 1)
                 = i - Arity[g] - 2
           /\ i - Arity[g] - 2 < i /\ i <= Len(s) /\ s[i].fp < i - Arity[g] - 1
<1> DEFINE lr == s[i].lr
           caller == s[i].fp
           c == i - Arity[g] - 1
<1>1. /\ c = caller + SpillCount(lr.fn) + lr.locals + lr.temps
      /\ lr \in Points /\ lr.temps >= 1 /\ caller \in FrameSlots(s)
      /\ i \in FrameSlots(s) /\ g \in Functions
  BY DEF CallOf
<1>2. SpillCount(lr.fn) \in Nat /\ SpillCount(lr.fn) >= 1 /\ lr.locals \in Nat /\ lr.temps \in Nat
  BY <1>1, BoundTypes DEF Points, SpillCount, FUNCTION_STACK_SPILL
<1>3. caller \in Nat /\ i <= Len(s) /\ Len(s) \in Nat
  BY <1>1 DEF FrameSlots
<1>4. Arity[g] \in Nat /\ c = i - Arity[g] - 1 /\ FrameOf(s, caller, lr.fn)
  BY <1>1, ArityType DEF Callables
<1> HIDE DEF c, caller, lr
<1>5. lr.temps - 1 \in Nat
  BY <1>1, <1>2
<1>6. caller + SpillCount(lr.fn) + lr.locals + (lr.temps - 1) = i - Arity[g] - 2 /\ i - Arity[g] - 2 < i
  <2> DEFINE spill == SpillCount(lr.fn)
             locals == lr.locals
             temps == lr.temps
             arity == Arity[g]
  <2>1. /\ spill \in Nat /\ locals \in Nat /\ temps \in Nat /\ arity \in Nat /\ caller \in Nat /\ i \in Nat
        /\ i - arity - 1 = caller + spill + locals + temps
    BY <1>1, <1>2, <1>3, <1>4
  <2> HIDE DEF spill, locals, temps, arity
  <2>2. caller + spill + locals + (temps - 1) = i - arity - 2 /\ i - arity - 2 < i
    BY <2>1
  <2> QED
    BY <2>2 DEF spill, locals, temps, arity
<1>7. caller + SpillCount(lr.fn) + lr.locals + (lr.temps - 1) <= Len(s)
  BY <1>3, <1>4, <1>6
<1>8. Fits(s, caller, lr, lr.temps - 1)
  BY <1>1, <1>4, <1>5, <1>7 DEF Fits
<1>9. caller < i - Arity[g] - 1
  BY <1>1, <1>2, <1>3, <1>4
<1> QED
  BY <1>3, <1>6, <1>8, <1>9 DEF caller, lr

\* Going down from a frame finds its caller and that one's callers.
LEMMA CallersUnfold ==
    ASSUME NEW s \in Seq(Slots), NEW f \in Nat, NEW g, WellFramed(s, f, g),
           NEW i \in FrameSlots(s)
    PROVE  /\ CallersOf(s)[i] \in Seq(ActivationSet)
           /\ CallersOf(s)[i] = IF i <= ScriptFrame THEN <<>>
                                ELSE Append(CallersOf(s)[s[i].fp], CallerAt(s, i))
<1> DEFINE S == FrameSlots(s)
           A == Seq(ActivationSet)
           up == [j \in S |-> IF j <= ScriptFrame THEN j ELSE s[j].fp]
           none == [j \in S |-> <<>>]
           step == [j \in S |-> [q \in A |-> IF j <= ScriptFrame THEN q ELSE Append(q, CallerAt(s, j))]]
<1>1. S \in SUBSET Nat
  BY DEF FrameSlots
<1>2. \A j \in S : /\ j \in Nat
                   /\ j <= ScriptFrame \/ (s[j].fp \in S /\ s[j].fp < j)
  BY <1>1, CallerFacts DEF ScriptFrame
<1>3. up \in [S -> S]
  BY <1>2
<1>4. \A j \in S : (up[j] < j) <=> ~(j <= ScriptFrame)
  BY <1>2
<1>5. \A j \in S : ~(j <= ScriptFrame) => CallerAt(s, j) \in ActivationSet
  <2>1. SUFFICES ASSUME NEW j \in S, j > ScriptFrame PROVE CallerAt(s, j) \in ActivationSet
    BY <1>2 DEF ScriptFrame
  <2>2. PICK h : CallOf(s, j, h)
    BY <2>1, EveryFrameIsACall
  <2>3. FrameOf(s, s[j].fp, s[j].lr.fn) /\ j \in Nat
    BY <2>1, CallerFacts
  <2> QED
    BY <2>2, <2>3, CallerFits, ActivationType DEF CallerAt
<1>6. none \in [S -> A] /\ step \in [S -> [A -> A]]
  BY <1>2, <1>5 DEF ScriptFrame
<1>7. \E callers \in [S -> A] : FollowsChain(callers, S, up, none, step)
  <2> HIDE DEF S, up, A, none, step
  <2> QED
    BY <1>1, <1>3, <1>6, ChainRecursion
<1>8. PICK callers \in [S -> A] :
         callers = [j \in S |-> IF up[j] < j THEN step[j][callers[up[j]]] ELSE none[j]]
  BY <1>7 DEF FollowsChain
<1>9. \A j \in S : /\ up[j] < j => step[j][callers[up[j]]] = Append(callers[s[j].fp], CallerAt(s, j))
                   /\ ~(up[j] < j) => none[j] = <<>>
  BY <1>2, <1>3, <1>4, <1>8
<1> HIDE DEF up, none, step
<1>10. callers = [j \in S |-> IF j <= ScriptFrame THEN <<>>
                             ELSE Append(callers[s[j].fp], CallerAt(s, j))]
  BY <1>4, <1>8, <1>9
<1>11. CallersOf(s) = [j \in S |-> IF j <= ScriptFrame THEN <<>>
                                   ELSE Append(CallersOf(s)[s[j].fp], CallerAt(s, j))]
  BY <1>10 DEF CallersOf, CallerAt
<1> DEFINE Wrong == {j \in S : CallersOf(s)[j] \notin A}
<1>12. CASE Wrong # {}
  <2>1. PICK j \in Wrong : \A k \in Wrong : j <= k
    <3>1. Wrong \in SUBSET Nat
      BY <1>1
    <3> HIDE DEF Wrong
    <3> QED
      BY <1>12, <3>1, LeastNatural
  <2>2. j \in S /\ CallersOf(s)[j] \notin A /\ j \in Nat
    BY <1>2, <2>1
  <2>3. CASE j <= ScriptFrame
    BY <1>11, <2>2, <2>3
  <2>4. CASE ~(j <= ScriptFrame)
    <3>1. s[j].fp \in S /\ s[j].fp < j /\ s[j].fp \in Nat
      BY <1>2, <2>2, <2>4
    <3>2. CallersOf(s)[s[j].fp] \in A
      BY <2>1, <2>2, <3>1
    <3>3. Append(CallersOf(s)[s[j].fp], CallerAt(s, j)) \in A
      BY <1>5, <2>2, <2>4, <3>2
    <3> QED
      BY <1>11, <2>2, <2>4, <3>3
  <2> QED
    BY <2>3, <2>4
<1>13. CASE Wrong = {}
  BY <1>11, <1>13
<1> QED
  BY <1>12, <1>13

\* A stack that is the same up to slot n has the same callers there.
LEMMA CallersKept ==
    ASSUME NEW s \in Seq(Slots), NEW f \in Nat, NEW g, WellFramed(s, f, g),
           NEW t \in Seq(Slots), NEW e \in Nat, NEW h, WellFramed(t, e, h),
           NEW n \in Nat, n <= Len(s), n <= Len(t), \A k \in 1..n : t[k] = s[k],
           NEW i \in FrameSlots(s), i <= n
    PROVE  CallersOf(t)[i] = CallersOf(s)[i]
<1> DEFINE Wrong == {j \in FrameSlots(s) : j <= n /\ CallersOf(t)[j] # CallersOf(s)[j]}
<1> SUFFICES ASSUME Wrong # {} PROVE FALSE
  OBVIOUS
<1>1. PICK j \in Wrong : \A k \in Wrong : j <= k
  <2>1. Wrong \in SUBSET Nat
    BY DEF FrameSlots
  <2> HIDE DEF Wrong
  <2> QED
    BY <2>1, LeastNatural
<1>2. /\ j \in FrameSlots(s) /\ j <= n /\ CallersOf(t)[j] # CallersOf(s)[j] /\ j \in Nat
      /\ j \in 1..n /\ t[j] = s[j] /\ j \in FrameSlots(t)
  BY <1>1 DEF FrameSlots
<1>3. CASE j <= ScriptFrame
  BY <1>2, <1>3, CallersUnfold
<1>4. CASE j > ScriptFrame
  <2>1. PICK b : CallOf(s, j, b)
    BY <1>2, <1>4, EveryFrameIsACall
  <2> DEFINE p == s[j].fp
             lr == s[j].lr
  <2>2. p \in FrameSlots(s) /\ p < j /\ p \in Nat /\ FrameOf(s, p, lr.fn)
    BY <1>2, <1>4, CallerFacts
  <2>3. /\ Fits(s, p, lr, lr.temps - 1)
        /\ p + SpillCount(lr.fn) + lr.locals + (lr.temps - 1) <= n
        /\ p + SpillCount(lr.fn) + lr.locals + (lr.temps - 1) \in Int
    <3>1. /\ Fits(s, p, lr, lr.temps - 1)
          /\ p + SpillCount(lr.fn) + lr.locals + (lr.temps - 1) = j - Arity[b] - 2
      BY <1>2, <2>1, <2>2, CallerFits
    <3>2. Arity[b] \in Nat
      BY <2>1, ArityType DEF CallOf, Callables
    <3>3. j - Arity[b] - 2 <= n /\ j - Arity[b] - 2 \in Int
      BY <1>2, <3>2
    <3> QED
      BY <3>1, <3>3
  <2>4. CallerAt(t, j) = CallerAt(s, j)
    <3> DEFINE m == p + SpillCount(lr.fn) + lr.locals + (lr.temps - 1)
    <3>1. m <= n /\ m \in Int /\ Len(t) \in Nat
      BY <2>3
    <3> HIDE DEF m
    <3>2. m <= Len(t) /\ \A k \in 1..m : t[k] = s[k]
      BY <3>1
    <3>3. ActivationAt(t, p, lr, lr.temps - 1) = ActivationAt(s, p, lr, lr.temps - 1)
      BY <2>3, <3>2, ActivationKept DEF m
    <3> QED
      BY <1>2, <3>3 DEF CallerAt
  <2>5. CallersOf(t)[p] = CallersOf(s)[p]
    <3>1. p \notin Wrong /\ p <= n
      BY <1>1, <1>2, <2>2
    <3> QED
      BY <2>2, <3>1
  <2>6. /\ CallersOf(s)[j] = Append(CallersOf(s)[p], CallerAt(s, j))
        /\ CallersOf(t)[j] = Append(CallersOf(t)[p], CallerAt(t, j))
    <3>1. ~(j <= ScriptFrame) /\ t[j].fp = p
      BY <1>2, <1>4 DEF ScriptFrame
    <3> QED
      BY <1>2, <3>1, CallersUnfold
  <2> QED
    BY <1>2, <2>4, <2>5, <2>6
<1> QED
  BY <1>2, <1>3, <1>4 DEF ScriptFrame

\* So has one where only the frame's own variables differ: its arguments, its
\* locals and its temporaries.
LEMMA OwnCallersKept ==
    ASSUME NEW s \in Seq(Slots), NEW f \in Nat, NEW g, WellFramed(s, f, g),
           NEW t \in Seq(Slots), NEW e \in Nat, NEW h, WellFramed(t, e, h),
           f <= Len(t), t[f] = s[f],
           g # Script => \A k \in 1..(f - Arity[g] - 1) : t[k] = s[k]
    PROVE  CallersOf(t)[f] = CallersOf(s)[f]
<1>1. f \in FrameSlots(s) /\ f \in FrameSlots(t) /\ FrameOf(s, f, g)
  BY DEF FrameSlots, WellFramed
<1>2. CASE g = Script /\ f = ScriptFrame
  <2>1. f <= ScriptFrame
    BY <1>2
  <2> QED
    BY <1>1, <2>1, CallersUnfold
<1>3. CASE CallOf(s, f, g)
  <2> DEFINE p == s[f].fp
             lr == s[f].lr
             c == f - Arity[g] - 1
             m == p + SpillCount(lr.fn) + lr.locals + (lr.temps - 1)
  <2>1. g # Script /\ Arity[g] \in Nat /\ f > ScriptFrame /\ ~(f <= ScriptFrame)
    BY <1>3, ArityType, FramesAssumption DEF CallOf, Callables, ScriptFrame
  <2>2. p \in FrameSlots(s) /\ p < f /\ p \in Nat /\ FrameOf(s, p, lr.fn) /\ f <= Len(s)
    BY <1>1, <2>1, CallerFacts
  <2>3. Fits(s, p, lr, lr.temps - 1) /\ m = c - 1 /\ p < c
    <3>1. /\ Fits(s, p, lr, lr.temps - 1) /\ m = f - Arity[g] - 2 /\ p < f - Arity[g] - 1
      BY <1>3, <2>2, CallerFits
    <3>2. f - Arity[g] - 2 = (f - Arity[g] - 1) - 1
      BY <2>1
    <3> QED
      BY <3>1, <3>2
  <2>4. c \in Nat /\ c <= Len(s) /\ c <= Len(t) /\ \A k \in 1..c : t[k] = s[k]
    <3>1. c \in Int /\ c <= f /\ \A k \in 1..c : t[k] = s[k]
      BY <2>1
    <3>2. Len(s) \in Nat /\ Len(t) \in Nat
      OBVIOUS
    <3> HIDE DEF c, m, p, lr
    <3> QED
      BY <2>2, <2>3, <3>1, <3>2
  <2>5. CallersOf(t)[p] = CallersOf(s)[p]
    <3>1. p <= c
      <4> HIDE DEF c, m, p, lr
      <4> QED
        BY <2>2, <2>3, <2>4
    <3> HIDE DEF c, p
    <3> QED
      BY <2>2, <2>4, <3>1, CallersKept
  <2>6. CallerAt(t, f) = CallerAt(s, f)
    <3>1. m <= Len(t) /\ \A k \in 1..m : t[k] = s[k]
      <4> HIDE DEF c, m
      <4> QED
        BY <2>3, <2>4
    <3>2. ActivationAt(t, p, lr, lr.temps - 1) = ActivationAt(s, p, lr, lr.temps - 1)
      BY <2>3, <3>1, ActivationKept
    <3> QED
      BY <3>2 DEF CallerAt
  <2>7. /\ CallersOf(s)[f] = Append(CallersOf(s)[p], CallerAt(s, f))
        /\ CallersOf(t)[f] = Append(CallersOf(t)[p], CallerAt(t, f))
    BY <1>1, <2>1, CallersUnfold
  <2> QED
    BY <2>5, <2>6, <2>7
<1> QED
  BY <1>1, <1>2, <1>3 DEF FrameOf

-----------------------------------------------------------------------------
(* Refinement: each step of the machine is a step of LoxCalls.             *)

Act(g, args, locals, temps) ==
    [fn |-> g, args |-> args, locals |-> locals, temps |-> temps]

\* What the operations of LoxCalls make of an activation.
LEMMA ActOperations ==
    ASSUME NEW g, NEW x, NEW y, NEW z
    PROVE  /\ Act(g, x, y, z).fn = g /\ Act(g, x, y, z).args = x
           /\ Act(g, x, y, z).locals = y /\ Act(g, x, y, z).temps = z
           /\ \A v : Lox!Push(Act(g, x, y, z), v) = Act(g, x, y, Append(z, v))
           /\ \A n : Lox!Drop(Act(g, x, y, z), n) = Act(g, x, y, SubSeq(z, 1, Len(z) - n))
           /\ Lox!TopOf(Act(g, x, y, z)) = z[Len(z)]
           /\ \A i, v : [Act(g, x, y, z) EXCEPT !.args[i] = v] = Act(g, Put(x, i, v), y, z)
           /\ \A i, v : [Act(g, x, y, z) EXCEPT !.locals[i] = v] = Act(g, x, Put(y, i, v), z)
<1>1. /\ Act(g, x, y, z).fn = g /\ Act(g, x, y, z).args = x
      /\ Act(g, x, y, z).locals = y /\ Act(g, x, y, z).temps = z
  BY DEF Act
<1>2. ASSUME NEW w PROVE [Act(g, x, y, z) EXCEPT !.temps = w] = Act(g, x, y, w)
  BY DEF Act
<1>3. ASSUME NEW v PROVE Lox!Push(Act(g, x, y, z), v) = Act(g, x, y, Append(z, v))
  BY <1>1, <1>2 DEF Lox!Push
<1>4. ASSUME NEW n PROVE Lox!Drop(Act(g, x, y, z), n) = Act(g, x, y, SubSeq(z, 1, Len(z) - n))
  BY <1>1, <1>2 DEF Lox!Drop
<1>5. Lox!TopOf(Act(g, x, y, z)) = z[Len(z)]
  BY <1>1 DEF Lox!TopOf
<1>6. ASSUME NEW i, NEW v PROVE [Act(g, x, y, z) EXCEPT !.args[i] = v] = Act(g, Put(x, i, v), y, z)
  BY DEF Act, Put
<1>7. ASSUME NEW i, NEW v PROVE [Act(g, x, y, z) EXCEPT !.locals[i] = v] = Act(g, x, Put(y, i, v), z)
  BY DEF Act, Put
<1> QED
  BY <1>1, <1>3, <1>4, <1>5, <1>6, <1>7

\* The activation that the frame pointer and the code address stand for.
Now == ActivationAt(stack, fp, pc, pc.temps)

\* The slots of the running function are where the code address says.
LEMMA CurrentFits == ASSUME IInv, Running PROVE Fits(stack, fp, pc, pc.temps)
<1>1. fp + SpillCount(pc.fn) + pc.locals + pc.temps <= Len(stack)
  BY RunningFacts DEF sp
<1> QED
  BY <1>1, RunningFacts DEF Fits

\* What LoxCalls sees of a running state.
LEMMA CallsOfRunning ==
    ASSUME IInv, Running
    PROVE  /\ Activations = Append(CallersOf(stack)[fp], Now)
           /\ CallersOf(stack)[fp] \in Seq(ActivationSet) /\ Now \in ActivationSet
           /\ Lox!Running /\ Lox!Current = Now /\ Lox!Callers = CallersOf(stack)[fp]
           /\ Len(Activations) = Len(CallersOf(stack)[fp]) + 1
<1> DEFINE C == CallersOf(stack)[fp]
<1>1. Activations = Append(C, Now)
  BY DEF Activations, Now
<1>2. C \in Seq(ActivationSet)
  BY RunningFacts, CallersUnfold
<1>3. Now \in ActivationSet
  BY CurrentFits, ActivationType DEF Now
<1> HIDE DEF C
<1>4. /\ Len(Append(C, Now)) = Len(C) + 1 /\ Append(C, Now) # <<>>
      /\ Append(C, Now)[Len(Append(C, Now))] = Now
  BY <1>2, <1>3
<1>5. SubSeq(Append(C, Now), 1, Len(C)) = C
  <2> DEFINE q == SubSeq(Append(C, Now), 1, Len(C))
  <2>1. \A k \in 1..Len(C) : Append(C, Now)[k] = C[k] /\ C[k] \in ActivationSet
    BY <1>2
  <2>2. Len(C) \in Nat /\ Len(C) - 1 + 1 = Len(C)
    BY <1>2
  <2>3. q \in Seq(ActivationSet) /\ Len(q) = Len(C) /\ \A k \in 1..Len(C) : q[k] = C[k]
    BY <1>2, <2>1, <2>2, SubSeqProperties
  <2> HIDE DEF q
  <2>4. q = C
    BY <1>2, <2>3, SeqEqual
  <2> QED
    BY <2>4 DEF q
<1>6. Len(Activations) - 1 = Len(C)
  BY <1>1, <1>2, <1>4
<1> QED
  BY <1>1, <1>2, <1>3, <1>4, <1>5, <1>6 DEF C, Lox!Running, Lox!Current, Lox!Callers

\* What the invariant says of the next state, when Lox code still runs there.
LEMMA NextRunning ==
    ASSUME IInv', Running'
    PROVE  /\ stack' \in Seq(Slots) /\ fp' \in Nat /\ WellFramed(stack', fp', pc'.fn)
           /\ Fits(stack', fp', pc', pc'.temps)
           /\ Len(stack') = fp' + SpillCount(pc'.fn) + pc'.locals + pc'.temps
<1>1. /\ stack' \in Seq(Slots) /\ pc' \in Points /\ WellFramed(stack', fp', pc'.fn)
      /\ Len(stack') = fp' + SpillCount(pc'.fn) + pc'.locals + pc'.temps
  BY DEF IInv, TypeOK, StackDiscipline, Running, sp
<1>2. fp' \in FrameSlots(stack') /\ FrameOf(stack', fp', pc'.fn)
  BY <1>1 DEF WellFramed
<1>3. fp' \in Nat /\ pc'.temps \in Nat /\ Len(stack') \in Nat
  BY <1>1, <1>2, BoundTypes DEF FrameSlots, Points
<1>4. Fits(stack', fp', pc', pc'.temps)
  <2>1. fp' + SpillCount(pc'.fn) + pc'.locals + pc'.temps <= Len(stack')
    BY <1>1, <1>3
  <2> QED
    BY <1>1, <1>2, <1>3, <2>1 DEF Fits
<1> QED
  BY <1>1, <1>3, <1>4

\* A step within a function replaces its activation and leaves its callers alone.
LEMMA WithinFunction ==
    ASSUME IInv, IInv', Running, Running', fp' = fp, pc'.fn = pc.fn, result' = result,
           stack'[fp] = stack[fp],
           pc.fn # Script => \A k \in 1..(fp - Arity[pc.fn] - 1) : stack'[k] = stack[k]
    PROVE  Lox!Become(ActivationAt(stack', fp, pc', pc'.temps))
<1>1. /\ stack \in Seq(Slots) /\ fp \in Nat /\ WellFramed(stack, fp, pc.fn)
  BY RunningFacts
<1>2. stack' \in Seq(Slots) /\ fp' \in Nat /\ WellFramed(stack', fp', pc'.fn)
  BY NextRunning
<1>3. fp <= Len(stack')
  BY <1>2 DEF WellFramed, FrameSlots
<1>4. CallersOf(stack')[fp] = CallersOf(stack)[fp]
  BY <1>1, <1>2, <1>3, OwnCallersKept
<1>5. Activations' = Append(CallersOf(stack')[fp'], ActivationAt(stack', fp', pc', pc'.temps))
  BY DEF Activations
<1> QED
  BY <1>4, <1>5, CallsOfRunning DEF Lox!Become

\* Where the locals of the running function begin, and what it has.
Base == fp + SpillCount(pc.fn)
ArgsNow == ValuesAt(stack, fp - Arity[pc.fn], fp - 1)
LocalsNow == ValuesAt(stack, Base + 1, Base + pc.locals)
TempsNow == ValuesAt(stack, Base + pc.locals + 1, Base + pc.locals + pc.temps)

\* The running activation, and where its parts lie.
LEMMA Layout ==
    ASSUME IInv, Running
    PROVE  /\ Now = Act(pc.fn, ArgsNow, LocalsNow, TempsNow)
           /\ stack \in Seq(Slots) /\ fp \in Nat /\ Base \in Nat /\ Base > fp
           /\ Arity[pc.fn] \in Nat /\ fp - Arity[pc.fn] >= 1
           /\ pc \in Points /\ pc.locals \in Nat /\ pc.temps \in Nat
           /\ sp = Len(stack) /\ sp \in Nat /\ sp = Base + pc.locals + pc.temps
           /\ Run(stack, fp - Arity[pc.fn], fp - 1)
           /\ Run(stack, Base + 1, Base + pc.locals)
           /\ Run(stack, Base + pc.locals + 1, Base + pc.locals + pc.temps)
<1>1. /\ Run(stack, fp - Arity[pc.fn], fp - 1)
      /\ Run(stack, Base + 1, Base + pc.locals)
      /\ Run(stack, Base + pc.locals + 1, Base + pc.locals + pc.temps)
  BY CurrentFits, FitsRuns DEF Base
<1>2. Now = Act(pc.fn, ArgsNow, LocalsNow, TempsNow)
  BY DEF Now, ActivationAt, Act, ArgsNow, LocalsNow, TempsNow, Base
<1>3. /\ stack \in Seq(Slots) /\ fp \in Nat /\ Arity[pc.fn] \in Nat /\ fp - Arity[pc.fn] >= 1
  BY CurrentFits, FitsFacts
<1>4. /\ pc \in Points /\ pc.locals \in Nat /\ pc.temps \in Nat /\ sp \in Nat
      /\ SpillCount(pc.fn) \in Nat /\ SpillCount(pc.fn) >= 1
      /\ sp = Len(stack) /\ sp = Base + pc.locals + pc.temps
  BY RunningFacts DEF sp, Base
<1>5. Base \in Nat /\ Base > fp
  BY <1>3, <1>4 DEF Base
<1> QED
  BY <1>1, <1>2, <1>3, <1>4, <1>5

\* What LoxCalls sees of them.
LEMMA CurrentIs ==
    ASSUME IInv, Running
    PROVE  /\ Lox!Running /\ Lox!Current = Act(pc.fn, ArgsNow, LocalsNow, TempsNow)
           /\ Lox!Current.args = ArgsNow /\ Lox!Current.locals = LocalsNow
           /\ Lox!Current.temps = TempsNow
           /\ ArgsNow \in Seq(Words) /\ Len(ArgsNow) = Arity[pc.fn]
           /\ \A i \in 1..Arity[pc.fn] : ArgsNow[i] = Read(fp - Arity[pc.fn] + i - 1)
           /\ LocalsNow \in Seq(Words) /\ Len(LocalsNow) = pc.locals
           /\ \A i \in 1..pc.locals : LocalsNow[i] = Read(Base + i)
           /\ TempsNow \in Seq(Words) /\ Len(TempsNow) = pc.temps
           /\ \A i \in 1..pc.temps : TempsNow[i] = Read(Base + pc.locals + i)
<1> DEFINE a == Arity[pc.fn]
           l == pc.locals
           t == pc.temps
           b == Base
<1>1. /\ fp \in Nat /\ b \in Nat /\ a \in Nat /\ l \in Nat /\ t \in Nat
      /\ Run(stack, fp - a, fp - 1) /\ Run(stack, b + 1, b + l) /\ Run(stack, b + l + 1, b + l + t)
  BY Layout
<1>2. ArgsNow = ValuesAt(stack, fp - a, fp - 1)
  BY DEF ArgsNow
<1>3. LocalsNow = ValuesAt(stack, b + 1, b + l)
  BY DEF LocalsNow
<1>4. TempsNow = ValuesAt(stack, b + l + 1, b + l + t)
  BY DEF TempsNow
<1> HIDE DEF a, l, t, b
<1>5. (fp - 1) - (fp - a) + 1 = a /\ (b + l) - (b + 1) + 1 = l /\ (b + l + t) - (b + l + 1) + 1 = t
  BY <1>1
<1>6. ArgsNow \in Seq(Words) /\ Len(ArgsNow) = a /\ \A i \in 1..a : ArgsNow[i] = Read(fp - a + i - 1)
  <2>1. /\ ValuesAt(stack, fp - a, fp - 1) \in Seq(Words)
        /\ Len(ValuesAt(stack, fp - a, fp - 1)) = (fp - 1) - (fp - a) + 1
        /\ \A i \in 1..((fp - 1) - (fp - a) + 1) :
              ValuesAt(stack, fp - a, fp - 1)[i] = ReadFrom(stack, fp - a + i - 1)
    BY <1>1, RunValues
  <2> QED
    BY <1>2, <1>5, <2>1 DEF Read
<1>7. /\ LocalsNow \in Seq(Words) /\ Len(LocalsNow) = l
      /\ \A i \in 1..l : LocalsNow[i] = ReadFrom(stack, b + 1 + i - 1)
  <2>1. /\ ValuesAt(stack, b + 1, b + l) \in Seq(Words)
        /\ Len(ValuesAt(stack, b + 1, b + l)) = (b + l) - (b + 1) + 1
        /\ \A i \in 1..((b + l) - (b + 1) + 1) :
              ValuesAt(stack, b + 1, b + l)[i] = ReadFrom(stack, b + 1 + i - 1)
    BY <1>1, RunValues
  <2> QED
    BY <1>3, <1>5, <2>1
<1>8. /\ TempsNow \in Seq(Words) /\ Len(TempsNow) = t
      /\ \A i \in 1..t : TempsNow[i] = ReadFrom(stack, b + l + 1 + i - 1)
  <2>1. /\ ValuesAt(stack, b + l + 1, b + l + t) \in Seq(Words)
        /\ Len(ValuesAt(stack, b + l + 1, b + l + t)) = (b + l + t) - (b + l + 1) + 1
        /\ \A i \in 1..((b + l + t) - (b + l + 1) + 1) :
              ValuesAt(stack, b + l + 1, b + l + t)[i] = ReadFrom(stack, b + l + 1 + i - 1)
    BY <1>1, RunValues
  <2> QED
    BY <1>4, <1>5, <2>1
<1>9. (\A i \in 1..l : b + 1 + i - 1 = b + i) /\ \A i \in 1..t : b + l + 1 + i - 1 = b + l + i
  BY <1>1
<1>10. /\ \A i \in 1..l : LocalsNow[i] = Read(b + i)
       /\ \A i \in 1..t : TempsNow[i] = Read(b + l + i)
  BY <1>7, <1>8, <1>9 DEF Read
<1>11. Lox!Running /\ Lox!Current = Act(pc.fn, ArgsNow, LocalsNow, TempsNow)
  BY Layout, CallsOfRunning
<1> QED
  BY <1>6, <1>7, <1>8, <1>10, <1>11, ActOperations DEF a, l, t, b

\* The value on top of the stack is the last temporary.
LEMMA TopIs ==
    ASSUME IInv, Running, pc.temps >= 1
    PROVE  /\ Lox!TopOf(Lox!Current) = Read(sp) /\ Read(sp) \in Values /\ stack[sp] = Value(Read(sp))
           /\ acc = Read(sp) /\ Lox!Current.temps # <<>>
           /\ TempsNow[pc.temps] = Read(sp)
<1>1. pc.temps \in 1..pc.temps /\ Base + pc.locals + pc.temps = sp /\ sp > Base /\ sp \in Nat /\ sp <= sp
  BY Layout
<1>2. TempsNow[pc.temps] = Read(sp)
  BY <1>1, CurrentIs
<1>3. Lox!TopOf(Lox!Current) = Read(sp) /\ Lox!Current.temps # <<>>
  BY <1>2, CurrentIs, ActOperations
<1>4. acc = Read(sp)
  BY Layout DEF IInv, TopInAcc
<1>5. Read(sp) \in Values /\ stack[sp] = Value(Read(sp))
  BY <1>1, OwnSlot DEF Base
<1> QED
  BY <1>2, <1>3, <1>4, <1>5

\* What has to be shown of a step within a function.
LEMMA BecomesAct ==
    ASSUME IInv, IInv', Running, Running', fp' = fp, pc'.fn = pc.fn, result' = result,
           stack'[fp] = stack[fp],
           pc.fn # Script => \A k \in 1..(fp - Arity[pc.fn] - 1) : stack'[k] = stack[k],
           NEW x, ValuesAt(stack', fp - Arity[pc.fn], fp - 1) = x,
           NEW y, ValuesAt(stack', Base + 1, Base + pc'.locals) = y,
           NEW z, ValuesAt(stack', Base + pc'.locals + 1, Base + pc'.locals + pc'.temps) = z
    PROVE  Lox!Become(Act(pc.fn, x, y, z))
<1>1. ActivationAt(stack', fp, pc', pc'.temps) = Act(pc.fn, x, y, z)
  BY DEF ActivationAt, Act, Base
<1> QED
  BY <1>1, WithinFunction

\* The arguments, if no slot up to the frame is stored to.
LEMMA ArgsKept ==
    ASSUME IInv, Running, stack' \in Seq(Slots), fp <= Len(stack'),
           \A k \in 1..fp : stack'[k] = stack[k]
    PROVE  /\ ValuesAt(stack', fp - Arity[pc.fn], fp - 1) = ArgsNow
           /\ stack'[fp] = stack[fp]
           /\ \A k \in 1..(fp - Arity[pc.fn] - 1) : stack'[k] = stack[k]
<1> DEFINE a == Arity[pc.fn]
<1>1. /\ fp \in Nat /\ a \in Nat /\ fp - a >= 1 /\ Run(stack, fp - a, fp - 1)
  BY Layout
<1> HIDE DEF a
<1>2. fp - 1 <= Len(stack') /\ \A k \in (fp - a)..(fp - 1) : stack'[k] = stack[k]
  BY <1>1
<1>3. ValuesAt(stack', fp - a, fp - 1) = ValuesAt(stack, fp - a, fp - 1)
  BY <1>1, <1>2, RunKept
<1>4. stack'[fp] = stack[fp] /\ \A k \in 1..(fp - a - 1) : stack'[k] = stack[k]
  BY <1>1
<1> QED
  BY <1>3, <1>4 DEF a, ArgsNow

\* An expression pushes its value, and LoxCalls has one more temporary.
LEMMA PushRefines ==
    ASSUME IInv, ScriptLocals = FALSE, NEW v \in Values, PushValue(v)
    PROVE  Lox!Become(Lox!Push(Lox!Current, v))
<1> DEFINE l == pc.locals
           t == pc.temps
           b == Base
<1>1. /\ Running /\ t < MaxTemps /\ InFrame /\ stack' = Append(stack, Value(v)) /\ pc' = Advance(0, 1)
  BY DEF PushValue, HasTemps
<1>2. IInv'
  BY PushStep
<1>3. /\ stack \in Seq(Slots) /\ fp \in Nat /\ b \in Nat /\ b > fp /\ l \in Nat /\ t \in Nat
      /\ pc \in Points /\ Len(stack) = b + l + t
      /\ Run(stack, b + 1, b + l) /\ Run(stack, b + l + 1, b + l + t)
  BY <1>1, Layout
<1>4. pc' \in Points /\ pc'.fn = pc.fn /\ pc'.locals = l /\ pc'.temps = t + 1
  <2>1. l + 0 \in 0..MaxLocals /\ t + 1 \in 0..MaxTemps /\ l + 0 = l
    BY <1>1, <1>3, BoundTypes DEF Points
  <2> QED
    BY <1>1, <1>3, <2>1, AdvanceType
<1>5. Running'
  BY <1>4, PointIsRunning DEF Running
<1>6. /\ stack' \in Seq(Slots) /\ Len(stack') = Len(stack) + 1
      /\ stack'[Len(stack')] = Value(v) /\ \A k \in 1..Len(stack) : stack'[k] = stack[k]
  BY <1>1, <1>3, Pushed
<1> HIDE DEF b, l, t
<1>7. /\ \A k \in 1..fp : stack'[k] = stack[k]
      /\ \A k \in (b + 1)..(b + l) : stack'[k] = stack[k]
      /\ \A k \in (b + l + 1)..(b + l + t) : stack'[k] = stack[k]
      /\ fp <= Len(stack') /\ b + l <= Len(stack') /\ (b + l + t) + 1 <= Len(stack')
      /\ b + l + (t + 1) = (b + l + t) + 1 /\ stack'[(b + l + t) + 1] = Value(v)
  BY <1>3, <1>6
<1>8. ValuesAt(stack', b + 1, b + l) = LocalsNow
  <2>1. ValuesAt(stack', b + 1, b + l) = ValuesAt(stack, b + 1, b + l)
    BY <1>3, <1>6, <1>7, RunKept
  <2> QED
    BY <2>1 DEF LocalsNow, b, l
<1>9. ValuesAt(stack', b + l + 1, b + l + (t + 1)) = Append(TempsNow, v)
  <2>1. ValuesAt(stack', b + l + 1, (b + l + t) + 1) = Append(ValuesAt(stack, b + l + 1, b + l + t), v)
    BY <1>3, <1>6, <1>7, RunAppend
  <2> QED
    BY <1>7, <2>1 DEF TempsNow, b, l, t
<1>10. Lox!Become(Act(pc.fn, ArgsNow, LocalsNow, Append(TempsNow, v)))
  BY <1>1, <1>2, <1>4, <1>5, <1>6, <1>7, <1>8, <1>9, ArgsKept, BecomesAct DEF InFrame, b, l
<1> QED
  BY <1>1, <1>10, CurrentIs, ActOperations

\* Literals, globals and closures.
LEMMA LoadRefines == ASSUME IInv, ScriptLocals = FALSE, Load PROVE Lox!Load
<1>1. PICK v \in Values : PushValue(v)
  BY DEF Load
<1>2. Lox!Running
  BY <1>1, CallsOfRunning DEF PushValue, HasTemps
<1>3. Values = Lox!Values
  BY DEF Values, Lox!Values
<1> QED
  BY <1>1, <1>2, <1>3, PushRefines DEF Lox!Load

\* The slot of local i, counted from 0, is that of local i + 1 of LoxCalls.
LEMMA LocalIs ==
    ASSUME IInv, Running, ScriptLocals = FALSE, NEW i \in 0..(pc.locals - 1)
    PROVE  /\ LocalSlot(i) = Base + (i + 1) /\ LocalSlot(i) \in Nat
           /\ i + 1 \in 1..pc.locals /\ i + 1 \in DOMAIN Lox!Current.locals
           /\ Lox!Current.locals[i + 1] = Read(LocalSlot(i)) /\ Read(LocalSlot(i)) \in Values
<1>1. pc.fn # Script
  <2>1. SUFFICES ASSUME pc.fn = Script PROVE FALSE
    OBVIOUS
  <2>2. pc.locals = 0
    BY <2>1, NoScriptLocals
  <2> QED
    BY <2>2
<1>2. /\ fp \in Nat /\ pc.locals \in Nat /\ Base = fp + 1
  BY <1>1, Layout DEF Base, SpillCount, FUNCTION_STACK_SPILL
<1>3. LocalSlot(i) = Base + (i + 1) /\ i + 1 \in 1..pc.locals /\ LocalSlot(i) \in Nat
  BY <1>2 DEF LocalSlot, FUNCTION_STACK_SPILL
<1>4. Lox!Current.locals = LocalsNow /\ LocalsNow[i + 1] = Read(LocalSlot(i)) /\ DOMAIN LocalsNow = 1..pc.locals
  BY <1>3, CurrentIs
<1>5. Read(LocalSlot(i)) \in Values
  BY LocalSlotOwn, OwnSlot
<1> QED
  BY <1>3, <1>4, <1>5

\* The slot of argument a is that of argument a of LoxCalls.
LEMMA ArgumentIs ==
    ASSUME IInv, Running, NEW a \in 1..Arity[pc.fn]
    PROVE  /\ ArgumentSlot(a) = fp - Arity[pc.fn] + a - 1 /\ ArgumentSlot(a) \in Nat
           /\ a \in DOMAIN Lox!Current.args
           /\ Lox!Current.args[a] = Read(ArgumentSlot(a)) /\ Read(ArgumentSlot(a)) \in Values
<1>1. /\ fp \in Nat /\ Arity[pc.fn] \in Nat
  BY Layout
<1>2. ArgumentSlot(a) = fp - Arity[pc.fn] + a - 1
  BY <1>1 DEF ArgumentSlot
<1>3. Lox!Current.args = ArgsNow /\ ArgsNow[a] = Read(ArgumentSlot(a)) /\ DOMAIN ArgsNow = 1..Arity[pc.fn]
  BY <1>2, CurrentIs
<1>4. Read(ArgumentSlot(a)) \in Values /\ ArgumentSlot(a) \in Nat
  BY ArgumentSlotOwn, ArgumentIsValue
<1> QED
  BY <1>2, <1>3, <1>4

\* emitGetLocal reads the variable that the program means.
LEMMA GetLocalRefines == ASSUME IInv, ScriptLocals = FALSE, GetLocal PROVE Lox!GetLocal
<1>1. PICK i \in 0..(pc.locals - 1) : Running /\ PushValue(Read(LocalSlot(i)))
  BY DEF GetLocal
<1>2. /\ i + 1 \in DOMAIN Lox!Current.locals /\ Read(LocalSlot(i)) \in Values
      /\ Lox!Current.locals[i + 1] = Read(LocalSlot(i))
  BY <1>1, LocalIs
<1>3. Lox!Become(Lox!Push(Lox!Current, Lox!Current.locals[i + 1])) /\ Lox!Running
  BY <1>1, <1>2, PushRefines, CallsOfRunning
<1> QED
  BY <1>2, <1>3 DEF Lox!GetLocal

\* emitGetArgument reads the argument that the caller passed there.
LEMMA GetArgumentRefines == ASSUME IInv, ScriptLocals = FALSE, GetArgument PROVE Lox!GetArgument
<1>1. PICK a \in 1..Arity[pc.fn] : Running /\ PushValue(Read(ArgumentSlot(a)))
  BY DEF GetArgument
<1>2. /\ a \in DOMAIN Lox!Current.args /\ Read(ArgumentSlot(a)) \in Values
      /\ Lox!Current.args[a] = Read(ArgumentSlot(a))
  BY <1>1, ArgumentIs
<1>3. Lox!Become(Lox!Push(Lox!Current, Lox!Current.args[a])) /\ Lox!Running
  BY <1>1, <1>2, PushRefines, CallsOfRunning
<1> QED
  BY <1>2, <1>3 DEF Lox!GetArgument

\* A store of the value in x0 and x1 changes one slot.
LEMMA StoreFacts ==
    ASSUME IInv, Running, pc.temps >= 1, NEW x \in Nat, x >= 1, x <= sp, StoreAcc(x)
    PROVE  /\ stack' \in Seq(Slots) /\ Len(stack') = Len(stack)
           /\ stack'[x] = Value(Read(sp)) /\ Read(sp) \in Values
           /\ \A k \in 1..Len(stack) : k = x \/ stack'[k] = stack[k]
           /\ pc' = pc /\ fp' = fp /\ result' = result /\ Running'
<1>1. /\ stack' = [stack EXCEPT ![x] = Value(Read(sp))] /\ pc' = pc /\ fp' = fp /\ result' = result
      /\ Read(sp) \in Values
  BY TopIs DEF StoreAcc, InFrame
<1>2. stack \in Seq(Slots) /\ x \in 1..Len(stack)
  BY Layout
<1>3. Value(Read(sp)) \in Slots
  BY <1>1 DEF Slots, Value
<1>4. Running'
  BY <1>1 DEF Running
<1> QED
  BY <1>1, <1>2, <1>3, <1>4

\* emitSetLocal changes the variable that the program means, and no other.
LEMMA SetLocalRefines == ASSUME IInv, IInv', ScriptLocals = FALSE, SetLocal PROVE Lox!SetLocal
<1> DEFINE l == pc.locals
           t == pc.temps
           b == Base
           v == Read(sp)
<1>1. PICK i \in 0..(pc.locals - 1) : Running /\ pc.temps >= 1 /\ StoreAcc(LocalSlot(i))
  BY DEF SetLocal, HasTemps
<1> DEFINE x == LocalSlot(i)
<1>2. /\ stack \in Seq(Slots) /\ fp \in Nat /\ b \in Nat /\ b > fp /\ l \in Nat /\ t \in Nat
      /\ Len(stack) = b + l + t /\ sp = b + l + t
      /\ Run(stack, b + 1, b + l) /\ Run(stack, b + l + 1, b + l + t)
  BY <1>1, Layout
<1>3. x = b + (i + 1) /\ i + 1 \in 1..l /\ i + 1 \in DOMAIN Lox!Current.locals
  BY <1>1, LocalIs
<1>4. x \in Nat /\ x >= 1 /\ x <= sp
  <2> HIDE DEF x, b, l, t
  <2> QED
    BY <1>2, <1>3
<1>5. /\ stack' \in Seq(Slots) /\ Len(stack') = Len(stack)
      /\ stack'[x] = Value(v) /\ v \in Values
      /\ \A k \in 1..Len(stack) : k = x \/ stack'[k] = stack[k]
      /\ pc' = pc /\ fp' = fp /\ result' = result /\ Running'
  BY <1>1, <1>4, StoreFacts
<1> HIDE DEF x, b, l, t, v
<1>6. /\ \A k \in 1..fp : stack'[k] = stack[k]
      /\ \A k \in (b + 1)..(b + l) : k = x \/ stack'[k] = stack[k]
      /\ \A k \in (b + l + 1)..(b + l + t) : stack'[k] = stack[k]
      /\ fp <= Len(stack') /\ b + l <= Len(stack') /\ b + l + t <= Len(stack')
      /\ x \in (b + 1)..(b + l) /\ x - (b + 1) + 1 = i + 1
  BY <1>2, <1>3, <1>5
<1>7. ValuesAt(stack', b + 1, b + l) = Put(LocalsNow, i + 1, v)
  <2> DEFINE first == b + 1
             last == b + l
  <2>1. ValuesAt(stack', first, last) = Put(ValuesAt(stack, first, last), x - first + 1, v)
    <3>1. /\ Run(stack, first, last) /\ last <= Len(stack') /\ x \in first..last
          /\ \A k \in first..last : k = x \/ stack'[k] = stack[k]
          /\ stack' \in Seq(Slots) /\ v \in Values /\ stack'[x] = Value(v)
      BY <1>2, <1>5, <1>6
    <3> HIDE DEF first, last
    <3> QED
      BY <3>1, RunStore DEF Stored
  <2> QED
    BY <1>6, <2>1 DEF LocalsNow, b, l
<1>8. ValuesAt(stack', b + l + 1, b + l + t) = TempsNow
  <2> DEFINE first == b + l + 1
             last == b + l + t
  <2>1. /\ Run(stack, first, last) /\ stack' \in Seq(Slots) /\ last <= Len(stack')
        /\ \A k \in first..last : stack'[k] = stack[k]
    BY <1>2, <1>5, <1>6
  <2> HIDE DEF first, last
  <2>2. ValuesAt(stack', first, last) = ValuesAt(stack, first, last)
    BY <2>1, RunKept
  <2> QED
    BY <2>2 DEF TempsNow, b, l, t, first, last
<1>9. Lox!Become(Act(pc.fn, ArgsNow, Put(LocalsNow, i + 1, v), TempsNow))
  BY <1>1, <1>5, <1>6, <1>7, <1>8, ArgsKept, BecomesAct DEF b, l, t
<1>10. [Lox!Current EXCEPT !.locals[i + 1] = Lox!TopOf(Lox!Current)]
          = Act(pc.fn, ArgsNow, Put(LocalsNow, i + 1, v), TempsNow)
  <2>1. Lox!Current = Act(pc.fn, ArgsNow, LocalsNow, TempsNow) /\ Lox!TopOf(Lox!Current) = v
    BY <1>1, CurrentIs, TopIs DEF v
  <2> QED
    BY <2>1, ActOperations
<1> QED
  BY <1>1, <1>3, <1>9, <1>10, CurrentIs, TopIs DEF Lox!SetLocal

\* So does emitSetArgument.
LEMMA SetArgumentRefines == ASSUME IInv, IInv', ScriptLocals = FALSE, SetArgument PROVE Lox!SetArgument
<1> DEFINE l == pc.locals
           t == pc.temps
           b == Base
           n == Arity[pc.fn]
           v == Read(sp)
<1>1. PICK a \in 1..Arity[pc.fn] : Running /\ pc.temps >= 1 /\ StoreAcc(ArgumentSlot(a))
  BY DEF SetArgument, HasTemps
<1> DEFINE x == ArgumentSlot(a)
<1>2. /\ stack \in Seq(Slots) /\ fp \in Nat /\ b \in Nat /\ b > fp /\ l \in Nat /\ t \in Nat
      /\ Len(stack) = b + l + t /\ sp = b + l + t
      /\ n \in Nat /\ fp - n >= 1 /\ Run(stack, fp - n, fp - 1)
      /\ Run(stack, b + 1, b + l) /\ Run(stack, b + l + 1, b + l + t)
  BY <1>1, Layout
<1>3. x = fp - n + a - 1 /\ a \in 1..n /\ a \in DOMAIN Lox!Current.args
  BY <1>1, ArgumentIs
<1>4. x \in Nat /\ x >= 1 /\ x <= sp
  <2> HIDE DEF x, b, l, t, n
  <2> QED
    BY <1>2, <1>3
<1>5. /\ stack' \in Seq(Slots) /\ Len(stack') = Len(stack)
      /\ stack'[x] = Value(v) /\ v \in Values
      /\ \A k \in 1..Len(stack) : k = x \/ stack'[k] = stack[k]
      /\ pc' = pc /\ fp' = fp /\ result' = result /\ Running'
  BY <1>1, <1>4, StoreFacts
<1> HIDE DEF x, b, l, t, n, v
<1>6. /\ stack'[fp] = stack[fp] /\ \A k \in 1..(fp - n - 1) : stack'[k] = stack[k]
      /\ \A k \in (fp - n)..(fp - 1) : k = x \/ stack'[k] = stack[k]
      /\ \A k \in (b + 1)..(b + l) : stack'[k] = stack[k]
      /\ \A k \in (b + l + 1)..(b + l + t) : stack'[k] = stack[k]
      /\ fp - 1 <= Len(stack') /\ b + l <= Len(stack') /\ b + l + t <= Len(stack')
      /\ x \in (fp - n)..(fp - 1) /\ x - (fp - n) + 1 = a
  BY <1>2, <1>3, <1>5
<1>7. ValuesAt(stack', fp - n, fp - 1) = Put(ArgsNow, a, v)
  <2> DEFINE first == fp - n
             last == fp - 1
  <2>1. ValuesAt(stack', first, last) = Put(ValuesAt(stack, first, last), x - first + 1, v)
    <3>1. /\ Run(stack, first, last) /\ last <= Len(stack') /\ x \in first..last
          /\ \A k \in first..last : k = x \/ stack'[k] = stack[k]
          /\ stack' \in Seq(Slots) /\ v \in Values /\ stack'[x] = Value(v)
      <4>1. Run(stack, first, last) /\ stack' \in Seq(Slots) /\ v \in Values /\ stack'[x] = Value(v)
        BY <1>2, <1>5
      <4>2. /\ last <= Len(stack') /\ x \in first..last
            /\ \A k \in first..last : k = x \/ stack'[k] = stack[k]
        BY <1>6
      <4> QED
        BY <4>1, <4>2
    <3> HIDE DEF first, last
    <3> QED
      BY <3>1, RunStore DEF Stored
  <2>2. x - first + 1 = a
    BY <1>6
  <2> QED
    BY <2>1, <2>2 DEF ArgsNow, n, first, last
<1>8. ValuesAt(stack', b + 1, b + l) = LocalsNow
  <2> DEFINE first == b + 1
             last == b + l
  <2>1. /\ Run(stack, first, last) /\ stack' \in Seq(Slots) /\ last <= Len(stack')
        /\ \A k \in first..last : stack'[k] = stack[k]
    BY <1>2, <1>5, <1>6
  <2> HIDE DEF first, last
  <2>2. ValuesAt(stack', first, last) = ValuesAt(stack, first, last)
    BY <2>1, RunKept
  <2> QED
    BY <2>2 DEF LocalsNow, b, l, first, last
<1>9. ValuesAt(stack', b + l + 1, b + l + t) = TempsNow
  <2> DEFINE first == b + l + 1
             last == b + l + t
  <2>1. /\ Run(stack, first, last) /\ stack' \in Seq(Slots) /\ last <= Len(stack')
        /\ \A k \in first..last : stack'[k] = stack[k]
    BY <1>2, <1>5, <1>6
  <2> HIDE DEF first, last
  <2>2. ValuesAt(stack', first, last) = ValuesAt(stack, first, last)
    BY <2>1, RunKept
  <2> QED
    BY <2>2 DEF TempsNow, b, l, t, first, last
<1>10. Lox!Become(Act(pc.fn, Put(ArgsNow, a, v), LocalsNow, TempsNow))
  BY <1>1, <1>5, <1>6, <1>7, <1>8, <1>9, BecomesAct DEF b, l, t, n
<1>11. [Lox!Current EXCEPT !.args[a] = Lox!TopOf(Lox!Current)]
          = Act(pc.fn, Put(ArgsNow, a, v), LocalsNow, TempsNow)
  <2>1. Lox!Current = Act(pc.fn, ArgsNow, LocalsNow, TempsNow) /\ Lox!TopOf(Lox!Current) = v
    BY <1>1, CurrentIs, TopIs DEF v
  <2> QED
    BY <2>1, ActOperations
<1> QED
  BY <1>1, <1>3, <1>10, <1>11, CurrentIs, TopIs DEF Lox!SetArgument

\* The slot of the initializer becomes the new local's, with no code.
LEMMA DefineLocalRefines == ASSUME IInv, IInv', ScriptLocals = FALSE, DefineLocal PROVE Lox!DefineLocal
<1> DEFINE l == pc.locals
           b == Base
           v == Read(sp)
<1>1. /\ Running /\ pc.temps = 1 /\ l < MaxLocals /\ pc' = Advance(1, -1) /\ stack' = stack
      /\ fp' = fp /\ result' = result
  BY DEF DefineLocal, HasTemps, InFrame
<1>2. /\ stack \in Seq(Slots) /\ fp \in Nat /\ b \in Nat /\ b > fp /\ l \in Nat
      /\ pc \in Points /\ Len(stack) = b + l + 1 /\ sp = b + l + 1
      /\ Run(stack, b + 1, b + l)
  BY <1>1, Layout
<1>3. pc' \in Points /\ pc'.fn = pc.fn /\ pc'.locals = l + 1 /\ pc'.temps = 0
  <2>1. l + 1 \in 0..MaxLocals /\ pc.temps + (-1) \in 0..MaxTemps /\ pc.temps + (-1) = 0 /\ -1 \in Int
    BY <1>1, <1>2, BoundTypes DEF Points
  <2> QED
    BY <1>1, <1>2, <2>1, AdvanceType
<1>4. Running'
  BY <1>3, PointIsRunning DEF Running
<1>5. v \in Values /\ stack[sp] = Value(v) /\ Lox!TopOf(Lox!Current) = v /\ TempsNow[1] = v
  BY <1>1, TopIs
<1> HIDE DEF b, l, v
<1>6. ValuesAt(stack', b + 1, b + (l + 1)) = Append(LocalsNow, v)
  <2>1. (b + l) + 1 <= Len(stack) /\ stack[(b + l) + 1] = Value(v) /\ b + (l + 1) = (b + l) + 1
    BY <1>2, <1>5
  <2>2. ValuesAt(stack, b + 1, (b + l) + 1) = Append(ValuesAt(stack, b + 1, b + l), v)
    BY <1>2, <1>5, <2>1, RunAppend
  <2> QED
    BY <1>1, <2>1, <2>2 DEF LocalsNow, b, l
<1>7. ValuesAt(stack', b + (l + 1) + 1, b + (l + 1) + 0) = <<>>
  <2>1. Run(stack', b + (l + 1) + 1, b + (l + 1) + 0) /\ (b + (l + 1) + 0) - (b + (l + 1) + 1) + 1 = 0
    BY <1>1, <1>2 DEF Run
  <2>2. Agrees(<<>>, stack', b + (l + 1) + 1, b + (l + 1) + 0)
    BY <2>1 DEF Agrees
  <2> QED
    BY <2>1, <2>2, RunEqual
<1>8. Lox!Become(Act(pc.fn, ArgsNow, Append(LocalsNow, v), <<>>))
  <2>1. fp <= Len(stack') /\ \A k \in 1..fp : stack'[k] = stack[k]
    BY <1>1, <1>2
  <2> QED
    BY <1>1, <1>2, <1>3, <1>4, <1>6, <1>7, <2>1, ArgsKept, BecomesAct DEF b
<1>9. Len(TempsNow) = 1 /\ SubSeq(TempsNow, 1, Len(TempsNow) - 1) = <<>>
  BY <1>1, CurrentIs, SubSeqEmpty
<1>10. [Lox!Drop(Lox!Current, 1) EXCEPT !.locals = Append(@, Lox!TopOf(Lox!Current))]
          = Act(pc.fn, ArgsNow, Append(LocalsNow, v), <<>>)
  <2>1. Lox!Drop(Lox!Current, 1) = Act(pc.fn, ArgsNow, LocalsNow, <<>>)
    <3>1. Lox!Current = Act(pc.fn, ArgsNow, LocalsNow, TempsNow)
      BY <1>1, CurrentIs
    <3>2. Lox!Drop(Act(pc.fn, ArgsNow, LocalsNow, TempsNow), 1)
             = Act(pc.fn, ArgsNow, LocalsNow, SubSeq(TempsNow, 1, Len(TempsNow) - 1))
      BY ActOperations
    <3> QED
      BY <1>9, <3>1, <3>2
  <2> QED
    BY <1>5, <2>1 DEF Act
<1> QED
  BY <1>1, <1>8, <1>9, <1>10, CurrentIs DEF Lox!DefineLocal

\* No slots, no values.
LEMMA RunEmpty == ASSUME NEW s, NEW first \in Int PROVE ValuesAt(s, first, first - 1) = <<>>
<1>1. 1..((first - 1) - first + 1) = {}
  BY SMT
<1> QED
  BY <1>1 DEF ValuesAt

\* add sp, sp, #16: the slots below keep their values.
LEMMA PopFacts ==
    ASSUME IInv, Running, NEW n \in Nat, n <= pc.locals + pc.temps, stack' = SubSeq(stack, 1, sp - n)
    PROVE  /\ stack' \in Seq(Slots) /\ Len(stack') = sp - n
           /\ \A k \in 1..(sp - n) : stack'[k] = stack[k]
           /\ fp <= sp - n /\ Base <= sp - n
           /\ \A k \in 1..fp : stack'[k] = stack[k]
<1>1. /\ stack \in Seq(Slots) /\ Len(stack) = sp /\ sp - n \in Nat /\ sp - n <= sp
      /\ fp \in Nat /\ Base <= sp - n /\ fp <= sp - n
  <2> DEFINE l == pc.locals
             t == pc.temps
  <2>1. /\ stack \in Seq(Slots) /\ Len(stack) = sp /\ fp \in Nat /\ Base \in Nat /\ Base > fp
        /\ l \in Nat /\ t \in Nat /\ sp = Base + l + t /\ n <= l + t
    BY Layout
  <2> HIDE DEF l, t
  <2> QED
    BY <2>1
<1>2. /\ stack' \in Seq(Slots) /\ Len(stack') = sp - n /\ \A k \in 1..(sp - n) : stack'[k] = stack[k]
  <2> DEFINE m == sp - n
  <2>1. m \in Nat /\ m <= Len(stack) /\ stack \in Seq(Slots) /\ stack' = SubSeq(stack, 1, m)
    BY <1>1
  <2> HIDE DEF m
  <2>2. /\ SubSeq(stack, 1, m) \in Seq(Slots) /\ Len(SubSeq(stack, 1, m)) = m
        /\ \A k \in 1..m : SubSeq(stack, 1, m)[k] = stack[k]
    BY <2>1, Cut
  <2>3. stack' \in Seq(Slots) /\ Len(stack') = m /\ \A k \in 1..m : stack'[k] = stack[k]
    BY <2>1, <2>2, Zenon
  <2> QED
    BY <2>3 DEF m
<1> QED
  BY <1>1, <1>2

\* At the end of its block the newest local goes.
LEMMA EndScopeRefines == ASSUME IInv, IInv', ScriptLocals = FALSE, EndScope PROVE Lox!EndScope
<1> DEFINE l == pc.locals
           b == Base
<1>1. /\ Running /\ pc.temps = 0 /\ l > 0 /\ pc' = Advance(-1, 0) /\ stack' = SubSeq(stack, 1, sp - 1)
      /\ fp' = fp /\ result' = result
  BY DEF EndScope, InFrame
<1>2. /\ stack \in Seq(Slots) /\ fp \in Nat /\ b \in Nat /\ b > fp /\ l \in Nat
      /\ pc \in Points /\ sp = b + l /\ Run(stack, b + 1, b + l)
  BY <1>1, Layout
<1>3. pc' \in Points /\ pc'.fn = pc.fn /\ pc'.locals = l - 1 /\ pc'.temps = 0
  <2>1. l + (-1) \in 0..MaxLocals /\ pc.temps + 0 \in 0..MaxTemps /\ l + (-1) = l - 1 /\ -1 \in Int
    BY <1>1, <1>2, BoundTypes DEF Points
  <2> QED
    BY <1>1, <1>2, <2>1, AdvanceType
<1>4. Running'
  BY <1>3, PointIsRunning DEF Running
<1>5. /\ stack' \in Seq(Slots) /\ Len(stack') = sp - 1 /\ fp <= Len(stack')
      /\ \A k \in 1..(sp - 1) : stack'[k] = stack[k]
  <2>1. 1 \in Nat /\ 1 <= pc.locals + pc.temps
    BY <1>1, <1>2
  <2> QED
    BY <1>1, <2>1, PopFacts
<1>6. \A k \in 1..fp : stack'[k] = stack[k]
  BY <1>2, <1>5
<1> HIDE DEF b, l
<1>7. ValuesAt(stack', b + 1, b + (l - 1)) = SubSeq(LocalsNow, 1, l - 1)
  <2> DEFINE first == b + 1
             m == b + (l - 1)
             last == b + l
             k == l - 1
  <2>1. /\ first \in Int /\ m \in Int /\ first <= first /\ first <= m + 1 /\ m <= last /\ m <= Len(stack')
        /\ Run(stack, first, last) /\ 1 = first - first + 1 /\ k = m - first + 1 /\ k \in Int
        /\ \A i \in first..m : stack'[i] = stack[i]
    BY <1>1, <1>2, <1>5
  <2>2. LocalsNow = ValuesAt(stack, first, last)
    BY DEF LocalsNow, b, l
  <2> HIDE DEF first, m, last, k
  <2>3. ValuesAt(stack', first, m) = SubSeq(ValuesAt(stack, first, last), 1, k)
    <3>1. PartOf(stack, stack', first, last, first, m, 1, k)
      BY <1>5, <2>1 DEF PartOf
    <3> QED
      BY <3>1, RunPart
  <2>4. ValuesAt(stack', first, m) = SubSeq(LocalsNow, 1, k)
    BY <2>2, <2>3
  <2> QED
    BY <2>4 DEF first, m, k
<1>8. ValuesAt(stack', b + (l - 1) + 1, b + (l - 1) + 0) = <<>>
  <2>1. b + (l - 1) + 1 \in Int /\ b + (l - 1) + 0 = (b + (l - 1) + 1) - 1
    BY <1>2
  <2> QED
    BY <2>1, RunEmpty
<1>9. Lox!Become(Act(pc.fn, ArgsNow, SubSeq(LocalsNow, 1, l - 1), <<>>))
  BY <1>1, <1>3, <1>4, <1>5, <1>6, <1>7, <1>8, ArgsKept, BecomesAct DEF b
<1>10. /\ Lox!Current = Act(pc.fn, ArgsNow, LocalsNow, TempsNow) /\ Len(LocalsNow) = l
       /\ Len(TempsNow) = 0 /\ TempsNow \in Seq(Words)
  BY <1>1, CurrentIs DEF l
<1>11. TempsNow = <<>> /\ LocalsNow # <<>>
  BY <1>1, <1>10
<1>12. [Lox!Current EXCEPT !.locals = SubSeq(@, 1, Len(@) - 1)]
          = Act(pc.fn, ArgsNow, SubSeq(LocalsNow, 1, l - 1), <<>>)
  <2>1. Lox!Current = Act(pc.fn, ArgsNow, LocalsNow, <<>>)
    BY <1>10, <1>11
  <2>2. [Act(pc.fn, ArgsNow, LocalsNow, <<>>) EXCEPT !.locals = SubSeq(@, 1, Len(@) - 1)]
           = Act(pc.fn, ArgsNow, SubSeq(LocalsNow, 1, Len(LocalsNow) - 1), <<>>)
    BY DEF Act
  <2> QED
    BY <1>10, <2>1, <2>2, Zenon
<1> QED
  BY <1>1, <1>9, <1>11, <1>12, CurrentIs DEF Lox!EndScope

\* The value of an expression statement, of a print or of a condition goes.
LEMMA DiscardRefines == ASSUME IInv, IInv', ScriptLocals = FALSE, Discard PROVE Lox!Discard
<1> DEFINE l == pc.locals
           b == Base
<1>1. /\ Running /\ pc.temps = 1 /\ pc' = Advance(0, -1) /\ stack' = SubSeq(stack, 1, sp - 1)
      /\ fp' = fp /\ result' = result
  BY DEF Discard, HasTemps, InFrame
<1>2. /\ stack \in Seq(Slots) /\ fp \in Nat /\ b \in Nat /\ b > fp /\ l \in Nat
      /\ pc \in Points /\ sp = b + l + 1 /\ Run(stack, b + 1, b + l)
  BY <1>1, Layout
<1>3. pc' \in Points /\ pc'.fn = pc.fn /\ pc'.locals = l /\ pc'.temps = 0
  <2>1. l + 0 \in 0..MaxLocals /\ pc.temps + (-1) \in 0..MaxTemps /\ pc.temps + (-1) = 0 /\ l + 0 = l /\ -1 \in Int
    BY <1>1, <1>2, BoundTypes DEF Points
  <2> QED
    BY <1>1, <1>2, <2>1, AdvanceType
<1>4. Running'
  BY <1>3, PointIsRunning DEF Running
<1>5. /\ stack' \in Seq(Slots) /\ Len(stack') = sp - 1 /\ fp <= Len(stack')
      /\ \A k \in 1..(sp - 1) : stack'[k] = stack[k]
  <2>1. 1 \in Nat /\ 1 <= pc.locals + pc.temps
    BY <1>1, <1>2
  <2> QED
    BY <1>1, <2>1, PopFacts
<1> HIDE DEF b, l
<1>6. \A k \in 1..fp : stack'[k] = stack[k]
  BY <1>2, <1>5
<1>7. ValuesAt(stack', b + 1, b + l) = LocalsNow
  <2>1. b + l <= Len(stack') /\ \A k \in (b + 1)..(b + l) : stack'[k] = stack[k]
    BY <1>2, <1>5
  <2>2. ValuesAt(stack', b + 1, b + l) = ValuesAt(stack, b + 1, b + l)
    BY <1>2, <1>5, <2>1, RunKept
  <2> QED
    BY <2>2 DEF LocalsNow, b, l
<1>8. ValuesAt(stack', b + l + 1, b + l + 0) = <<>>
  <2>1. b + l + 1 \in Int /\ b + l + 0 = (b + l + 1) - 1
    BY <1>2
  <2> QED
    BY <2>1, RunEmpty
<1>9. Lox!Become(Act(pc.fn, ArgsNow, LocalsNow, <<>>))
  BY <1>1, <1>3, <1>4, <1>5, <1>6, <1>7, <1>8, ArgsKept, BecomesAct DEF b, l
<1>10. Len(TempsNow) = 1 /\ SubSeq(TempsNow, 1, Len(TempsNow) - 1) = <<>>
  <2>1. Len(TempsNow) = pc.temps
    BY <1>1, CurrentIs, Zenon
  <2>2. Len(TempsNow) = 1 /\ Len(TempsNow) - 1 < 1 /\ Len(TempsNow) - 1 \in Int
    BY <1>1, <2>1
  <2> QED
    BY <2>2, SubSeqEmpty
<1>11. Lox!Drop(Lox!Current, 1) = Act(pc.fn, ArgsNow, LocalsNow, <<>>)
  <2>1. Lox!Current = Act(pc.fn, ArgsNow, LocalsNow, TempsNow)
    BY <1>1, CurrentIs
  <2>2. Lox!Drop(Act(pc.fn, ArgsNow, LocalsNow, TempsNow), 1)
           = Act(pc.fn, ArgsNow, LocalsNow, SubSeq(TempsNow, 1, Len(TempsNow) - 1))
    BY ActOperations
  <2> QED
    BY <1>10, <2>1, <2>2
<1>12. Lox!Running /\ Lox!Current.temps # <<>>
  BY <1>1, CurrentIs, TopIs
<1> QED
  BY <1>9, <1>11, <1>12 DEF Lox!Discard

\* A handler of n operands leaves its result in the place of the first.
LEMMA OperateRefines ==
    ASSUME IInv, IInv', ScriptLocals = FALSE, NEW n \in 1..2, Operate(n) PROVE Lox!Operate
<1> DEFINE l == pc.locals
           t == pc.temps
           b == Base
           m == sp - n
           cut == SubSeq(stack, 1, m)
<1>1. PICK v \in Plain : stack' = Append(SubSeq(stack, 1, sp - n), Value(v))
  BY DEF Operate
<1>2. /\ Running /\ t >= n /\ pc' = Advance(0, 1 - n) /\ fp' = fp /\ result' = result /\ n \in Nat
  BY DEF Operate, HasTemps, InFrame
<1>3. /\ stack \in Seq(Slots) /\ fp \in Nat /\ b \in Nat /\ b > fp /\ l \in Nat /\ t \in Nat
      /\ pc \in Points /\ sp = b + l + t /\ sp = Len(stack)
      /\ Run(stack, b + 1, b + l) /\ Run(stack, b + l + 1, b + l + t)
  BY <1>2, Layout
<1>4. pc' \in Points /\ pc'.fn = pc.fn /\ pc'.locals = l /\ pc'.temps = t + (1 - n)
  <2>1. l + 0 \in 0..MaxLocals /\ t + (1 - n) \in 0..MaxTemps /\ l + 0 = l /\ 1 - n \in Int
    BY <1>2, <1>3, BoundTypes DEF Points
  <2> QED
    BY <1>2, <1>3, <2>1, AdvanceType
<1>5. Running'
  BY <1>4, PointIsRunning DEF Running
<1>6. m \in Nat /\ m <= Len(stack) /\ m = b + l + (t - n)
  <2>1. m = sp - n /\ sp \in Nat /\ n \in Nat /\ n <= t
    BY <1>2, <1>3, Layout
  <2> HIDE DEF m, b, l, t
  <2> QED
    BY <1>3, <2>1
<1> HIDE DEF b, l, t, m
<1>7. cut \in Seq(Slots) /\ Len(cut) = m /\ \A k \in 1..m : cut[k] = stack[k]
  BY <1>3, <1>6, Cut
<1>8. stack' = Append(cut, Value(v)) /\ v \in Values
  BY <1>1 DEF m, Values
<1> HIDE DEF cut
<1>9. /\ stack' \in Seq(Slots) /\ Len(stack') = m + 1 /\ stack'[m + 1] = Value(v)
      /\ \A k \in 1..m : stack'[k] = cut[k]
  BY <1>7, <1>8, Pushed
<1>10. \A k \in 1..m : stack'[k] = stack[k]
  BY <1>7, <1>9
<1>11. fp <= Len(stack') /\ \A k \in 1..fp : stack'[k] = stack[k]
  BY <1>2, <1>3, <1>6, <1>9, <1>10
<1>12. ValuesAt(stack', b + 1, b + l) = LocalsNow
  <2> DEFINE first == b + 1
             last == b + l
  <2>1. last <= Len(stack') /\ \A k \in first..last : stack'[k] = stack[k]
    <3>1. last <= m /\ first \in Int /\ last \in Int /\ first >= 1 /\ m \in Nat
      BY <1>2, <1>3, <1>6
    <3> QED
      BY <1>9, <1>10, <3>1
  <2>2. Run(stack, first, last) /\ stack' \in Seq(Slots)
    BY <1>2, <1>3, <1>9
  <2> HIDE DEF first, last
  <2>3. ValuesAt(stack', first, last) = ValuesAt(stack, first, last)
    BY <2>1, <2>2, RunKept
  <2> QED
    BY <2>3 DEF LocalsNow, b, l, first, last
<1>13. ValuesAt(stack', b + l + 1, b + l + (t + (1 - n))) = Append(SubSeq(TempsNow, 1, t - n), v)
  <2> DEFINE first == b + l + 1
             last == b + l + t
  <2>1. /\ first \in Int /\ m \in Int /\ first <= first /\ first <= m + 1 /\ m <= last /\ m <= Len(cut)
        /\ Run(stack, first, last)
        /\ 1 = first - first + 1 /\ t - n = m - first + 1 /\ m + 1 <= Len(stack')
        /\ b + l + (t + (1 - n)) = m + 1 /\ first >= 1 /\ t - n \in Int
        /\ \A k \in first..m : cut[k] = stack[k]
    BY <1>2, <1>3, <1>6, <1>7, <1>9
  <2>8. \A k \in first..m : stack'[k] = cut[k]
    BY <1>2, <1>3, <1>6, <1>7, <1>9
  <2>2. TempsNow = ValuesAt(stack, first, last)
    BY DEF TempsNow, b, l, t
  <2> HIDE DEF first, last
  <2>3. ValuesAt(cut, first, m) = SubSeq(ValuesAt(stack, first, last), 1, t - n)
    <3>1. PartOf(stack, cut, first, last, first, m, 1, t - n)
      BY <1>7, <2>1 DEF PartOf
    <3> QED
      BY <3>1, RunPart
  <2>4. ValuesAt(cut, first, m) = SubSeq(TempsNow, 1, t - n)
    BY <2>2, <2>3
  <2>5. Run(cut, first, m)
    BY <1>7, <2>1 DEF Run
  <2>6. ValuesAt(stack', first, m + 1) = Append(ValuesAt(cut, first, m), v)
    <3>1. stack' \in Seq(Slots) /\ m + 1 <= Len(stack') /\ v \in Values /\ stack'[m + 1] = Value(v)
      BY <1>8, <1>9, <2>1
    <3> QED
      BY <2>5, <2>8, <3>1, RunAppend
  <2>7. ValuesAt(stack', first, b + l + (t + (1 - n))) = Append(SubSeq(TempsNow, 1, t - n), v)
    BY <2>1, <2>4, <2>6
  <2> QED
    BY <2>7 DEF first
<1>14. Lox!Become(Act(pc.fn, ArgsNow, LocalsNow, Append(SubSeq(TempsNow, 1, t - n), v)))
  BY <1>2, <1>4, <1>5, <1>9, <1>11, <1>12, <1>13, ArgsKept, BecomesAct DEF b, l, t
<1>15. /\ Lox!Current = Act(pc.fn, ArgsNow, LocalsNow, TempsNow) /\ Len(TempsNow) = t
       /\ Lox!Running /\ Lox!Current.temps = TempsNow
  BY <1>2, CurrentIs DEF t
<1>16. Lox!Push(Lox!Drop(Lox!Current, n), v)
          = Act(pc.fn, ArgsNow, LocalsNow, Append(SubSeq(TempsNow, 1, t - n), v))
  <2>1. Lox!Drop(Act(pc.fn, ArgsNow, LocalsNow, TempsNow), n)
           = Act(pc.fn, ArgsNow, LocalsNow, SubSeq(TempsNow, 1, Len(TempsNow) - n))
    BY ActOperations
  <2>2. Lox!Push(Act(pc.fn, ArgsNow, LocalsNow, SubSeq(TempsNow, 1, t - n)), v)
           = Act(pc.fn, ArgsNow, LocalsNow, Append(SubSeq(TempsNow, 1, t - n), v))
    BY ActOperations
  <2> QED
    BY <1>15, <2>1, <2>2
<1> QED
  BY <1>2, <1>14, <1>15, <1>16 DEF Lox!Operate

\* op_set_global changes nothing that LoxCalls sees.
LEMMA UnseenStep ==
    ASSUME UNCHANGED <<stack, fp, pc, result>>
    PROVE  UNCHANGED Lox!vars
<1>1. Activations' = Activations
  BY DEF Activations, Running, CallersOf, ActivationAt, ValuesAt, ReadFrom, FrameSlots
<1> QED
  BY <1>1 DEF Lox!vars

\* A call splits the temporaries of the caller: its arguments are the newest,
\* the callee is below them and the rest waits for the result.
LEMMA CallRefines == ASSUME IInv, IInv', ScriptLocals = FALSE, Call PROVE Lox!Call
<1>1. PICK n \in 0..(pc.temps - 1) :
         LET callee == Read(sp - n)
         IN  /\ Callable(callee, n)
             /\ stack' = stack \o << Frame(fp, Advance(0, -n)), Spill(closure, constants) >>
             /\ fp' = sp + 1
             /\ closure' = callee /\ constants' = callee
             /\ acc' = Junk
             /\ pc' = [fn |-> callee, locals |-> 0, temps |-> 0]
             /\ UNCHANGED <<optable, result>>
  BY DEF Call
<1> DEFINE l == pc.locals
           t == pc.temps
           b == Base
           g == pc.fn
           h == Read(sp - n)
           lr == Advance(0, -n)
           i == sp + 1
           C == CallersOf(stack)[fp]
<1>2. /\ Running /\ n \in 0..(t - 1) /\ Callable(h, n) /\ fp' = i /\ result' = result
      /\ stack' = stack \o << Frame(fp, lr), Spill(closure, constants) >>
      /\ pc' = [fn |-> h, locals |-> 0, temps |-> 0]
  BY <1>1 DEF Call
<1>3. /\ stack \in Seq(Slots) /\ fp \in Nat /\ b \in Nat /\ b > fp /\ l \in Nat /\ t \in Nat
      /\ pc \in Points /\ sp = b + l + t /\ sp = Len(stack) /\ sp \in Nat
      /\ Run(stack, b + 1, b + l) /\ Run(stack, b + l + 1, b + l + t)
  BY <1>2, Layout
<1> HIDE DEF l, t, b, g, h
<1>4. n \in Nat /\ n <= t - 1 /\ t - n \in 1..t /\ b + l + (t - n) = sp - n
  BY <1>2, <1>3
<1>5. h \in Functions /\ Arity[h] = n
  <2>1. sp - n \in Nat /\ sp - n <= sp /\ sp - n > b
    BY <1>3, <1>4
  <2>2. h \in Values
    BY <1>2, <2>1, OwnSlot DEF Base, b, h
  <2> QED
    BY <1>2, <2>2, FramesAssumption DEF Callable, Callables, Values
<1>6. lr \in Points /\ lr.fn = g /\ lr.locals = l /\ lr.temps = t - n
  <2>1. l + 0 \in 0..MaxLocals /\ t + (-n) \in 0..MaxTemps /\ -n \in Int /\ l + 0 = l /\ t + (-n) = t - n
    <3>1. l \in 0..MaxLocals /\ t \in 0..MaxTemps
      BY <1>3 DEF Points, l, t
    <3> QED
      BY <1>3, <1>4, <3>1, BoundTypes
  <2> QED
    BY <1>3, <2>1, AdvanceType DEF g, l, t
<1>7. pc' \in Points /\ pc'.fn = h /\ pc'.locals = 0 /\ pc'.temps = 0
  BY <1>2, <1>5, BoundTypes DEF Points, Callables
<1>8. Running'
  BY <1>7, PointIsRunning DEF Running
<1>9. stack' \in Seq(Slots) /\ i \in Nat /\ WellFramed(stack', i, h)
  BY <1>2, <1>7, <1>8, NextRunning
<1> HIDE DEF lr
<1>10. Len(stack') = sp + 2 /\ (\A k \in 1..sp : stack'[k] = stack[k]) /\ stack'[i] = Frame(fp, lr)
  <2> DEFINE x == Frame(fp, lr)
             y == Spill(closure, constants)
             s == stack
             m == Len(s)
  <2>1. stack' = s \o <<x, y>> /\ s \in Seq(Slots)
    BY <1>2, <1>3
  <2> HIDE DEF x, y, s
  <2>2. Len(stack') = m + 2 /\ (\A k \in 1..m : stack'[k] = s[k]) /\ stack'[m + 1] = x
    BY <2>1
  <2> QED
    BY <1>3, <2>2 DEF x, s
<1>11. i \in FrameSlots(stack') /\ ~(i <= ScriptFrame) /\ stack'[i].fp = fp /\ stack'[i].lr = lr
  <2>1. stack'[i].kind = "frame" /\ stack'[i].fp = fp /\ stack'[i].lr = lr
    BY <1>10 DEF Frame
  <2>2. i \in DOMAIN stack' /\ i \in Nat
    <3>1. i \in 1..Len(stack')
      <4> DEFINE m == sp
      <4>1. m \in Nat /\ Len(stack') = m + 2
        BY <1>3, <1>10
      <4> HIDE DEF m
      <4>2. m + 1 \in 1..Len(stack')
        BY <4>1
      <4> QED
        BY <4>2 DEF m
    <3> QED
      BY <1>9, <3>1
  <2>3. i > 3
    <3>1. fp >= 3
      BY <1>2, CurrentFits, FitsFacts
    <3> QED
      BY <1>3, <3>1
  <2> QED
    <3> HIDE DEF i
    <3> QED
      BY <2>1, <2>2, <2>3 DEF FrameSlots, ScriptFrame
<1>12. fp \in FrameSlots(stack) /\ WellFramed(stack, fp, g) /\ fp <= sp
  BY <1>2, <1>3, RunningFacts DEF WellFramed, FrameSlots, g
<1>13. CallersOf(stack')[fp] = C
  <2> DEFINE m == sp
  <2>1. m \in Nat /\ m <= Len(stack) /\ m <= Len(stack') /\ fp <= m /\ \A k \in 1..m : stack'[k] = stack[k]
    BY <1>3, <1>10, <1>12
  <2> HIDE DEF m
  <2> QED
    BY <1>3, <1>9, <1>12, <2>1, CallersKept
<1>14. CallersOf(stack')[i] = Append(C, CallerAt(stack', i))
  BY <1>9, <1>11, <1>13, CallersUnfold
<1> DEFINE waiting == Act(g, ArgsNow, LocalsNow, SubSeq(TempsNow, 1, t - (n + 1)))
           args == SubSeq(TempsNow, t - n + 1, t)
<1>15. fp <= Len(stack') /\ \A k \in 1..fp : stack'[k] = stack[k]
  BY <1>3, <1>10, <1>12
<1>16. CallerAt(stack', i) = waiting
  <2>1. ValuesAt(stack', fp - Arity[g], fp - 1) = ArgsNow
    BY <1>2, <1>9, <1>15, ArgsKept DEF g
  <2>2. ValuesAt(stack', b + 1, b + l) = LocalsNow
    <3>1. b + l <= Len(stack') /\ \A k \in (b + 1)..(b + l) : stack'[k] = stack[k]
      BY <1>3, <1>10
    <3>2. ValuesAt(stack', b + 1, b + l) = ValuesAt(stack, b + 1, b + l)
      BY <1>3, <1>9, <3>1, RunKept
    <3> QED
      BY <3>2 DEF LocalsNow, b, l
  <2>3. ValuesAt(stack', b + l + 1, b + l + (t - n - 1)) = SubSeq(TempsNow, 1, t - (n + 1))
    <3> DEFINE first == b + l + 1
               last == b + l + t
               m == b + l + (t - n - 1)
               e == t - (n + 1)
    <3>1. /\ first \in Int /\ m \in Int /\ first <= first /\ first <= m + 1 /\ m <= last /\ m <= Len(stack')
          /\ Run(stack, first, last) /\ 1 = first - first + 1 /\ e = m - first + 1 /\ e \in Int
          /\ \A k \in first..m : stack'[k] = stack[k]
      BY <1>3, <1>4, <1>10
    <3>2. TempsNow = ValuesAt(stack, first, last)
      BY DEF TempsNow, b, l, t
    <3> HIDE DEF first, m, last, e
    <3>3. ValuesAt(stack', first, m) = SubSeq(ValuesAt(stack, first, last), 1, e)
      <4>1. PartOf(stack, stack', first, last, first, m, 1, e)
        BY <1>9, <3>1 DEF PartOf
      <4> QED
        BY <4>1, RunPart
    <3> QED
      BY <3>2, <3>3 DEF first, m, e
  <2>4. SpillCount(g) + fp = b /\ fp + SpillCount(g) = b
    BY <1>3, CurrentFits, FitsFacts, <1>2 DEF Base, b, g
  <2>5. ActivationAt(stack', fp, lr, t - n - 1) = waiting
    BY <1>6, <2>1, <2>2, <2>3, <2>4, Zenon DEF ActivationAt, Act
  <2> QED
    BY <1>6, <1>11, <2>5 DEF CallerAt
<1>17. ActivationAt(stack', i, pc', 0) = Act(h, args, <<>>, <<>>)
  <2>1. ValuesAt(stack', i - Arity[h], i - 1) = args
    <3> DEFINE first == b + l + 1
               last == b + l + t
               p == i - n
               q == i - 1
               a == t - n + 1
    <3>1. /\ p \in Int /\ q \in Int /\ first <= p /\ p <= q + 1 /\ q <= last /\ q <= Len(stack')
          /\ Run(stack, first, last) /\ a = p - first + 1 /\ t = q - first + 1 /\ a \in Int /\ t \in Int
          /\ \A k \in p..q : stack'[k] = stack[k]
      BY <1>3, <1>4, <1>10, SMTT(30)
    <3>2. TempsNow = ValuesAt(stack, first, last)
      BY DEF TempsNow, b, l, t
    <3> HIDE DEF first, last, p, q, a
    <3>3. ValuesAt(stack', p, q) = SubSeq(ValuesAt(stack, first, last), a, t)
      <4>1. PartOf(stack, stack', first, last, p, q, a, t)
        BY <1>9, <3>1 DEF PartOf
      <4> QED
        BY <4>1, RunPart
    <3> QED
      BY <1>5, <3>2, <3>3 DEF p, q, a
  <2>2. /\ ValuesAt(stack', i + SpillCount(h) + 1, i + SpillCount(h) + 0) = <<>>
        /\ ValuesAt(stack', i + SpillCount(h) + 0 + 1, i + SpillCount(h) + 0 + 0) = <<>>
    <3> DEFINE x == i + SpillCount(h)
    <3>1. x \in Int
      BY <1>9 DEF SpillCount, FUNCTION_STACK_SPILL
    <3> HIDE DEF x
    <3>2. x + 1 \in Int /\ x + 0 = (x + 1) - 1 /\ x + 0 + 1 = x + 1 /\ x + 0 + 0 = (x + 1) - 1
      BY <3>1
    <3>3. ValuesAt(stack', x + 1, x + 0) = <<>> /\ ValuesAt(stack', x + 0 + 1, x + 0 + 0) = <<>>
      BY <3>2, RunEmpty
    <3> QED
      BY <3>3 DEF x
  <2> HIDE DEF i, args
  <2> QED
    BY <1>7, <2>1, <2>2, Zenon DEF ActivationAt, Act
<1>18. Activations' = Append(Append(C, waiting), Act(h, args, <<>>, <<>>))
  <2>1. Activations' = Append(CallersOf(stack')[fp'], ActivationAt(stack', fp', pc', pc'.temps))
    BY <1>8 DEF Activations
  <2> QED
    BY <1>2, <1>7, <1>14, <1>16, <1>17, <2>1
<1>19. /\ Lox!Running /\ Lox!Callers = C /\ C \in Seq(ActivationSet)
       /\ Lox!Current = Act(g, ArgsNow, LocalsNow, TempsNow) /\ Lox!Current.temps = TempsNow
       /\ TempsNow \in Seq(Words) /\ Len(TempsNow) = t
  BY <1>2, CurrentIs, CallsOfRunning DEF g, t
<1>20. Lox!Drop(Lox!Current, n + 1) = waiting
  <2>1. Lox!Drop(Act(g, ArgsNow, LocalsNow, TempsNow), n + 1)
           = Act(g, ArgsNow, LocalsNow, SubSeq(TempsNow, 1, Len(TempsNow) - (n + 1)))
    BY ActOperations
  <2> QED
    BY <1>19, <2>1
<1>21. TempsNow[t - n] = h
  <2>1. TempsNow[t - n] = Read(Base + pc.locals + (t - n))
    BY <1>2, <1>4, CurrentIs DEF t
  <2> QED
    BY <1>4, <2>1 DEF b, l, h
<1>22. Lox!Activation(h, args) = Act(h, args, <<>>, <<>>)
  BY DEF Lox!Activation, Act
<1> HIDE DEF waiting, args, C
<1>23. Activations' = C \o <<waiting, Act(h, args, <<>>, <<>>)>>
  <2> DEFINE A == ActivationSet \cup {waiting, Act(h, args, <<>>, <<>>)}
             y == Act(h, args, <<>>, <<>>)
  <2>1. C \in Seq(A) /\ waiting \in A /\ y \in A
    <3>1. \A k \in 1..Len(C) : C[k] \in A
      BY <1>19
    <3> QED
      BY <1>19, <3>1
  <2> HIDE DEF A, y
  <2>2. Append(Append(C, waiting), y) = C \o <<waiting, y>>
    BY <2>1
  <2> QED
    BY <1>18, <2>2 DEF y
<1>24. n \in 0..(Len(Lox!Current.temps) - 1)
  BY <1>4, <1>19, <1>3
<1> QED
  BY <1>2, <1>5, <1>19, <1>20, <1>21, <1>22, <1>23, <1>24 DEF Lox!Call, args

\* The caller's activation with the result on top.
LEMMA ActivationPushed ==
    ASSUME NEW s, NEW i, NEW pt, NEW t, Fits(s, i, pt, t), NEW v \in Values, NEW u \in Seq(Slots),
           NEW m, m = i + SpillCount(pt.fn) + pt.locals + t, m + 1 <= Len(u),
           \A k \in 1..m : u[k] = s[k], u[m + 1] = Value(v)
    PROVE  ActivationAt(u, i, pt, t + 1) = Lox!Push(ActivationAt(s, i, pt, t), v)
<1> DEFINE base == i + SpillCount(pt.fn)
           a == Arity[pt.fn]
           l == pt.locals
           args == ValuesAt(s, i - a, i - 1)
           locals == ValuesAt(s, base + 1, base + l)
           temps == ValuesAt(s, base + l + 1, base + l + t)
<1>1. /\ Run(s, i - a, i - 1) /\ Run(s, base + 1, base + l) /\ Run(s, base + l + 1, base + l + t)
  BY FitsRuns
<1>2. /\ i \in Nat /\ i - a >= 1 /\ a \in Nat /\ base \in Nat /\ base > i /\ l \in Nat /\ t \in Nat
      /\ m = base + l + t /\ m + 1 <= Len(u) /\ Len(u) \in Nat /\ \A k \in 1..m : u[k] = s[k]
  BY FitsFacts
<1> HIDE DEF base, a, l, args, locals, temps
<1>3. i - 1 <= Len(u) /\ \A k \in (i - a)..(i - 1) : u[k] = s[k]
  BY <1>2
<1>4. base + l <= Len(u) /\ \A k \in (base + 1)..(base + l) : u[k] = s[k]
  BY <1>2
<1>5. /\ (base + l + t) + 1 <= Len(u) /\ u[(base + l + t) + 1] = Value(v)
      /\ \A k \in (base + l + 1)..(base + l + t) : u[k] = s[k]
  BY <1>2
<1>6. ValuesAt(u, i - a, i - 1) = args
  BY <1>1, <1>3, RunKept DEF args
<1>7. ValuesAt(u, base + 1, base + l) = locals
  BY <1>1, <1>4, RunKept DEF locals
<1>8. ValuesAt(u, base + l + 1, base + l + (t + 1)) = Append(temps, v)
  <2>1. ValuesAt(u, base + l + 1, (base + l + t) + 1) = Append(temps, v)
    BY <1>1, <1>5, RunAppend DEF temps
  <2>2. (base + l + t) + 1 = base + l + (t + 1)
    BY <1>2
  <2> QED
    BY <2>1, <2>2
<1>9. ActivationAt(u, i, pt, t + 1) = Act(pt.fn, args, locals, Append(temps, v))
  BY <1>6, <1>7, <1>8, Zenon DEF ActivationAt, Act, base, a, l
<1>10. ActivationAt(s, i, pt, t) = Act(pt.fn, args, locals, temps)
  BY DEF ActivationAt, Act, base, a, l, args, locals, temps
<1> QED
  BY <1>9, <1>10, ActOperations

\* Looking at a sequence from its end.
LEMMA TwoOnTop ==
    ASSUME NEW S, NEW C \in Seq(S), NEW x \in S, NEW y \in S,
           NEW q, q = Append(Append(C, x), y)
    PROVE  Len(q) > 1 /\ q[Len(q) - 1] = x /\ SubSeq(q, 1, Len(q) - 2) = C
<1>1. /\ q \in Seq(S) /\ Len(q) = Len(C) + 2 /\ Len(C) \in Nat /\ q[Len(C) + 1] = x
      /\ \A k \in 1..Len(C) : q[k] = C[k]
  OBVIOUS
<1>2. SubSeq(q, 1, Len(C)) = C
  <2> DEFINE c == SubSeq(q, 1, Len(C))
  <2>1. \A k \in 1..Len(C) : q[k] \in S
    BY <1>1
  <2>2. Len(C) - 1 + 1 = Len(C)
    BY <1>1
  <2>3. c \in Seq(S) /\ Len(c) = Len(C) /\ \A k \in 1..Len(C) : c[k] = q[k]
    BY <1>1, <2>1, <2>2, SubSeqProperties
  <2> HIDE DEF c
  <2>4. c = C
    BY <1>1, <2>3, SeqEqual
  <2> QED
    BY <2>4 DEF c
<1>3. Len(q) - 1 = Len(C) + 1 /\ Len(q) - 2 = Len(C) /\ Len(q) > 1
  BY <1>1
<1> QED
  BY <1>1, <1>2, <1>3, Zenon

\* A return drops the running activation and pushes the result in the caller's,
\* whose variables are as the call left them.
LEMMA ReturnValueRefines ==
    ASSUME IInv, IInv', ScriptLocals = FALSE, Running, pc.fn # Script, NEW v \in Values, OpReturn(v)
    PROVE  Lox!ReturnValue(v)
<1> DEFINE p == stack[fp].fp
           lr == stack[fp].lr
           t == lr.temps - 1
           m == fp - Arity[pc.fn] - 2
           C == CallersOf(stack)[p]
           W == CallerAt(stack, fp)
<1>1. /\ stack' = Append(SubSeq(stack, 1, m), Value(v))
      /\ fp' = p /\ pc' = lr /\ result' = result
  BY RunningFacts DEF OpReturn
<1>2. /\ stack \in Seq(Slots) /\ fp \in Nat /\ fp \in FrameSlots(stack)
      /\ WellFramed(stack, fp, pc.fn) /\ CallOf(stack, fp, pc.fn) /\ fp > ScriptFrame /\ ~(fp <= ScriptFrame)
  <2>1. CallOf(stack, fp, pc.fn)
    BY RunningFacts DEF FrameOf
  <2>2. fp > ScriptFrame /\ fp \in Nat
    BY <2>1, RunningFacts DEF CallOf
  <2> QED
    BY <2>1, <2>2, RunningFacts DEF ScriptFrame
<1>3. /\ p \in FrameSlots(stack) /\ p \in Nat /\ lr \in Points /\ lr.temps >= 1
      /\ FrameOf(stack, p, lr.fn) /\ fp <= Len(stack)
  BY <1>2, CallerFacts
<1>4. Fits(stack, p, lr, t) /\ m = p + SpillCount(lr.fn) + lr.locals + t /\ p < fp - Arity[pc.fn] - 1
  BY <1>2, <1>3, CallerFits
<1>5. Running' /\ t \in Nat /\ t + 1 = lr.temps
  <2>1. lr.temps \in Nat
    BY <1>3, BoundTypes DEF Points
  <2> QED
    BY <1>1, <1>3, <2>1, PointIsRunning DEF Running
<1>6. stack' \in Seq(Slots) /\ WellFramed(stack', p, lr.fn)
  BY <1>1, <1>5, NextRunning
<1>7. CallersOf(stack)[fp] = Append(C, W) /\ C \in Seq(ActivationSet)
  <2>1. fp > 3
    BY <1>2 DEF ScriptFrame
  <2> QED
    BY <1>2, <1>3, CallersUnfold
<1>8. m \in Nat /\ m <= Len(stack) /\ p <= m
  <2> DEFINE a == Arity[pc.fn]
  <2>1. a \in Nat /\ fp - a >= 1 /\ m = fp - a - 2 /\ p < fp - a - 1 /\ Len(stack) \in Nat
    BY <1>2, <1>4, Layout
  <2> HIDE DEF a, m, p
  <2> QED
    BY <1>2, <1>3, <2>1
<1> HIDE DEF p, lr, t, m, C, W
<1>9. /\ Len(stack') = m + 1 /\ stack'[m + 1] = Value(v) /\ \A k \in 1..m : stack'[k] = stack[k]
  <2> DEFINE cut == SubSeq(stack, 1, m)
  <2>1. cut \in Seq(Slots) /\ Len(cut) = m /\ \A k \in 1..m : cut[k] = stack[k]
    BY <1>2, <1>8, Cut
  <2>2. stack' = Append(cut, Value(v))
    BY <1>1
  <2> HIDE DEF cut
  <2>3. Len(stack') = m + 1 /\ stack'[m + 1] = Value(v) /\ \A k \in 1..m : stack'[k] = cut[k]
    BY <2>1, <2>2, Pushed
  <2> QED
    BY <2>1, <2>3
<1>10. CallersOf(stack')[p] = C
  <2>1. m <= Len(stack')
    BY <1>8, <1>9
  <2> QED
    BY <1>2, <1>3, <1>6, <1>8, <1>9, <2>1, CallersKept DEF C
<1>11. W = ActivationAt(stack, p, lr, t)
  BY DEF W, CallerAt, p, lr, t
<1>12. ActivationAt(stack', p, lr, lr.temps) = Lox!Push(W, v)
  <2>1. m + 1 <= Len(stack')
    BY <1>8, <1>9
  <2>2. ActivationAt(stack', p, lr, t + 1) = Lox!Push(ActivationAt(stack, p, lr, t), v)
    BY <1>4, <1>6, <1>9, <2>1, ActivationPushed
  <2> QED
    BY <1>5, <1>11, <2>2
<1>13. Activations' = Append(C, Lox!Push(W, v))
  <2>1. Activations' = Append(CallersOf(stack')[fp'], ActivationAt(stack', fp', pc', pc'.temps))
    BY <1>5 DEF Activations
  <2> QED
    BY <1>1, <1>10, <1>12, <2>1
<1>14. Activations = Append(Append(C, W), Now) /\ Now \in ActivationSet /\ W \in ActivationSet
  BY <1>4, <1>7, <1>11, CallsOfRunning, ActivationType
<1>15. /\ Len(Activations) > 1 /\ Activations[Len(Activations) - 1] = W
       /\ SubSeq(Activations, 1, Len(Activations) - 2) = C
  BY <1>7, <1>14, TwoOnTop
<1> QED
  BY <1>1, <1>13, <1>15 DEF Lox!ReturnValue

LEMMA ReturnRefines == ASSUME IInv, IInv', ScriptLocals = FALSE, Return PROVE Lox!Return
<1>1. Running /\ pc.fn # Script
  BY DEF Return
<1>2. CASE pc.temps = 1 /\ OpReturn(Read(sp))
  <2>1. /\ Lox!TopOf(Lox!Current) = Read(sp) /\ Read(sp) \in Values
        /\ Lox!Current.temps = TempsNow /\ Len(TempsNow) = pc.temps /\ Lox!Running
    BY <1>1, <1>2, TopIs, CurrentIs
  <2>2. Lox!ReturnValue(Read(sp))
    BY <1>1, <1>2, <2>1, ReturnValueRefines
  <2> QED
    BY <1>2, <2>1, <2>2 DEF Lox!Return
<1>3. CASE pc.temps = 0 /\ OpReturn(Nil)
  <2>1. /\ Lox!Current.temps = TempsNow /\ TempsNow \in Seq(Words) /\ Len(TempsNow) = pc.temps
        /\ Lox!Running
    BY <1>1, CurrentIs
  <2>2. Lox!Current.temps = <<>>
    BY <1>3, <2>1
  <2>3. Lox!ReturnValue(Nil)
    BY <1>1, <1>3, ReturnValueRefines DEF Values
  <2> QED
    BY <2>1, <2>2, <2>3 DEF Lox!Return
<1> QED
  BY <1>2, <1>3 DEF Return

\* interpret() enters the script, which has no variables yet.
LEMMA StartRefines == ASSUME IInv, IInv', Start PROVE Lox!Start
<1>1. /\ ~Running /\ fp' = 3 /\ pc' = [fn |-> Script, locals |-> 0, temps |-> 0] /\ result' = "none"
  BY DEF Start
<1>2. pc' \in Points /\ pc'.fn = Script /\ pc'.locals = 0 /\ pc'.temps = 0
  BY <1>1, BoundTypes DEF Points, Callables
<1>3. Running'
  BY <1>2, PointIsRunning DEF Running
<1>4. /\ stack' \in Seq(Slots) /\ 3 \in Nat /\ WellFramed(stack', 3, Script) /\ 3 \in FrameSlots(stack')
      /\ 3 <= ScriptFrame
  <2>1. stack' \in Seq(Slots) /\ WellFramed(stack', 3, Script)
    BY <1>1, <1>2, <1>3, NextRunning
  <2> QED
    BY <2>1 DEF WellFramed, ScriptFrame
<1>5. CallersOf(stack')[3] = <<>>
  BY <1>4, CallersUnfold
<1>6. ActivationAt(stack', 3, pc', 0) = Act(Script, <<>>, <<>>, <<>>)
  <2>1. ValuesAt(stack', 3 - Arity[Script], 3 - 1) = <<>>
    <3>1. 3 - Arity[Script] = 3 /\ 3 \in Int
      BY FramesAssumption
    <3> QED
      BY <3>1, RunEmpty
  <2>2. SpillCount(Script) = 2
    BY DEF SpillCount
  <2>3. /\ ValuesAt(stack', 3 + 2 + 1, 3 + 2 + 0) = <<>>
        /\ ValuesAt(stack', 3 + 2 + 0 + 1, 3 + 2 + 0 + 0) = <<>>
    <3>1. 3 + 2 + 1 = 6 /\ 3 + 2 + 0 = 6 - 1 /\ 3 + 2 + 0 + 1 = 6 /\ 3 + 2 + 0 + 0 = 6 - 1 /\ 6 \in Int
      BY SMT
    <3> QED
      BY <3>1, RunEmpty
  <2> QED
    BY <1>2, <2>1, <2>2, <2>3, Zenon DEF ActivationAt, Act
<1>7. Activations' = Append(<<>>, Act(Script, <<>>, <<>>, <<>>))
  <2>1. Activations' = Append(CallersOf(stack')[fp'], ActivationAt(stack', fp', pc', pc'.temps))
    BY <1>3 DEF Activations
  <2> QED
    BY <1>1, <1>2, <1>5, <1>6, <2>1
<1>8. Activations' = <<Lox!Activation(Script, <<>>)>>
  <2> DEFINE x == Act(Script, <<>>, <<>>, <<>>)
  <2>1. Lox!Activation(Script, <<>>) = x
    BY DEF Lox!Activation, Act
  <2> HIDE DEF x
  <2>2. Append(<<>>, x) = <<x>>
    OBVIOUS
  <2> QED
    BY <1>7, <2>1, <2>2 DEF x
<1>9. ~Lox!Running
  BY <1>1 DEF Lox!Running, Activations
<1> QED
  BY <1>1, <1>8, <1>9 DEF Lox!Start

\* The script ends with no call open and no variable or temporary left.
LEMMA FinishRefines == ASSUME IInv, ScriptLocals = FALSE, Finish PROVE Lox!Finish
<1>1. Running /\ pc.fn = Script /\ pc.locals = 0 /\ pc.temps = 0 /\ result' = "ok"
  BY DEF Finish
<1>2. fp = ScriptFrame
  <2>1. FrameOf(stack, fp, Script)
    BY <1>1, RunningFacts
  <2>2. ~CallOf(stack, fp, Script)
    BY FramesAssumption DEF CallOf
  <2> QED
    BY <2>1, <2>2 DEF FrameOf
<1>3. stack' = <<>> /\ pc' = Native
  <2>1. /\ stack[1] = Frame(CFrame, MainReturn) /\ stack[3] = Frame(1, StartScript)
    BY <1>1, RunningFacts DEF WellFramed, ScriptEntered
  <2>2. stack[fp].fp = 1 /\ stack[1].lr = MainReturn
    BY <1>2, <2>1 DEF Frame, ScriptFrame
  <2>3. stack' = SubSeq(stack, 1, 0) /\ pc' = Native
    BY <2>2 DEF Finish
  <2> QED
    BY <1>1, <2>3, RunningFacts, SubSeqEmpty
<1>4. CallersOf(stack)[fp] = <<>>
  <2>1. fp \in FrameSlots(stack) /\ fp <= ScriptFrame
    BY <1>1, <1>2, RunningFacts DEF ScriptFrame
  <2> QED
    BY <1>1, <2>1, RunningFacts, CallersUnfold
<1>5. Len(Activations) = 1
  BY <1>1, <1>4, CallsOfRunning
<1>6. Lox!Current.locals = <<>> /\ Lox!Current.temps = <<>>
  BY <1>1, CurrentIs
<1>7. Activations' = <<>>
  BY <1>3 DEF Activations, Running
<1> QED
  BY <1>1, <1>5, <1>6, <1>7 DEF Lox!Finish

\* An error drops all activations at once.
LEMMA UnwindRefines == ASSUME IInv, Running, Unwind PROVE Lox!RuntimeError
<1>1. Activations' = <<>> /\ result' = "runtime_error"
  BY DEF Unwind, Activations, Running
<1> QED
  BY <1>1, CallsOfRunning DEF Lox!RuntimeError

\* Each step of the machine is a step of LoxCalls, or one that it does not see.
LEMMA StepRefines ==
    ASSUME IInv, IInv', ScriptLocals = FALSE, [Next]_vars
    PROVE  [Lox!Next]_(Lox!vars)
<1>1. CASE Start
  BY <1>1, StartRefines DEF Lox!Next
<1>2. CASE Finish
  BY <1>2, FinishRefines DEF Lox!Next
<1>3. CASE RuntimeError \/ CallError
  BY <1>3, UnwindRefines DEF RuntimeError, CallError, Lox!Next
<1>4. CASE Load \/ GetLocal \/ GetArgument
  BY <1>4, LoadRefines, GetLocalRefines, GetArgumentRefines DEF Lox!Next
<1>5. CASE SetLocal \/ SetArgument
  BY <1>5, SetLocalRefines, SetArgumentRefines DEF Lox!Next
<1>6. CASE SetGlobal
  BY <1>6, UnseenStep DEF SetGlobal, InFrame
<1>7. CASE DefineLocal \/ EndScope \/ Discard
  BY <1>7, DefineLocalRefines, EndScopeRefines, DiscardRefines DEF Lox!Next
<1>8. CASE Unary \/ Binary
  <2>1. 1 \in 1..2 /\ 2 \in 1..2
    OBVIOUS
  <2> QED
    BY <1>8, <2>1, OperateRefines DEF Unary, Binary, Lox!Next
<1>9. CASE Call
  BY <1>9, CallRefines DEF Lox!Next
<1>10. CASE Return
  BY <1>10, ReturnRefines DEF Lox!Next
<1>11. CASE UNCHANGED vars
  BY <1>11, UnseenStep DEF vars
<1> QED
  BY <1>1, <1>2, <1>3, <1>4, <1>5, <1>6, <1>7, <1>8, <1>9, <1>10, <1>11 DEF Next

\* For every program, arity and depth of calls, the generated code and the
\* handlers of call.sx and return.sx do what LoxCalls promises: a call passes its
\* arguments, a return hands its value to the caller, and no variable changes
\* but by an assignment to it. A local declared in a block of the top-level
\* code is excluded: there the promise is broken.
THEOREM Implements == ASSUME ScriptLocals = FALSE PROVE Spec => ImplementsLox
<1>1. Init => Lox!Init
  BY DEF Init, Lox!Init, Activations, Running
<1>2. IInv /\ IInv' /\ [Next]_vars => [Lox!Next]_(Lox!vars)
  BY StepRefines
<1> QED
  BY <1>1, <1>2, Inductive, PTL DEF Spec, ImplementsLox, Lox!Spec
=============================================================================
