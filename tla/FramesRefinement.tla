-------------------------- MODULE FramesRefinement --------------------------
(***************************************************************************)
(* The native stack implements the activations of LoxCalls: following the  *)
(* saved frame pointers from x29 recovers, for every function in the       *)
(* middle of a call, its arguments, its locals and its temporaries.        *)
(***************************************************************************)
EXTENDS Frames

\* The values of slots first..last of stack s.
ValuesAt(s, first, last) == [k \in 1..(last - first + 1) |-> ReadFrom(s, first + k - 1)]

\* The activation whose frame is i, at code address pt with t temporaries.
ActivationAt(s, i, pt, t) ==
    LET base == i + SpillCount(pt.fn)
    IN  [fn     |-> pt.fn,
         args   |-> ValuesAt(s, i - Arity[pt.fn], i - 1),
         locals |-> ValuesAt(s, base + 1, base + pt.locals),
         temps  |-> ValuesAt(s, base + pt.locals + 1, base + pt.locals + t)]

\* For each frame, the callers of the function it belongs to. The return address
\* of a call already counts its result as a temporary.
CallersOf(s) ==
    LET callers[i \in FrameSlots(s)] ==
          IF i <= ScriptFrame THEN <<>>
          ELSE Append(callers[s[i].fp],
                      ActivationAt(s, s[i].fp, s[i].lr, s[i].lr.temps - 1))
    IN  callers

Activations ==
    IF Running THEN Append(CallersOf(stack)[fp], ActivationAt(stack, fp, pc, pc.temps)) ELSE <<>>

Lox == INSTANCE LoxCalls WITH calls <- Activations

\* Whatever the program, the generated code and the handlers do what LoxCalls
\* promises: a variable keeps its value across calls and other assignments,
\* a call passes its arguments, a return hands its value to the caller.
ImplementsLox == Lox!Spec
=============================================================================
