----------------------------- MODULE FramesRoots -----------------------------
(***************************************************************************)
(* walkStack of memory.c: the part of the native stack that the collector  *)
(* marks when it runs inside a handler that the generated code has called. *)
(***************************************************************************)
EXTENDS Frames

\* Fault: the walk stops at the frame, not above its spill slot.
WalkStack_Spill(s) ==
    LET walk[frame \in FrameSlots(s)] ==
          LET here == IF s[frame].lr \in Points
                      THEN (s[frame].fp + FUNCTION_STACK_SPILL)..(frame - 1)
                      ELSE {}
          IN  here \cup IF s[frame].lr = MainReturn THEN {} ELSE walk[s[frame].fp]
    IN  walk

\* The slots that walkStack marks on stack s, for every frame it may start from:
\* if the frame's return address is in the code segment, all slots from the
\* one above it up to, not including, the spill slot of the frame it links to.
WalkStack(s) ==
    LET walk[frame \in FrameSlots(s)] ==
          LET newLink == s[frame].lr
              newFrame == s[frame].fp
              here == IF newLink \in Points
                      THEN (newFrame + FUNCTION_STACK_SPILL + 1)..(frame - 1)
                      ELSE {}
          IN  here \cup IF newLink = MainReturn THEN {} ELSE walk[newFrame]
    IN  walk

\* An allocating handler makes a frame as C does: return address and x29 only.
InHandler == Append(stack, Frame(fp, pc))

Marked == WalkStack(InHandler)[sp + 1]

\* Wherever a handler allocates, the collector marks every Value on the stack
\* and takes nothing else for one: no spilled register, no return address
\* (the assert of memory.c:219).
WalkMarksExactlyTheValues ==
    Running => Marked = {i \in DOMAIN stack : stack[i].kind = "value"}

\* The closure of every function that is in the middle of a call is the value
\* of some marked slot, so that neither its code nor its constants are freed.
RunningClosuresRooted ==
    Running =>
        LET suspended == {stack[j].lr.fn : j \in {i \in FrameSlots(stack) : i > ScriptFrame}}
        IN  suspended \cup {pc.fn} \subseteq {Read(i) : i \in Marked}
=============================================================================
