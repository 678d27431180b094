------------------------------ MODULE MCFrames ------------------------------
(* Instances of Frames for TLC: functions of arity 0, 1 and 2.             *)
EXTENDS FramesRoots, FramesRefinement

CONSTANTS f, g, h

MCArity == [x \in Functions \cup {Script} |->
              CASE x = f -> 1 [] x = g -> 2 [] OTHER -> 0]
=============================================================================
