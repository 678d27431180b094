---------------------------- MODULE MCOperators ----------------------------
(* Instances of Operators for TLC.                                         *)
EXTENDS Operators

CONSTANTS f, g

\* The texts that two different characters and their concatenations make.
MCTexts == {<<>>, <<1>>, <<2>>, <<1, 2>>, <<2, 1>>}

\* Some objects differ in one half of their addresses only.
MCAddress ==
    [o \in Objects |->
        CASE o = <<>>     -> Word(0, 0, 1)
          [] o = <<1>>    -> Word(0, 1, 1)
          [] o = <<2>>    -> Word(0, 0, 2)
          [] o = <<1, 2>> -> Word(0, 1, 2)
          [] o = <<2, 1>> -> Word(0, 0, 3)
          [] o = f        -> Word(0, 1, 3)
          [] o = g        -> Word(0, 0, 4)]
=============================================================================
