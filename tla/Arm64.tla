------------------------------- MODULE Arm64 -------------------------------
(***************************************************************************)
(* The operands that arm64.c puts into instructions, as the processor      *)
(* reads them. A field keeps the low bits of its operand, and nothing      *)
(* refuses what does not fit. Addresses are in bytes, from x29 for locals  *)
(* and arguments, and from x20 for constants. A Value has 16 bytes, of     *)
(* which the second 8 are the pointer of an object.                        *)
(***************************************************************************)
EXTENDS Integers

Field(x, size) == x % size
Signed(f, size) == IF f < size \div 2 THEN f ELSE f - size

\* ldp and stp count 8 bytes in 7 bits with a sign.
PairOffset(x) == 8 * Signed(Field(x, 128), 128)

\* ldr counts 8 bytes in 12 bits, add and sub count bytes in 12 bits.
WordOffset(x) == 8 * Field(x, 4096)
Immediate(x) == Field(x, 4096)

\* Branches count instructions, in 26 bits with a sign. A conditional one has 19,
\* of which the mask of branch_conditional leaves 15.
BranchOffset(d) == Signed(Field(d, 67108864), 67108864)
ConditionalOffset(d) == Signed(Field(Field(d, 32768), 524288), 524288)
-----------------------------------------------------------------------------
(* Where the instructions of an emitter read or write.                     *)

\* Fault: the slot of x19 and x20 is forgotten.
LocalAddress_NoSpill(local) ==
    IF local <= 29 THEN PairOffset((-local - 1) * 2) ELSE PairOffset(-6) - Immediate(16 * local)

LocalAddress(local) ==
    IF local <= 29 THEN PairOffset((-local - 2) * 2) ELSE PairOffset(-6) - Immediate(16 * local)

\* From the 31st local on, what is written depends on x29 alone.
SetLocalAddress(local) ==
    IF local <= 29 THEN PairOffset((-local - 2) * 2) ELSE PairOffset(-6)

ArgumentAddress(argCount, argument) ==
    LET index == argCount - argument - 1
    IN  IF index <= 30 THEN PairOffset((index + 1) * 2) ELSE Immediate(16 * index) + PairOffset(2)

\* There the address is computed in x0, where the type of the value was.
SetLocalIntact(local) == local <= 29
SetArgumentIntact(argCount, argument) == argCount - argument - 1 <= 30

ConstantAddress(index) ==
    IF index < 32 THEN PairOffset(index * 2) ELSE Immediate(16 * index) + PairOffset(0)

\* The name or function at an index of the constants.
PointerAddress(index) == WordOffset(2 * index + 1)
=============================================================================
