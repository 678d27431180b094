----------------------------- MODULE Arm64Proofs -----------------------------
(***************************************************************************)
(* Which operands of arm64.c survive the fields of the instructions they   *)
(* are put into, for every operand that the compiler can produce. In a     *)
(* frame the 16 bytes of a local are at -16 * (local + 2) from x29, below  *)
(* the return address and the spilled registers; the last argument is at   *)
(* 16, and the callee, which is argument 0, farthest up.                   *)
(***************************************************************************)
EXTENDS Arm64, TLAPS

\* A field keeps what is less than its size, and falls short of the rest.
LEMMA FieldExact ==
    ASSUME NEW size \in Nat \ {0}, NEW x \in Nat
    PROVE  /\ Field(x, size) \in Nat /\ Field(x, size) < size
           /\ x < size => Field(x, size) = x
           /\ x >= size => Field(x, size) <= x - size
  BY SMT DEF Field

\* One with a sign keeps what is less than half its size, on both sides of 0.
LEMMA SignedExact ==
    ASSUME NEW size \in Nat \ {0}, NEW half \in Nat, size = 2 * half,
           NEW x \in Int, -half <= x, x < half
    PROVE  Signed(Field(x, size), size) = x
<1>1. size \div 2 = half
  BY SMT
<1>2. CASE x >= 0
  <2>1. x % size = x
    BY <1>2, SMT
  <2> QED
    BY <1>1, <2>1, SMT DEF Signed, Field
<1>3. CASE x < 0
  <2>1. x % size = x + size
    BY <1>3, SMT
  <2> QED
    BY <1>1, <1>3, <2>1, SMT DEF Signed, Field
<1> QED
  BY <1>2, <1>3, SMT

\* ldp and stp reach 64 pairs of words down and 63 up.
LEMMA PairExact ==
    ASSUME NEW x \in -64..63
    PROVE  PairOffset(x) = 8 * x
  BY SMT DEF PairOffset, Signed, Field

\* add and sub take what is less than 4096.
LEMMA ImmediateExact ==
    ASSUME NEW x \in 0..4095
    PROVE  Immediate(x) = x
  BY SMT DEF Immediate, Field

\* Up to the 30th, emitGetLocal reads and emitSetLocal writes the slot that the
\* frame keeps for the local, and what is written is the value (arm64.c:188, 206).
THEOREM LocalExact ==
    ASSUME NEW local \in 0..29
    PROVE  /\ LocalAddress(local) = -16 * (local + 2)
           /\ SetLocalAddress(local) = -16 * (local + 2)
           /\ SetLocalIntact(local)
<1>1. PairOffset((-local - 2) * 2) = 8 * ((-local - 2) * 2)
  BY PairExact, SMT
<1> QED
  BY <1>1, SMT DEF LocalAddress, SetLocalAddress, SetLocalIntact

\* Beyond, every local is read one slot too low and written to the slot of the
\* second, and what is written is not the value (arm64.c:192, 208).
THEOREM LocalBeyond ==
    ASSUME NEW local \in 30..255
    PROVE  /\ LocalAddress(local) = -16 * (local + 3)
           /\ SetLocalAddress(local) = LocalAddress(1)
           /\ ~SetLocalIntact(local)
<1>1. PairOffset(-6) = -48 /\ PairOffset((-1 - 2) * 2) = -48
  BY PairExact, SMT
<1>2. Immediate(16 * local) = 16 * local
  BY ImmediateExact, SMT
<1> QED
  BY <1>1, <1>2, SMT DEF LocalAddress, SetLocalAddress, SetLocalIntact

\* Every argument of a call is addressed in its slot, of however many; from the
\* 32nd from the last on the value is lost before it is written (arm64.c:152, 173).
THEOREM ArgumentExact ==
    ASSUME NEW argCount \in 1..256, NEW argument \in 0..argCount - 1
    PROVE  /\ ArgumentAddress(argCount, argument) = 16 * (argCount - argument)
           /\ SetArgumentIntact(argCount, argument) <=> argCount - argument <= 31
<1> DEFINE index == argCount - argument - 1
<1>1. index \in 0..255
  BY SMT
<1>2. ASSUME index <= 30 PROVE PairOffset((index + 1) * 2) = 16 * (index + 1)
  <2>1. (index + 1) * 2 \in -64..63
    BY <1>1, <1>2, SMT
  <2> QED
    BY <2>1, <1>1, PairExact, SMT
<1>3. PairOffset(2) = 16
  BY PairExact, SMT
<1>4. Immediate(16 * index) = 16 * index
  BY <1>1, ImmediateExact, SMT
<1> QED
  BY <1>1, <1>2, <1>3, <1>4, SMT DEF ArgumentAddress, SetArgumentIntact

\* Every constant that makeConstant allows is loaded from its place, and the
\* object of every such constant from the second half of it (arm64.c:136, 217).
THEOREM ConstantExact ==
    ASSUME NEW index \in 0..255
    PROVE  ConstantAddress(index) = 16 * index /\ PointerAddress(index) = 16 * index + 8
<1>1. ASSUME index < 32 PROVE PairOffset(index * 2) = 16 * index
  BY <1>1, PairExact, SMT
<1>2. Immediate(16 * index) = 16 * index /\ PairOffset(0) = 0
  BY ImmediateExact, PairExact, SMT
<1>3. WordOffset(2 * index + 1) = 8 * (2 * index + 1)
  BY SMT DEF WordOffset, Field
<1> QED
  BY <1>1, <1>2, <1>3, SMT DEF ConstantAddress, PointerAddress

\* A jump goes where it is patched to if that is less than 2^25 instructions
\* away. patchJump_ lets twice as much pass, which goes backwards (arm64.c:339).
THEOREM JumpExact ==
    ASSUME NEW d \in Int
    PROVE  /\ -33554432 <= d /\ d < 33554432 => BranchOffset(d) = d
           /\ 33554432 <= d /\ d < 67108864 => BranchOffset(d) = d - 67108864
<1>1. ASSUME -33554432 <= d, d < 33554432 PROVE BranchOffset(d) = d
  <2> DEFINE half == 33554432
             size == 67108864
  <2>1. size \in Nat \ {0} /\ half \in Nat /\ size = 2 * half /\ -half <= d /\ d < half
    BY <1>1, SMT
  <2>2. BranchOffset(d) = Signed(Field(d, size), size)
    BY SMT DEF BranchOffset
  <2> HIDE DEF half, size
  <2> QED
    BY <2>1, <2>2, SignedExact, SMT
<1>2. ASSUME 33554432 <= d, d < 67108864 PROVE BranchOffset(d) = d - 67108864
  BY <1>2, SMT DEF BranchOffset, Signed, Field
<1> QED
  BY <1>1, <1>2, SMT

\* A conditional jump is right up to 32767 instructions, an eighth of what its
\* field holds on one side; patchConditionalJump lets 2^26 pass, and every one
\* beyond falls short (arm64.c:117, 363).
THEOREM ConditionalJumpExact ==
    ASSUME NEW d \in Nat
    PROVE  /\ d <= 32767 => ConditionalOffset(d) = d
           /\ d > 32767 => ConditionalOffset(d) <= d - 32768
<1> DEFINE size == 32768
<1>1. /\ Field(d, size) \in Nat /\ Field(d, size) < size
      /\ d < size => Field(d, size) = d
      /\ d >= size => Field(d, size) <= d - size
  <2>1. size \in Nat \ {0} /\ d \in Nat
    BY SMT
  <2> HIDE DEF size
  <2> QED
    BY <2>1, FieldExact, SMT
<1>2. ASSUME NEW f \in Nat, f < 32768 PROVE Signed(Field(f, 524288), 524288) = f
  BY <1>2, SMT DEF Signed, Field
<1>3. ConditionalOffset(d) = Field(d, size)
  BY <1>1, <1>2, SMT DEF ConditionalOffset
<1> QED
  BY <1>1, <1>3, SMT
=============================================================================
