----------------------------- MODULE Cpu6800Alu -----------------------------
(***************************************************************************)
(* What the emulated 6800 computes (cpu/cpu.cpp and cpu/cpu_ops_*.cpp):    *)
(* every operator takes the condition codes and operands and returns the   *)
(* result with the new condition codes.  A flag is a BOOLEAN; "top" is the *)
(* two bits of the condition code byte that no flag uses.                  *)
(***************************************************************************)
EXTENDS Integers

Byte == 0 .. 255
Word == 0 .. 65535
Flags == [c : BOOLEAN, v : BOOLEAN, z : BOOLEAN, n : BOOLEAN, i : BOOLEAN,
          h : BOOLEAN, top : 0 .. 3]

Bit(flag) == IF flag THEN 1 ELSE 0
Negative(value) == value >= 128
Signed(value) == IF Negative(value) THEN value - 256 ELSE value

\* cc.h: the byte that PSH, TPA and SWI see.
ConditionCodes(cc) ==
  Bit(cc.c) + 2 * Bit(cc.v) + 4 * Bit(cc.z) + 8 * Bit(cc.n) + 16 * Bit(cc.i)
    + 32 * Bit(cc.h) + 64 * cc.top

FromByte(value) ==
  LET on(weight) == (value \div weight) % 2 = 1 IN
    [c |-> on(1), v |-> on(2), z |-> on(4), n |-> on(8), i |-> on(16),
     h |-> on(32), top |-> value \div 64]

Result(out, cc) == [out |-> out, cc |-> cc]

NegativeWord(value) == value >= 32768

SetNz8(cc, value) == [cc EXCEPT !.z = (value = 0), !.n = Negative(value)]
SetNz16(cc, value) == [cc EXCEPT !.z = (value = 0), !.n = NegativeWord(value)]

\* &, | and ^ of bytes, by their bits.
ByBits(op(_, _), lhs, rhs) ==
  LET on(value, weight) == (value \div weight) % 2 = 1
      at(weight) == IF op(on(lhs, weight), on(rhs, weight)) THEN weight ELSE 0 IN
    at(1) + at(2) + at(4) + at(8) + at(16) + at(32) + at(64) + at(128)

And8(lhs, rhs) == ByBits(LAMBDA l, r : l /\ r, lhs, rhs)
Or8(lhs, rhs)  == ByBits(LAMBDA l, r : l \/ r, lhs, rhs)
Xor8(lhs, rhs) == ByBits(LAMBDA l, r : l # r, lhs, rhs)

-----------------------------------------------------------------------------
\* add8, adc8
Add8(cc, lhs, rhs, carry) ==
  LET sum == lhs + rhs + Bit(carry)
      out == sum % 256 IN
    Result(out, [SetNz8(cc, out) EXCEPT
                   !.c = (sum > 255),
                   !.v = (Negative(lhs) = Negative(rhs) /\ Negative(out) # Negative(lhs)),
                   !.h = ((lhs % 16) + (rhs % 16) + Bit(carry) > 15)])

\* Mutant: the overflow of an addition.
Sub8AddOverflow(cc, lhs, rhs, borrow) ==
  LET difference == lhs - rhs - Bit(borrow)
      out == difference % 256 IN
    Result(out, [SetNz8(cc, out) EXCEPT
                   !.c = (difference < 0),
                   !.v = (Negative(lhs) = Negative(rhs) /\ Negative(out) # Negative(lhs))])

\* sub8: the half-carry stays.
Sub8(cc, lhs, rhs, borrow) ==
  LET difference == lhs - rhs - Bit(borrow)
      out == difference % 256 IN
    Result(out, [SetNz8(cc, out) EXCEPT
                   !.c = (difference < 0),
                   !.v = (Negative(lhs) # Negative(rhs) /\ Negative(out) # Negative(lhs))])

\* logic8, and the flags of every load, store and transfer.
Logic8(cc, out) == Result(out, [SetNz8(cc, out) EXCEPT !.v = FALSE])
Logic16(cc, out) == Result(out, [SetNz16(cc, out) EXCEPT !.v = FALSE])

Inc8(cc, value) ==
  LET out == (value + 1) % 256 IN
    Result(out, [SetNz8(cc, out) EXCEPT !.v = (value = 127)])

Dec8(cc, value) ==
  LET out == (value - 1) % 256 IN
    Result(out, [SetNz8(cc, out) EXCEPT !.v = (value = 128)])

Neg8(cc, value) ==
  LET out == (0 - value) % 256 IN
    Result(out, [SetNz8(cc, out) EXCEPT !.c = (value # 0), !.v = (value = 128)])

Com8(cc, value) ==
  LET out == 255 - value IN
    Result(out, [SetNz8(cc, out) EXCEPT !.v = FALSE, !.c = TRUE])

Clear8(cc) == Result(0, [SetNz8(cc, 0) EXCEPT !.v = FALSE, !.c = FALSE])

Test8(cc, value) == Result(value, [SetNz8(cc, value) EXCEPT !.v = FALSE, !.c = FALSE])

\* The end of do_shift8, do_rol8 and do_ror8.
Shifted(cc, out, carry) ==
  Result(out, [SetNz8(cc, out) EXCEPT !.c = carry, !.v = (Negative(out) # carry)])

Shift8(cc, value, op) ==
  CASE op = "asl" -> Shifted(cc, (2 * value) % 256, Negative(value))
    [] op = "asr" -> Shifted(cc, (value \div 2) + (128 * Bit(Negative(value))), value % 2 = 1)
    [] op = "lsr" -> Shifted(cc, value \div 2, value % 2 = 1)
    [] op = "rol" -> Shifted(cc, ((2 * value) + Bit(cc.c)) % 256, Negative(value))
    [] op = "ror" -> Shifted(cc, (value \div 2) + (128 * Bit(cc.c)), value % 2 = 1)

\* op_daa
DecimalAdjust(cc, value) ==
  LET units == IF value % 16 > 9 \/ cc.h THEN 6 ELSE 0
      tens  == IF value > 153 \/ cc.c THEN 96 ELSE 0
      sum   == value + units + tens
      out   == sum % 256 IN
    Result(out, [SetNz8(cc, out) EXCEPT !.v = FALSE, !.c = (cc.c \/ sum > 255)])

\* op_cpx: N and V of the high bytes, Z of the words, C unchanged.
CompareX(cc, x, value) ==
  LET high == Sub8(cc, x \div 256, value \div 256, FALSE).cc IN
    [cc EXCEPT !.n = high.n, !.v = high.v, !.z = (x = value)]

-----------------------------------------------------------------------------
BranchNames == {"bra", "bhi", "bls", "bcc", "bcs", "bne", "beq", "bvc", "bvs",
                "bpl", "bmi", "bge", "blt", "bgt", "ble"}

\* cpu_ops_branch.cpp
Taken(cc, branch) ==
  CASE branch = "bra" -> TRUE
    [] branch = "bhi" -> ~cc.c /\ ~cc.z
    [] branch = "bls" -> cc.c \/ cc.z
    [] branch = "bcc" -> ~cc.c
    [] branch = "bcs" -> cc.c
    [] branch = "bne" -> ~cc.z
    [] branch = "beq" -> cc.z
    [] branch = "bvc" -> ~cc.v
    [] branch = "bvs" -> cc.v
    [] branch = "bpl" -> ~cc.n
    [] branch = "bmi" -> cc.n
    [] branch = "bge" -> cc.n = cc.v
    [] branch = "blt" -> cc.n # cc.v
    [] branch = "bgt" -> ~cc.z /\ cc.n = cc.v
    [] branch = "ble" -> cc.z \/ cc.n # cc.v

\* What the branches are named for: unsigned and signed relations.
Relation(branch, l, r) ==
  CASE branch = "bra" -> TRUE
    [] branch = "bhi" -> l > r [] branch = "bls" -> l <= r
    [] branch = "bcc" -> l >= r [] branch = "bcs" -> l < r
    [] branch = "bne" -> l # r [] branch = "beq" -> l = r
    [] branch = "bvc" -> Signed(l) - Signed(r) \in -128 .. 127
    [] branch = "bvs" -> Signed(l) - Signed(r) \notin -128 .. 127
    [] branch = "bpl" -> (l - r) % 256 < 128 [] branch = "bmi" -> (l - r) % 256 >= 128
    [] branch = "bge" -> Signed(l) >= Signed(r) [] branch = "blt" -> Signed(l) < Signed(r)
    [] branch = "bgt" -> Signed(l) > Signed(r) [] branch = "ble" -> Signed(l) <= Signed(r)
=============================================================================
