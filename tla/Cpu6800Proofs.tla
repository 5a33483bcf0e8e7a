--------------------------- MODULE Cpu6800Proofs ---------------------------
(***************************************************************************)
(* What is proved of the emulated 6800: the flags of a comparison and the  *)
(* sum of words over the carry, for every operand; the types, for every    *)
(* program and memory; and what the programs of Cpu6800Programs compute,   *)
(* for every operand.  A program has an invariant that says what holds at  *)
(* each of its instructions (CompareAt, WordPoint and so on); what an      *)
(* instruction of low memory does is a lemma of its own (DirectStep,       *)
(* StoreByteStep and so on), and one lemma per part of the program shows   *)
(* that its instructions lead from point to point.                         *)
(***************************************************************************)
EXTENDS Cpu6800Programs, TLAPS

\* A difference of bytes, reduced to a byte.
LEMMA ByteDifference ==
  ASSUME NEW d \in -256 .. 255
  PROVE  /\ d % 256 \in Byte
         /\ d % 256 = IF d < 0 THEN d + 256 ELSE d
BY DEF Byte

\* V of a difference, by the signs of the operands and of the result.
Overflows(l, r) ==
  ~(Negative(l) <=> Negative(r)) /\ ~(Negative((l - r) % 256) <=> Negative(l))

\* The flags Sub8 sets without a borrow.
LEMMA Sub8Flags ==
  ASSUME NEW cc \in Flags, NEW l \in Byte, NEW r \in Byte
  PROVE  /\ Sub8(cc, l, r, FALSE).cc.c <=> l - r < 0
         /\ Sub8(cc, l, r, FALSE).cc.z <=> (l - r) % 256 = 0
         /\ Sub8(cc, l, r, FALSE).cc.n <=> Negative((l - r) % 256)
         /\ Sub8(cc, l, r, FALSE).cc.v <=> Overflows(l, r)
<1>1. /\ Bit(FALSE) = 0
      /\ l - r - 0 = l - r
  BY DEF Bit, Byte
<1>2. /\ Sub8(cc, l, r, FALSE).cc.c = (l - r < 0)
      /\ Sub8(cc, l, r, FALSE).cc.z = ((l - r) % 256 = 0)
      /\ Sub8(cc, l, r, FALSE).cc.n = Negative((l - r) % 256)
      /\ Sub8(cc, l, r, FALSE).cc.v
           = (Negative(l) # Negative(r) /\ Negative((l - r) % 256) # Negative(l))
  BY <1>1 DEF Sub8, Result, SetNz8, Flags
<1>3. \A p, q \in BOOLEAN : p # q <=> ~(p <=> q)
  OBVIOUS
<1>4. /\ Negative(l) \in BOOLEAN /\ Negative(r) \in BOOLEAN
      /\ Negative((l - r) % 256) \in BOOLEAN
  BY DEF Negative, Byte
<1>5. /\ Sub8(cc, l, r, FALSE).cc.c <=> l - r < 0
      /\ Sub8(cc, l, r, FALSE).cc.z <=> (l - r) % 256 = 0
      /\ Sub8(cc, l, r, FALSE).cc.n <=> Negative((l - r) % 256)
      /\ Sub8(cc, l, r, FALSE).cc.v <=> Overflows(l, r)
  BY <1>2, <1>3, <1>4, Zenon DEF Overflows
<1> QED BY <1>5

\* The flags of a comparison are the borrow, the equality, the sign and the
\* signed overflow of the difference.
LEMMA CompareFlags ==
  ASSUME NEW l \in Byte, NEW r \in Byte
  PROVE  /\ l - r < 0 <=> l < r
         /\ (l - r) % 256 = 0 <=> l = r
         /\ Overflows(l, r) <=> Signed(l) - Signed(r) \notin -128 .. 127
         /\ (Negative((l - r) % 256) <=> Overflows(l, r)) <=> Signed(l) >= Signed(r)
<1>1. l - r \in -256 .. 255
  BY DEF Byte
<1>2. (l - r) % 256 = IF l - r < 0 THEN l - r + 256 ELSE l - r
  BY <1>1, ByteDifference
<1> QED BY <1>2 DEF Signed, Negative, Overflows, Byte

\* A compare decides every branch as its name says: cpu_ops_branch.cpp
\* after sub8.
THEOREM ComparesDecideBranches ==
  ASSUME NEW cc \in Flags, NEW l \in Byte, NEW r \in Byte, NEW b \in BranchNames
  PROVE  Taken(Sub8(cc, l, r, FALSE).cc, b) <=> Relation(b, l, r)
<1> DEFINE f == Sub8(cc, l, r, FALSE).cc
<1>a. /\ f.c <=> l - r < 0
      /\ f.z <=> (l - r) % 256 = 0
      /\ f.n <=> Negative((l - r) % 256)
      /\ f.v <=> Overflows(l, r)
  BY Sub8Flags
<1>b. /\ l - r < 0 <=> l < r
      /\ (l - r) % 256 = 0 <=> l = r
      /\ Overflows(l, r) <=> Signed(l) - Signed(r) \notin -128 .. 127
      /\ (Negative((l - r) % 256) <=> Overflows(l, r)) <=> Signed(l) >= Signed(r)
  BY CompareFlags
<1> HIDE DEF f
<1>1. /\ f.c <=> l < r
      /\ f.z <=> l = r
      /\ f.n <=> Negative((l - r) % 256)
      /\ f.v <=> Signed(l) - Signed(r) \notin -128 .. 127
      /\ (f.n <=> f.v) <=> Signed(l) >= Signed(r)
  BY <1>a, <1>b
<1>2. Signed(l) \in Int /\ Signed(r) \in Int /\ (l = r <=> Signed(l) = Signed(r))
  BY DEF Signed, Negative, Byte
<1>3. CASE b \in {"bra", "bhi", "bls", "bcc", "bcs", "bne", "beq"}
  BY <1>1, <1>3 DEF Taken, Relation, Byte, f
<1>4. CASE b \in {"bvc", "bvs", "bpl", "bmi"}
  BY <1>1, <1>4 DEF Taken, Relation, Byte, Negative, f
<1>5. CASE b \in {"bge", "blt", "bgt", "ble"}
  BY <1>1, <1>2, <1>5 DEF Taken, Relation, Byte, f
<1> QED BY <1>3, <1>4, <1>5 DEF BranchNames

LEMMA ByteModulo ==
  ASSUME NEW s \in 0 .. 511
  PROVE  s % 256 = IF s > 255 THEN s - 256 ELSE s
OBVIOUS

\* What Add8 returns with its carry is the sum; BYTE ADDITION of cpu.cpp.
LEMMA AddCarries ==
  ASSUME NEW cc \in Flags, NEW l \in Byte, NEW r \in Byte, NEW carry \in BOOLEAN
  PROVE  /\ Add8(cc, l, r, carry).out \in Byte
         /\ (256 * Bit(Add8(cc, l, r, carry).cc.c)) + Add8(cc, l, r, carry).out
              = l + r + Bit(carry)
<1> DEFINE s == l + r + Bit(carry)
<1>1. s \in 0 .. 511
  BY DEF Byte, Bit
<1>2. /\ Add8(cc, l, r, carry).out = s % 256
      /\ Add8(cc, l, r, carry).cc.c = (s > 255)
  BY DEF Add8, Result, SetNz8, Flags
<1> HIDE DEF s
<1>3. s % 256 = IF s > 255 THEN s - 256 ELSE s
  BY <1>1, ByteModulo, Zenon
<1>4. s % 256 \in Byte
  BY <1>1 DEF Byte
<1>5. (256 * Bit(s > 255)) + (s % 256) = s
  <2>1. CASE s > 255
    BY <1>1, <1>3, <2>1 DEF Bit
  <2>2. CASE ~(s > 255)
    BY <1>1, <1>3, <2>2 DEF Bit
  <2> QED BY <2>1, <2>2
<1> QED BY <1>2, <1>4, <1>5, Zenon DEF s

\* ADD of the low bytes and ADC of the high bytes, with any instructions
\* between them that keep the carry, add words with the carry out.
THEOREM WordsAdd ==
  ASSUME NEW cc \in Flags, NEW later \in Flags,
         NEW l \in Byte, NEW r \in Byte, NEW h \in Byte, NEW k \in Byte,
         NEW carry \in BOOLEAN, carry <=> Add8(cc, l, r, FALSE).cc.c
  PROVE  (256 * ((256 * Bit(Add8(later, h, k, carry).cc.c)) + Add8(later, h, k, carry).out))
           + Add8(cc, l, r, FALSE).out
           = ((256 * h) + l) + ((256 * k) + r)
<1>1. /\ Add8(cc, l, r, FALSE).out \in Byte
      /\ (256 * Bit(Add8(cc, l, r, FALSE).cc.c)) + Add8(cc, l, r, FALSE).out
           = l + r + Bit(FALSE)
  <2> DEFINE c == FALSE
  <2>1. c \in BOOLEAN
    OBVIOUS
  <2> HIDE DEF c
  <2>2. /\ Add8(cc, l, r, c).out \in Byte
        /\ (256 * Bit(Add8(cc, l, r, c).cc.c)) + Add8(cc, l, r, c).out
             = l + r + Bit(c)
    BY <2>1, AddCarries
  <2> QED BY <2>2 DEF c
<1>2. /\ Add8(later, h, k, carry).out \in Byte
      /\ (256 * Bit(Add8(later, h, k, carry).cc.c)) + Add8(later, h, k, carry).out
           = h + k + Bit(carry)
  BY AddCarries
<1>3. Bit(Add8(cc, l, r, FALSE).cc.c) = Bit(carry) /\ Bit(FALSE) = 0
  BY DEF Bit
<1> DEFINE low == Add8(cc, l, r, FALSE).out
           high == Add8(later, h, k, carry).out
           end == Bit(Add8(later, h, k, carry).cc.c)
           between == Bit(carry)
<1>4. low \in Byte /\ (256 * between) + low = l + r
  <2>1. l + r + 0 = l + r
    BY DEF Byte
  <2> QED BY <1>1, <1>3, <2>1
<1>5. high \in Byte /\ (256 * end) + high = h + k + between
  BY <1>2
<1>6. between \in Int /\ end \in Int
  BY DEF Bit
<1>7. l \in Int /\ r \in Int /\ h \in Int /\ k \in Int /\ low \in Int /\ high \in Int
  <2> HIDE DEF low, high, between, end
  <2> QED BY <1>4, <1>5 DEF Byte
<1>8. (256 * ((256 * end) + high)) + low = ((256 * h) + l) + ((256 * k) + r)
  <2> HIDE DEF low, high, between, end
  <2> QED BY <1>4, <1>5, <1>6, <1>7
<1> QED BY <1>8, Zenon DEF low, high, between, end

-----------------------------------------------------------------------------
(* The types of what every instruction leaves.                             *)

-----------------------------------------------------------------------------
(* The decoder: an opcode is its row and its column, and no two instructions  *)
(* share one.                                                              *)

LEMMA RowAndColumn ==
  ASSUME Opcode \in Byte
  PROVE  Row \in 0 .. 15 /\ Column \in 0 .. 15 /\ Opcode = (16 * Row) + Column
BY DEF Row, Column, Byte

\* The rows and columns of the instructions that the table names by opcode.
LEMMA RowsOfOpcodes ==
  ASSUME Opcode \in Byte
  PROVE  /\ Jumps => Row \in {6, 7} /\ Column = 14
         /\ Calls => Row \in {8, 10, 11} /\ Column = 13
         /\ Pushes \/ Pulls => Row = 3 /\ Column \in {2, 3, 6, 7}
         /\ ReturnsFromCall \/ ReturnsFromInterrupt \/ SoftwareInterrupt =>
              Row = 3 /\ Column \in {9, 11, 15}
         /\ IndexAndStack =>
              (Row = 0 /\ Column \in {8, 9}) \/ (Row = 3 /\ Column \in {0, 1, 4, 5})
         /\ BetweenAccumulators => Row = 1
         /\ FlagsAndNop => Row = 0 /\ Column \in {1, 6, 7} \cup 10 .. 15
<1>1. Row \in 0 .. 15 /\ Column \in 0 .. 15 /\ Opcode = (16 * Row) + Column
  BY RowAndColumn
<1> HIDE DEF Opcode, Row, Column
<1>2. /\ Jumps => Row \in {6, 7} /\ Column = 14
      /\ Calls => Row \in {8, 10, 11} /\ Column = 13
  BY <1>1 DEF Jumps, Calls
<1>3. Pushes \/ Pulls => Row = 3 /\ Column \in {2, 3, 6, 7}
  <2>1. Pushes \/ Pulls => Opcode \in {54, 55, 50, 51}
    BY DEF Pushes, Pulls
  <2> QED BY <1>1, <2>1
<1>4. ReturnsFromCall \/ ReturnsFromInterrupt \/ SoftwareInterrupt =>
        Row = 3 /\ Column \in {9, 11, 15}
  BY <1>1 DEF ReturnsFromCall, ReturnsFromInterrupt, SoftwareInterrupt
<1>5. IndexAndStack =>
        (Row = 0 /\ Column \in {8, 9}) \/ (Row = 3 /\ Column \in {0, 1, 4, 5})
  BY <1>1 DEF IndexAndStack
<1>6. BetweenAccumulators => Row = 1
  BY <1>1 DEF BetweenAccumulators
<1>7. FlagsAndNop => Row = 0 /\ Column \in {1, 6, 7} \cup 10 .. 15
  BY <1>1 DEF FlagsAndNop
<1> QED BY <1>2, <1>3, <1>4, <1>5, <1>6, <1>7

\* What those of the table's rectangles need.
LEMMA RowsOfInstructions ==
  /\ AccumulatorOp => Row >= 8 /\ Column \in {0, 1, 2, 4, 5, 6, 8, 9, 10, 11}
  /\ StoreByte => Row >= 9 /\ Column = 7
  /\ LoadWord => Row >= 8 /\ Column = 14
  /\ StoreWord => Row >= 9 /\ Column = 15
  /\ ComparesX => Row \in 8 .. 11 /\ Column = 12
  /\ UnaryRegister => Row \in {4, 5} /\ Column \in {0, 3, 4, 6, 7, 8, 9, 10, 12, 13, 15}
  /\ UnaryMemory => Row \in {6, 7} /\ Column \in {0, 3, 4, 6, 7, 8, 9, 10, 12, 13, 15}
  /\ Branches => Row = 2
<1>1. /\ DOMAIN AccumulatorNames = {0, 1, 2, 4, 5, 6, 8, 9, 10, 11}
      /\ DOMAIN UnaryNames = {0, 3, 4, 6, 7, 8, 9, 10, 12, 13, 15}
  BY DEF AccumulatorNames, UnaryNames
<1>2. /\ AccumulatorOp => Row >= 8 /\ Column \in {0, 1, 2, 4, 5, 6, 8, 9, 10, 11}
      /\ LoadWord => Row >= 8 /\ Column = 14
      /\ ComparesX => Row \in 8 .. 11 /\ Column = 12
      /\ Branches => Row = 2
  BY <1>1 DEF AccumulatorOp, LoadWord, ComparesX, Branches
<1>3. /\ StoreByte => Row >= 9 /\ Column = 7
      /\ StoreWord => Row >= 9 /\ Column = 15
  BY DEF StoreByte, StoreWord
<1>4. /\ UnaryRegister => Row \in {4, 5} /\ Column \in {0, 3, 4, 6, 7, 8, 9, 10, 12, 13, 15}
      /\ UnaryMemory => Row \in {6, 7} /\ Column \in {0, 3, 4, 6, 7, 8, 9, 10, 12, 13, 15}
  BY <1>1 DEF UnaryRegister, UnaryMemory
<1> QED BY <1>2, <1>3, <1>4

\* While it runs, what the opcode names is what happens.
LEMMA OneInstruction ==
  ASSUME CpuNext, Runs, Opcode \in Byte, Implemented(Opcode)
  PROVE  /\ Row >= 8 /\ Column \in {0, 1, 2, 4, 5, 6, 8, 9, 10, 11} => AccumulatorOp
         /\ Row >= 8 /\ Column = 7 => StoreByte
         /\ Row >= 8 /\ Column = 14 => LoadWord
         /\ Row >= 8 /\ Column = 15 => StoreWord
         /\ Row >= 8 /\ Column = 12 => ComparesX
         /\ Row >= 8 /\ Column = 13 => Calls
         /\ Row \in {4, 5} => UnaryRegister
         /\ Row \in {6, 7} /\ Column # 14 => UnaryMemory
         /\ Row \in {6, 7} /\ Column = 14 => Jumps
         /\ Row = 2 => Branches
         /\ Row = 1 => BetweenAccumulators
         /\ Row = 0 /\ Column \in {8, 9} => IndexAndStack
         /\ Row = 0 /\ Column \notin {8, 9} => FlagsAndNop
         /\ Row = 3 /\ Column \in {0, 1, 4, 5} => IndexAndStack
         /\ Row = 3 /\ Column \in {2, 3, 6, 7, 9, 11, 15} =>
              Pushes \/ Pulls \/ ReturnsFromCall \/ ReturnsFromInterrupt \/ SoftwareInterrupt
<1>1. Row \in 0 .. 15 /\ Column \in 0 .. 15
  BY RowAndColumn
<1>2. ~StopsInLoop /\ ~Unimplemented
  BY DEF StopsInLoop, Unimplemented, Runs
<1>3. Instructions
  BY <1>2 DEF CpuNext
<1> QED
  BY <1>1, <1>3, RowsOfOpcodes, RowsOfInstructions DEF Instructions

Results == [out : Byte, cc : Flags]

LEMMA FlagTypes ==
  ASSUME NEW cc \in Flags, NEW p \in BOOLEAN
  PROVE  /\ [cc EXCEPT !.c = p] \in Flags
         /\ [cc EXCEPT !.v = p] \in Flags
         /\ [cc EXCEPT !.i = p] \in Flags
         /\ [cc EXCEPT !.z = p] \in Flags
         /\ [cc EXCEPT !.n = p] \in Flags
         /\ [cc EXCEPT !.h = p] \in Flags
BY DEF Flags

LEMMA SetNzTypes ==
  ASSUME NEW cc \in Flags, NEW value \in Int
  PROVE  SetNz8(cc, value) \in Flags /\ SetNz16(cc, value) \in Flags
<1> DEFINE z == value = 0
           n == Negative(value)
           m == NegativeWord(value)
<1>1. z \in BOOLEAN /\ n \in BOOLEAN /\ m \in BOOLEAN
  BY DEF Negative, NegativeWord
<1>2. SetNz8(cc, value) = [cc EXCEPT !.z = z, !.n = n]
  BY Zenon DEF SetNz8
<1>3. SetNz16(cc, value) = [cc EXCEPT !.z = z, !.n = m]
  BY Zenon DEF SetNz16
<1>4. [cc EXCEPT !.z = z, !.n = n] \in Flags /\ [cc EXCEPT !.z = z, !.n = m] \in Flags
  <2> HIDE DEF z, n, m
  <2> QED BY <1>1, FlagTypes
<1> QED BY <1>2, <1>3, <1>4, Zenon

LEMMA ByteOf ==
  ASSUME NEW n \in Int
  PROVE  n % 256 \in Byte
BY DEF Byte

LEMMA AddTypes ==
  ASSUME NEW cc \in Flags, NEW l \in Byte, NEW r \in Byte, NEW carry \in BOOLEAN
  PROVE  Add8(cc, l, r, carry) \in Results
<1> DEFINE sum == l + r + Bit(carry)
           out == sum % 256
           c == sum > 255
           v == Negative(l) = Negative(r) /\ Negative(out) # Negative(l)
           h == (l % 16) + (r % 16) + Bit(carry) > 15
<1>1. sum \in Int /\ out \in Byte
  BY ByteOf DEF Byte, Bit
<1>2. c \in BOOLEAN /\ v \in BOOLEAN /\ h \in BOOLEAN
  BY <1>1 DEF Byte, Bit
<1>3. SetNz8(cc, out) \in Flags
  BY <1>1, SetNzTypes DEF Byte
<1>4. [SetNz8(cc, out) EXCEPT !.c = c, !.v = v, !.h = h] \in Flags
  <2> HIDE DEF c, v, h, out
  <2> QED BY <1>2, <1>3, FlagTypes
<1>5. Add8(cc, l, r, carry)
        = [out |-> out, cc |-> [SetNz8(cc, out) EXCEPT !.c = c, !.v = v, !.h = h]]
  BY Zenon DEF Add8, Result
<1> HIDE DEF out, c, v, h
<1> QED BY <1>1, <1>4, <1>5 DEF Results
LEMMA SubTypes ==
  ASSUME NEW cc \in Flags, NEW l \in Byte, NEW r \in Byte, NEW borrow \in BOOLEAN
  PROVE  Sub8(cc, l, r, borrow) \in Results
<1> DEFINE difference == l - r - Bit(borrow)
           out == difference % 256
           c == difference < 0
           v == Negative(l) # Negative(r) /\ Negative(out) # Negative(l)
<1>1. difference \in Int /\ out \in Byte
  BY ByteOf DEF Byte, Bit
<1>2. c \in BOOLEAN /\ v \in BOOLEAN
  BY <1>1 DEF Byte, Bit
<1>3. SetNz8(cc, out) \in Flags
  BY <1>1, SetNzTypes DEF Byte
<1>4. Sub8(cc, l, r, borrow) = [out |-> out, cc |-> [SetNz8(cc, out) EXCEPT !.c = c, !.v = v]]
  BY Zenon DEF Sub8, Result
<1>5. [SetNz8(cc, out) EXCEPT !.c = c, !.v = v] \in Flags
  <2> HIDE DEF c, v, out
  <2> QED BY <1>2, <1>3, FlagTypes
<1> HIDE DEF out, c, v
<1> QED BY <1>1, <1>4, <1>5 DEF Results

\* Every other operation sets Z and N from its byte, V and perhaps C.
LEMMA SetTypes ==
  ASSUME NEW cc \in Flags, NEW out \in Byte, NEW v \in BOOLEAN, NEW c \in BOOLEAN
  PROVE  /\ Result(out, [SetNz8(cc, out) EXCEPT !.v = v]) \in Results
         /\ Result(out, [SetNz8(cc, out) EXCEPT !.c = c, !.v = v]) \in Results
         /\ Result(out, [SetNz8(cc, out) EXCEPT !.v = v, !.c = c]) \in Results
<1> DEFINE f == SetNz8(cc, out)
<1>1. f \in Flags
  BY SetNzTypes DEF Byte
<1> HIDE DEF f
<1>2. /\ [f EXCEPT !.v = v] \in Flags
      /\ [f EXCEPT !.c = c, !.v = v] \in Flags
      /\ [f EXCEPT !.v = v, !.c = c] \in Flags
  BY <1>1, FlagTypes
<1> QED BY <1>2 DEF Result, Results, f

LEMMA BitsTypes ==
  ASSUME NEW l \in Byte, NEW r \in Byte
  PROVE  And8(l, r) \in Byte /\ Or8(l, r) \in Byte /\ Xor8(l, r) \in Byte
BY DEF And8, Or8, Xor8, ByBits, Byte

LEMMA LogicTypes ==
  ASSUME NEW cc \in Flags, NEW out \in Byte
  PROVE  Logic8(cc, out) \in Results /\ Logic8(cc, out).out = out
<1> DEFINE v == FALSE
<1>1. v \in BOOLEAN
  OBVIOUS
<1>2. Logic8(cc, out) = Result(out, [SetNz8(cc, out) EXCEPT !.v = v])
  BY Zenon DEF Logic8
<1> HIDE DEF v
<1>3. Logic8(cc, out) \in Results
  BY <1>1, <1>2, SetTypes
<1> QED BY <1>2, <1>3 DEF Result

LEMMA UnaryTypes ==
  ASSUME NEW cc \in Flags, NEW value \in Byte
  PROVE  /\ Inc8(cc, value) \in Results /\ Dec8(cc, value) \in Results
         /\ Neg8(cc, value) \in Results /\ Com8(cc, value) \in Results
         /\ Clear8(cc) \in Results /\ Test8(cc, value) \in Results
<1> DEFINE up == (value + 1) % 256
           down == (value - 1) % 256
           minus == (0 - value) % 256
           complement == 255 - value
           top == value = 127
           bottom == value = 128
           some == value # 0
<1>1. /\ up \in Byte /\ down \in Byte /\ minus \in Byte
      /\ complement \in Byte /\ 0 \in Byte
  BY ByteOf DEF Byte
<1>2. /\ FALSE \in BOOLEAN /\ TRUE \in BOOLEAN
      /\ top \in BOOLEAN /\ bottom \in BOOLEAN /\ some \in BOOLEAN
  OBVIOUS
<1>3. /\ Inc8(cc, value) = Result(up, [SetNz8(cc, up) EXCEPT !.v = top])
      /\ Dec8(cc, value) = Result(down, [SetNz8(cc, down) EXCEPT !.v = bottom])
      /\ Neg8(cc, value) = Result(minus, [SetNz8(cc, minus) EXCEPT !.c = some, !.v = bottom])
      /\ Com8(cc, value)
           = Result(complement, [SetNz8(cc, complement) EXCEPT !.v = FALSE, !.c = TRUE])
  BY Zenon DEF Inc8, Dec8, Neg8, Com8
<1> HIDE DEF up, down, minus, complement, top, bottom, some
<1>4. Inc8(cc, value) \in Results /\ Dec8(cc, value) \in Results
  BY <1>1, <1>2, <1>3, SetTypes, Zenon
<1>5. Neg8(cc, value) \in Results
  BY <1>1, <1>2, <1>3, SetTypes, Zenon
<1>6. Com8(cc, value) \in Results
  BY <1>1, <1>2, <1>3, SetTypes, Zenon
<1>7. Clear8(cc) \in Results
  BY <1>1, <1>2, SetTypes, Zenon DEF Clear8
<1>8. Test8(cc, value) \in Results
  BY <1>1, <1>2, SetTypes, Zenon DEF Test8
<1> QED BY <1>4, <1>5, <1>6, <1>7, <1>8

LEMMA ShiftTypes ==
  ASSUME NEW cc \in Flags, NEW value \in Byte,
         NEW op \in {"asl", "asr", "lsr", "rol", "ror"}
  PROVE  Shift8(cc, value, op) \in Results
<1>1. \A out \in Byte, carry \in BOOLEAN : Shifted(cc, out, carry) \in Results
  <2> TAKE out \in Byte, carry \in BOOLEAN
  <2> DEFINE v == Negative(out) # carry
  <2>1. v \in BOOLEAN
    OBVIOUS
  <2>2. Shifted(cc, out, carry) = Result(out, [SetNz8(cc, out) EXCEPT !.c = carry, !.v = v])
    BY Zenon DEF Shifted
  <2> HIDE DEF v
  <2> QED BY <2>1, <2>2, SetTypes
<1>2. Negative(value) \in BOOLEAN /\ (value % 2 = 1) \in BOOLEAN
  BY DEF Negative, Byte
<1>3. cc.c \in BOOLEAN
  BY DEF Flags
<1>4. /\ (2 * value) % 256 \in Byte /\ ((2 * value) + Bit(cc.c)) % 256 \in Byte
      /\ (value \div 2) + (128 * Bit(Negative(value))) \in Byte
      /\ value \div 2 \in Byte
      /\ (value \div 2) + (128 * Bit(cc.c)) \in Byte
  BY ByteOf DEF Byte, Bit
<1>5. CASE op = "asl"
  BY <1>1, <1>2, <1>4, <1>5, Zenon DEF Shift8
<1>6. CASE op = "asr"
  BY <1>1, <1>2, <1>4, <1>6, Zenon DEF Shift8
<1>7. CASE op = "lsr"
  BY <1>1, <1>2, <1>4, <1>7, Zenon DEF Shift8
<1>8. CASE op = "rol"
  BY <1>1, <1>2, <1>4, <1>8, Zenon DEF Shift8
<1>9. CASE op = "ror"
  BY <1>1, <1>2, <1>3, <1>4, <1>9, Zenon DEF Shift8
<1> QED BY <1>5, <1>6, <1>7, <1>8, <1>9

LEMMA AdjustTypes ==
  ASSUME NEW cc \in Flags, NEW value \in Byte
  PROVE  DecimalAdjust(cc, value) \in Results
<1> DEFINE units == IF value % 16 > 9 \/ cc.h THEN 6 ELSE 0
           tens  == IF value > 153 \/ cc.c THEN 96 ELSE 0
           sum   == value + units + tens
           out   == sum % 256
           no    == FALSE
           c     == cc.c \/ sum > 255
<1>1. sum \in Int /\ out \in Byte
  BY ByteOf DEF Byte
<1>2. c \in BOOLEAN /\ no \in BOOLEAN
  BY <1>1 DEF Flags
<1>3. DecimalAdjust(cc, value) = Result(out, [SetNz8(cc, out) EXCEPT !.v = no, !.c = c])
  BY Zenon DEF DecimalAdjust
<1> HIDE DEF out, c, no
<1> QED BY <1>1, <1>2, <1>3, SetTypes
MemoryOK(cells) == cells \in [Cells -> Byte]
CpuTypeOK ==
  /\ reg \in Registers
  /\ MemoryOK(memory)
  /\ lastpc \in Word
  /\ status \in {"running", "stopped", "failed"}
  /\ task \in Tasks

\* Words by their bounds: the provers take an interval of 65536 numbers apart.
LEMMA WordBounds == \A w \in Word : w \in Int /\ 0 <= w /\ w < 65536
BY DEF Word

LEMMA WordWithin ==
  ASSUME NEW w \in Int, 0 <= w, w < 65536
  PROVE  w \in Word /\ w % 65536 = w
<1> DEFINE most == 65535
<1>1. w % 65536 = w /\ w <= most /\ most \in Int
  OBVIOUS
<1>2. Word = 0 .. most
  BY DEF Word
<1> HIDE DEF most
<1>3. w \in 0 .. most
  BY <1>1
<1> QED BY <1>1, <1>2, <1>3

LEMMA WordOf ==
  ASSUME NEW addr \in Int, NEW n \in Int
  PROVE  Add16(addr, n) \in Word
<1> DEFINE w == (addr + n) % 65536
<1>1. w \in Int /\ 0 <= w /\ w < 65536
  OBVIOUS
<1> HIDE DEF w
<1>2. w \in Word
  BY <1>1, WordWithin
<1> QED BY <1>2 DEF w, Add16

LEMMA WordOfBytes ==
  ASSUME NEW h \in Byte, NEW l \in Byte
  PROVE  (256 * h) + l \in Word
<1> DEFINE w == (256 * h) + l
<1>1. w \in Int /\ 0 <= w /\ w < 65536
  BY DEF Byte
<1> HIDE DEF w
<1>2. w \in Word
  BY <1>1, WordWithin
<1> QED BY <1>2 DEF w

LEMMA NumberTypes == (\A w \in Word : w \in Int) /\ (\A b \in Byte : b \in Int /\ b \in Word)
<1>1. \A w \in Word : w \in Int
  BY WordBounds
<1>2. ASSUME NEW b \in Byte  PROVE b \in Int /\ b \in Word
  <2>1. b \in Int /\ 0 <= b /\ b < 256
    BY DEF Byte
  <2>2. 0 <= b /\ b < 65536
    BY <2>1
  <2> QED BY <2>1, <2>2, WordWithin
<1> QED BY <1>1, <1>2

LEMMA BytesOfWord ==
  ASSUME NEW w \in Word
  PROVE  w \div 256 \in Byte /\ w % 256 \in Byte /\ w = (256 * (w \div 256)) + (w % 256)
BY WordBounds DEF Byte

LEMMA ReadTypes ==
  ASSUME NEW cells, MemoryOK(cells), NEW addr
  PROVE  ReadFrom(cells, addr) \in Byte
BY DEF MemoryOK, ReadFrom, Byte

LEMMA WriteTypes ==
  ASSUME NEW cells, MemoryOK(cells), NEW addr, NEW value \in Byte
  PROVE  MemoryOK(Write8(cells, addr, value))
BY DEF MemoryOK, Write8

LEMMA PushTypes ==
  ASSUME NEW cells, MemoryOK(cells), NEW sp, NEW n \in Nat,
         NEW bytes \in [1 .. n -> Byte], Len(bytes) = n
  PROVE  MemoryOK(Pushed(cells, sp, bytes))
BY DEF MemoryOK, Pushed

LEMMA OperandTypes ==
  ASSUME CpuTypeOK
  PROVE  /\ Opcode \in Byte /\ Argument8 \in Byte /\ Argument16 \in Word
         /\ \A mode \in {"inh", "imb", "dir", "idx", "rel", "imw", "ext"} : After(mode) \in Word
         /\ \A mode \in {"dir", "idx", "ext"} : Address(mode) \in Word
         /\ \A mode \in {"imb", "dir", "idx", "ext"} : Operand8(mode) \in Byte
         /\ \A mode \in {"imw", "dir", "idx", "ext"} : Operand16(mode) \in Word
<1>1. MemoryOK(memory) /\ reg.pc \in Word /\ reg.x \in Word
  BY DEF CpuTypeOK, Registers
<1>2. \A addr : Read8(addr) \in Byte
  BY <1>1, ReadTypes DEF Read8
<1>3. \A addr : Read16(addr) \in Word
  BY <1>2, WordOfBytes DEF Read16
<1>4. Opcode \in Byte /\ Argument8 \in Byte /\ Argument16 \in Word
  BY <1>2, <1>3 DEF Opcode, Argument8, Argument16
<1>5. \A n \in Int : Add16(reg.pc, n) \in Word /\ Add16(reg.x, n) \in Word
  <2>1. reg.pc \in Int /\ reg.x \in Int
    BY <1>1, NumberTypes
  <2> QED BY <2>1, WordOf
<1>6. \A mode \in {"inh", "imb", "dir", "idx", "rel", "imw", "ext"} : After(mode) \in Word
  BY <1>5 DEF After
<1>7. \A mode \in {"dir", "idx", "ext"} : Address(mode) \in Word
  <2>1. Argument8 \in Word /\ Argument8 \in Int
    BY <1>4, NumberTypes
  <2> QED BY <1>4, <1>5, <2>1 DEF Address
<1>8. \A mode \in {"imb", "dir", "idx", "ext"} : Operand8(mode) \in Byte
  BY <1>2, <1>4 DEF Operand8
<1>9. \A mode \in {"imw", "dir", "idx", "ext"} : Operand16(mode) \in Word
  BY <1>3, <1>4 DEF Operand16
<1> QED BY <1>4, <1>6, <1>7, <1>8, <1>9

Keeps == reg' \in Registers /\ MemoryOK(memory')

LEMMA AccumulatorTypes ==
  ASSUME CpuTypeOK, AccumulatorOp
  PROVE  Keeps
<1> DEFINE name == AccumulatorNames[Column]
           l == reg[Accumulator]
           r == Operand8(ByteMode)
           res == Arithmetic(name, l, r)
<1>1. reg \in Registers /\ MemoryOK(memory) /\ reg.cc \in Flags /\ reg.cc.c \in BOOLEAN
  BY DEF CpuTypeOK, Registers, Flags
<1>2. Row \in 8 .. 15 /\ Column \in {0, 1, 2, 4, 5, 6, 8, 9, 10, 11}
  BY OperandTypes, RowAndColumn, RowsOfInstructions
<1>3. ByteMode \in {"imb", "dir", "idx", "ext"}
  BY <1>2 DEF ByteMode
<1>4. r \in Byte /\ After(ByteMode) \in Word
  BY <1>3, OperandTypes
<1>5. name \in {"sub", "cmp", "sbc", "and", "bit", "lda", "eor", "adc", "ora", "add"}
  BY <1>2 DEF AccumulatorNames
<1>6. Accumulator \in {"a", "b"} /\ l \in Byte
  BY <1>1 DEF Accumulator, Registers
<1> HIDE DEF l, r, name
<1>7. res \in Results
  <2>0. FALSE \in BOOLEAN
    OBVIOUS
  <2>1. CASE name = "add"
    BY <1>1, <1>4, <1>6, <2>0, <2>1, AddTypes, Zenon DEF Arithmetic
  <2>2. CASE name = "adc"
    BY <1>1, <1>4, <1>6, <2>0, <2>2, AddTypes, Zenon DEF Arithmetic
  <2>3. CASE name \in {"sub", "cmp"}
    BY <1>1, <1>4, <1>6, <2>0, <2>3, SubTypes, Zenon DEF Arithmetic
  <2>4. CASE name = "sbc"
    BY <1>1, <1>4, <1>6, <2>0, <2>4, SubTypes, Zenon DEF Arithmetic
  <2>5. CASE name \in {"and", "bit"}
    BY <1>1, <1>4, <1>6, <2>0, <2>5, BitsTypes, LogicTypes, Zenon DEF Arithmetic
  <2>6. CASE name = "ora"
    BY <1>1, <1>4, <1>6, <2>0, <2>6, BitsTypes, LogicTypes, Zenon DEF Arithmetic
  <2>7. CASE name = "eor"
    BY <1>1, <1>4, <1>6, <2>0, <2>7, BitsTypes, LogicTypes, Zenon DEF Arithmetic
  <2>8. CASE name = "lda"
    BY <1>1, <1>4, <1>6, <2>0, <2>8, LogicTypes, Zenon DEF Arithmetic
  <2> QED BY <1>5, <2>1, <2>2, <2>3, <2>4, <2>5, <2>6, <2>7, <2>8
<1>8. /\ reg' = [reg EXCEPT ![Accumulator] = IF name \in {"cmp", "bit"} THEN l ELSE res.out,
                           !.cc = res.cc, !.pc = After(ByteMode)]
      /\ memory' = memory
  BY DEF AccumulatorOp, Executes, l, r, name
<1> HIDE DEF res
<1>9. res.out \in Byte /\ res.cc \in Flags
  BY <1>7 DEF Results
<1>10. reg' \in Registers
  BY <1>1, <1>4, <1>6, <1>8, <1>9 DEF Registers
<1> QED BY <1>1, <1>8, <1>10 DEF Keeps

LEMMA StoreByteTypes ==
  ASSUME CpuTypeOK, StoreByte
  PROVE  Keeps
<1>1. reg \in Registers /\ MemoryOK(memory) /\ reg.cc \in Flags
  BY DEF CpuTypeOK, Registers
<1>2. Row \in {9, 10, 11, 13, 14, 15}
  BY DEF StoreByte
<1>3. ByteMode \in {"dir", "idx", "ext"}
  BY <1>2 DEF ByteMode
<1>4. After(ByteMode) \in Word
  BY <1>3, OperandTypes
<1> DEFINE value == reg[Accumulator]
           cc == Logic8(reg.cc, value).cc
<1>5. value \in Byte
  BY <1>1 DEF Accumulator, Registers
<1>6. cc \in Flags
  BY <1>1, <1>5, LogicTypes DEF Results
<1>7. reg' = [reg EXCEPT !.cc = cc, !.pc = After(ByteMode)]
      /\ memory' = Write8(memory, Address(ByteMode), value)
  BY DEF StoreByte, Executes
<1> HIDE DEF cc, value
<1>8. reg' \in Registers
  BY <1>1, <1>4, <1>6, <1>7 DEF Registers
<1>9. MemoryOK(memory')
  BY <1>1, <1>5, <1>7, WriteTypes
<1> QED BY <1>8, <1>9 DEF Keeps

LEMMA WordTypes ==
  ASSUME CpuTypeOK, NEW value \in Word
  PROVE  Logic16(reg.cc, value).cc \in Flags /\ Logic16(reg.cc, value).out = value
<1> DEFINE f == SetNz16(reg.cc, value)
           v == FALSE
<1>1. f \in Flags /\ v \in BOOLEAN
  <2>1. reg.cc \in Flags /\ value \in Int
    BY NumberTypes DEF CpuTypeOK, Registers
  <2> QED BY <2>1, SetNzTypes
<1>2. Logic16(reg.cc, value) = Result(value, [f EXCEPT !.v = v])
  BY Zenon DEF Logic16
<1> HIDE DEF f, v
<1>3. [f EXCEPT !.v = v] \in Flags
  BY <1>1, FlagTypes
<1> DEFINE cc == [f EXCEPT !.v = v]
<1> HIDE DEF cc
<1>4. Logic16(reg.cc, value) = [out |-> value, cc |-> cc]
  BY <1>2, Zenon DEF Result, cc
<1> QED BY <1>3, <1>4 DEF cc

LEMMA LoadWordTypes ==
  ASSUME CpuTypeOK, LoadWord
  PROVE  Keeps
<1>1. reg \in Registers /\ MemoryOK(memory)
  BY DEF CpuTypeOK
<1>2. Row \in 8 .. 15
  BY OperandTypes, RowAndColumn, RowsOfInstructions
<1>3. WordMode \in {"imw", "dir", "idx", "ext"}
  BY <1>2 DEF WordMode
<1> DEFINE value == Operand16(WordMode)
<1>4. After(WordMode) \in Word /\ value \in Word
  BY <1>3, OperandTypes
<1>5. WordRegister \in {"sp", "x"}
  BY DEF WordRegister
<1> HIDE DEF value
<1> DEFINE r == Logic16(reg.cc, value)
<1>6. r.cc \in Flags /\ r.out \in Word
  BY <1>4, WordTypes
<1>7. reg' = [reg EXCEPT ![WordRegister] = r.out, !.cc = r.cc, !.pc = After(WordMode)]
      /\ memory' = memory
  BY DEF LoadWord, Executes, value
<1> HIDE DEF r
<1>8. reg' \in Registers
  BY <1>1, <1>4, <1>5, <1>6, <1>7 DEF Registers
<1> QED BY <1>1, <1>7, <1>8 DEF Keeps

LEMMA StoreWordTypes ==
  ASSUME CpuTypeOK, StoreWord
  PROVE  Keeps
<1>1. reg \in Registers /\ MemoryOK(memory)
  BY DEF CpuTypeOK
<1>2. Row \in {9, 10, 11, 13, 14, 15}
  BY DEF StoreWord
<1>3. WordMode \in {"dir", "idx", "ext"}
  BY <1>2 DEF WordMode
<1> DEFINE value == reg[WordRegister]
<1>4. After(WordMode) \in Word
  BY <1>3, OperandTypes
<1>5. value \in Word
  BY <1>1 DEF WordRegister, Registers
<1> HIDE DEF value
<1> DEFINE cc == Logic16(reg.cc, value).cc
<1>6. cc \in Flags
  BY <1>5, WordTypes
<1>7. reg' = [reg EXCEPT !.cc = cc, !.pc = After(WordMode)]
      /\ memory' = Write16(memory, Address(WordMode), value)
  BY DEF StoreWord, Executes, value
<1> HIDE DEF cc
<1>8. reg' \in Registers
  BY <1>1, <1>4, <1>6, <1>7 DEF Registers
<1>9. MemoryOK(memory')
  BY <1>1, <1>5, <1>7, WriteTypes, BytesOfWord DEF Write16
<1> QED BY <1>8, <1>9 DEF Keeps

LEMMA CompareXTypes ==
  ASSUME CpuTypeOK, ComparesX
  PROVE  Keeps
<1>1. reg \in Registers /\ MemoryOK(memory) /\ reg.cc \in Flags /\ reg.x \in Word
  BY DEF CpuTypeOK, Registers
<1>2. Row \in 8 .. 11
  BY DEF ComparesX
<1>3. WordMode \in {"imw", "dir", "idx", "ext"}
  BY <1>2 DEF WordMode
<1> DEFINE value == Operand16(WordMode)
<1>4. After(WordMode) \in Word /\ value \in Word
  BY <1>3, OperandTypes
<1>5. reg' = [reg EXCEPT !.cc = CompareX(reg.cc, reg.x, value), !.pc = After(WordMode)]
      /\ memory' = memory
  BY DEF ComparesX, Executes
<1> HIDE DEF value
<1> DEFINE high == Sub8(reg.cc, reg.x \div 256, value \div 256, FALSE).cc
           z == reg.x = value
<1>6. high \in Flags
  <2>1. FALSE \in BOOLEAN
    OBVIOUS
  <2>2. reg.x \div 256 \in Byte /\ value \div 256 \in Byte
    BY <1>1, <1>4, BytesOfWord
  <2>3. Sub8(reg.cc, reg.x \div 256, value \div 256, FALSE) \in Results
    BY <1>1, <2>1, <2>2, SubTypes, Zenon
  <2> QED BY <2>3 DEF Results
<1>7. CompareX(reg.cc, reg.x, value) = [reg.cc EXCEPT !.n = high.n, !.v = high.v, !.z = z]
  BY Zenon DEF CompareX
<1>8. z \in BOOLEAN /\ high.n \in BOOLEAN /\ high.v \in BOOLEAN
  BY <1>6 DEF Flags
<1> DEFINE n == high.n
           v == high.v
           cc == reg.cc
<1>9. CompareX(reg.cc, reg.x, value) \in Flags
  <2>1. cc \in Flags /\ n \in BOOLEAN /\ v \in BOOLEAN /\ z \in BOOLEAN
    BY <1>1, <1>8
  <2> HIDE DEF cc, n, v, z
  <2>2. [cc EXCEPT !.n = n, !.v = v, !.z = z] \in Flags
    BY <2>1, FlagTypes
  <2> QED BY <1>7, <2>2, Zenon DEF cc, n, v
<1> HIDE DEF high, z
<1>10. reg' \in Registers
  BY <1>1, <1>4, <1>5, <1>9 DEF Registers
<1> QED BY <1>1, <1>5, <1>10 DEF Keeps

LEMMA UnaryResultTypes ==
  ASSUME CpuTypeOK, NEW column \in {0, 3, 4, 6, 7, 8, 9, 10, 12, 13, 15}, NEW value \in Byte
  PROVE  UnaryResult(UnaryNames[column], value) \in Results
<1> DEFINE name == UnaryNames[column]
<1>1. reg.cc \in Flags
  BY DEF CpuTypeOK, Registers
<1>2. name \in {"neg", "com", "lsr", "ror", "asr", "asl", "rol", "dec", "inc", "tst", "clr"}
  BY DEF UnaryNames
<1> HIDE DEF name
<1>3. CASE name \in {"neg", "com", "dec", "inc", "tst", "clr"}
  <2>1. UnaryResult(name, value)
          \in {Neg8(reg.cc, value), Com8(reg.cc, value), Dec8(reg.cc, value),
              Inc8(reg.cc, value), Test8(reg.cc, value), Clear8(reg.cc)}
    BY <1>3 DEF UnaryResult
  <2>2. /\ Inc8(reg.cc, value) \in Results /\ Dec8(reg.cc, value) \in Results
        /\ Neg8(reg.cc, value) \in Results /\ Com8(reg.cc, value) \in Results
        /\ Clear8(reg.cc) \in Results /\ Test8(reg.cc, value) \in Results
    BY <1>1, UnaryTypes
  <2> QED BY <2>1, <2>2 DEF name
<1>4. CASE name \in {"lsr", "ror", "asr", "asl", "rol"}
  <2>1. UnaryResult(name, value) = Shift8(reg.cc, value, name)
    BY <1>4 DEF UnaryResult
  <2>2. Shift8(reg.cc, value, name) \in Results
    BY <1>1, <1>4, ShiftTypes
  <2> QED BY <2>1, <2>2 DEF name
<1> QED BY <1>2, <1>3, <1>4 DEF name

LEMMA UnaryRegisterTypes ==
  ASSUME CpuTypeOK, UnaryRegister
  PROVE  Keeps
<1>1. reg \in Registers /\ MemoryOK(memory)
  BY DEF CpuTypeOK
<1> DEFINE acc == IF Row = 4 THEN "a" ELSE "b"
           value == reg[acc]
           r == UnaryResult(UnaryNames[Column], value)
<1>2. acc \in {"a", "b"} /\ value \in Byte /\ After("inh") \in Word
  BY <1>1, OperandTypes DEF Registers
<1>3. reg' = [reg EXCEPT ![acc] = r.out, !.cc = r.cc, !.pc = After("inh")] /\ memory' = memory
  BY DEF UnaryRegister, Executes
<1> HIDE DEF acc, value
<1>4. r.out \in Byte /\ r.cc \in Flags
  BY <1>2, RowsOfInstructions, UnaryResultTypes DEF Results
<1> HIDE DEF r
<1>5. reg' \in Registers
  BY <1>1, <1>2, <1>3, <1>4 DEF Registers
<1> QED BY <1>1, <1>3, <1>5 DEF Keeps

LEMMA UnaryMemoryTypes ==
  ASSUME CpuTypeOK, UnaryMemory
  PROVE  Keeps
<1>1. reg \in Registers /\ MemoryOK(memory)
  BY DEF CpuTypeOK
<1> DEFINE value == Read8(Address(UnaryMode))
           r == UnaryResult(UnaryNames[Column], value)
<1>2. Row \in {6, 7}
  BY DEF UnaryMemory
<1>3. UnaryMode \in {"idx", "ext"}
  BY <1>2 DEF UnaryMode
<1>4. After(UnaryMode) \in Word /\ value \in Byte
  BY <1>1, <1>3, OperandTypes, ReadTypes DEF Read8
<1>5. /\ reg' = [reg EXCEPT !.cc = r.cc, !.pc = After(UnaryMode)]
      /\ memory' = IF UnaryNames[Column] = "tst" THEN memory
                     ELSE Write8(memory, Address(UnaryMode), r.out)
  BY DEF UnaryMemory, Executes
<1> HIDE DEF value
<1>6. r.out \in Byte /\ r.cc \in Flags
  BY <1>4, RowsOfInstructions, UnaryResultTypes DEF Results
<1> HIDE DEF r
<1>7. reg' \in Registers
  BY <1>1, <1>4, <1>5, <1>6 DEF Registers
<1>8. MemoryOK(memory')
  BY <1>1, <1>5, <1>6, WriteTypes
<1> QED BY <1>7, <1>8 DEF Keeps

\* What only moves the program counter and the stack.
LEMMA JumpTypes ==
  ASSUME CpuTypeOK, Branches \/ Jumps \/ Calls \/ ReturnsFromCall
  PROVE  Keeps
<1>1. reg \in Registers /\ MemoryOK(memory) /\ reg.pc \in Int /\ reg.sp \in Int
  BY NumberTypes DEF CpuTypeOK, Registers
<1>2. RelativeTarget \in Word /\ After("rel") \in Word
  <2>1. Signed(Argument8) \in Int
    BY OperandTypes DEF Signed, Negative, Byte
  <2> QED BY <2>1, OperandTypes, NumberTypes, WordOf DEF RelativeTarget
<1>3. \A n \in Int : Popped(n) \in Byte /\ Popped16(n) \in Word
  <2>1. \A n : Popped(n) \in Byte
    BY <1>1, ReadTypes DEF Popped, Read8
  <2> QED BY <2>1, WordOfBytes DEF Popped16
<1>4. \A n \in Int : Add16(reg.sp, n) \in Word
  BY <1>1, WordOf
<1>5. \A to \in Word : [reg EXCEPT !.pc = to] \in Registers
  BY <1>1 DEF Registers
<1>6. \A to, sp \in Word : [reg EXCEPT !.pc = to, !.sp = sp] \in Registers
  BY <1>1 DEF Registers
<1>7. ASSUME Branches
      PROVE  Keeps
  <2>1. PICK to \in Word : reg' = [reg EXCEPT !.pc = to] /\ memory' = memory
    BY <1>2, <1>7, Zenon DEF Branches, Executes
  <2> QED BY <1>1, <1>5, <2>1 DEF Keeps
<1>8. ASSUME Jumps
      PROVE  Keeps
  <2>1. UnaryMode \in {"idx", "ext"}
    <3>1. Row \in {6, 7}
      BY <1>8, OperandTypes, RowsOfOpcodes
    <3> QED BY <3>1 DEF UnaryMode
  <2>2. reg' = [reg EXCEPT !.pc = Address(UnaryMode)] /\ memory' = memory
    BY <1>8 DEF Jumps, Executes
  <2>3. Address(UnaryMode) \in Word
    BY <2>1, OperandTypes
  <2> QED BY <1>1, <1>5, <2>2, <2>3 DEF Keeps
<1>9. ASSUME Calls
      PROVE  Keeps
  <2> DEFINE mode == IF Opcode = 141 THEN "rel" ELSE WordMode
             to == IF Opcode = 141 THEN RelativeTarget ELSE Address(mode)
             back == After(mode)
             sp == Add16(reg.sp, -2)
  <2>1. to \in Word /\ back \in Word /\ sp \in Word
    <3>1. CASE Opcode = 141
      BY <1>2, <1>4, <3>1
    <3>2. CASE Opcode # 141
      <4>1. Row \in {10, 11}
        BY <1>9, <3>2 DEF Calls, Row
      <4>2. WordMode \in {"idx", "ext"}
        BY <4>1 DEF WordMode
      <4> QED BY <1>4, <3>2, <4>2, OperandTypes
    <3> QED BY <3>1, <3>2
  <2>2. reg' = [reg EXCEPT !.pc = to, !.sp = sp] /\ memory' = Pushed(memory, reg.sp, Bytes16(back))
    BY <1>9, Zenon DEF Calls, Executes
  <2> HIDE DEF mode, to, back, sp
  <2>3. MemoryOK(memory')
    <3>1. back \div 256 \in Byte /\ back % 256 \in Byte
      BY <2>1, BytesOfWord
    <3>2. Bytes16(back) \in [1 .. 2 -> Byte] /\ Len(Bytes16(back)) = 2 /\ 2 \in Nat
      BY <3>1 DEF Bytes16
    <3> QED BY <1>1, <2>2, <3>2, PushTypes
  <2> QED BY <1>6, <2>1, <2>2, <2>3 DEF Keeps
<1>10. ASSUME ReturnsFromCall
       PROVE  Keeps
  <2>1. reg' = [reg EXCEPT !.pc = Popped16(1), !.sp = Add16(reg.sp, 2)] /\ memory' = memory
    BY <1>10 DEF ReturnsFromCall, Executes
  <2>2. Popped16(1) \in Word /\ Add16(reg.sp, 2) \in Word
    BY <1>3, <1>4
  <2> QED BY <1>1, <1>6, <2>1, <2>2 DEF Keeps
<1> QED BY <1>7, <1>8, <1>9, <1>10
LEMMA FlagBytes ==
  /\ \A cc \in Flags : ConditionCodes(cc) \in Byte
  /\ \A value \in Byte : FromByte(value) \in Flags
<1>1. ASSUME NEW cc \in Flags
      PROVE  ConditionCodes(cc) \in Byte
  <2>1. \A p \in BOOLEAN : Bit(p) \in 0 .. 1
    BY DEF Bit
  <2>2. /\ Bit(cc.c) \in 0 .. 1 /\ Bit(cc.v) \in 0 .. 1 /\ Bit(cc.z) \in 0 .. 1
        /\ Bit(cc.n) \in 0 .. 1 /\ Bit(cc.i) \in 0 .. 1 /\ Bit(cc.h) \in 0 .. 1
        /\ cc.top \in 0 .. 3
    BY <2>1 DEF Flags
  <2> QED BY <2>2 DEF ConditionCodes, Byte
<1>2. ASSUME NEW value \in Byte
      PROVE  FromByte(value) \in Flags
  <2> DEFINE on(weight) == (value \div weight) % 2 = 1
             f == [c |-> on(1), v |-> on(2), z |-> on(4), n |-> on(8), i |-> on(16),
                   h |-> on(32), top |-> value \div 64]
  <2>1. /\ on(1) \in BOOLEAN /\ on(2) \in BOOLEAN /\ on(4) \in BOOLEAN /\ on(8) \in BOOLEAN
        /\ on(16) \in BOOLEAN /\ on(32) \in BOOLEAN
    BY DEF Byte
  <2>2. value \div 64 \in 0 .. 3
    BY DEF Byte
  <2> HIDE DEF on
  <2>3. f \in Flags
    BY <2>1, <2>2 DEF Flags
  <2>4. FromByte(value) = f
    BY Zenon DEF FromByte, on
  <2> QED BY <2>3, <2>4
<1> QED BY <1>1, <1>2

LEMMA InterruptTypes ==
  ASSUME CpuTypeOK, SoftwareInterrupt \/ ReturnsFromInterrupt
  PROVE  Keeps
<1>1. reg \in Registers /\ MemoryOK(memory) /\ reg.cc \in Flags
  BY DEF CpuTypeOK, Registers
<1>2. \A n : Add16(reg.sp, n) \in Word \/ n \notin Int
  BY <1>1, WordOf, NumberTypes DEF Registers
<1>3. ASSUME SoftwareInterrupt
      PROVE  Keeps
  <2> DEFINE back == After("inh")
             bytes == <<ConditionCodes(reg.cc), reg.b, reg.a, reg.x \div 256, reg.x % 256,
                        back \div 256, back % 256>>
             cells == Pushed(memory, reg.sp, bytes)
             sp == Add16(reg.sp, -7)
             to == (256 * ReadFrom(cells, SwiVector)) + ReadFrom(cells, SwiVector + 1)
             yes == TRUE
  <2>1. /\ ConditionCodes(reg.cc) \in Byte /\ reg.b \in Byte /\ reg.a \in Byte
        /\ reg.x \div 256 \in Byte /\ reg.x % 256 \in Byte
        /\ back \div 256 \in Byte /\ back % 256 \in Byte
    <3>1. reg.x \in Word /\ back \in Word
      BY <1>1, OperandTypes DEF Registers
    <3> QED BY <1>1, <3>1, FlagBytes, BytesOfWord DEF Registers
  <2>2. bytes \in [1 .. 7 -> Byte] /\ Len(bytes) = 7 /\ 7 \in Nat
    <3> HIDE DEF back
    <3> QED BY <2>1
  <2>3. reg' = [reg EXCEPT !.sp = sp, !.cc.i = yes, !.pc = to] /\ memory' = cells
    <3>1. Executes([reg EXCEPT !.sp = sp, !.cc.i = TRUE, !.pc = to], cells)
      BY <1>3, Zenon DEF SoftwareInterrupt
    <3> QED BY <3>1 DEF Executes
  <2> HIDE DEF bytes, back
  <2>4. MemoryOK(cells)
    BY <1>1, <2>2, PushTypes
  <2> HIDE DEF cells
  <2>5. to \in Word
    BY <2>4, ReadTypes, WordOfBytes
  <2>6. sp \in Word
    BY <1>2
  <2>7. yes \in BOOLEAN
    OBVIOUS
  <2> HIDE DEF sp, to, yes
  <2>8. [reg.cc EXCEPT !.i = yes] \in Flags
    BY <1>1, <2>7, FlagTypes
  <2>9. reg' \in Registers
    BY <1>1, <2>3, <2>5, <2>6, <2>8 DEF Registers
  <2> QED BY <2>3, <2>4, <2>9 DEF Keeps
<1>4. ASSUME ReturnsFromInterrupt
      PROVE  Keeps
  <2>1. /\ reg' = [cc |-> FromByte(Popped(1)), b |-> Popped(2), a |-> Popped(3),
                   x |-> Popped16(4), pc |-> Popped16(6), sp |-> Add16(reg.sp, 7)]
        /\ memory' = memory
    BY <1>4 DEF ReturnsFromInterrupt, Executes
  <2>2. \A n : Popped(n) \in Byte
    BY <1>1, ReadTypes DEF Popped, Read8
  <2>3. \A n : Popped16(n) \in Word
    BY <2>2, WordOfBytes DEF Popped16
  <2>4. Add16(reg.sp, 7) \in Word
    BY <1>2
  <2>5. FromByte(Popped(1)) \in Flags
    BY <2>2, FlagBytes
  <2>6. reg' \in Registers
    BY <2>1, <2>2, <2>3, <2>4, <2>5 DEF Registers
  <2> QED BY <1>1, <2>1, <2>6 DEF Keeps
<1> QED BY <1>3, <1>4

LEMMA PushAndPullTypes ==
  ASSUME CpuTypeOK, Pushes \/ Pulls
  PROVE  Keeps
<1>1. reg \in Registers /\ MemoryOK(memory) /\ After("inh") \in Word
  BY OperandTypes DEF CpuTypeOK
<1>2. Add16(reg.sp, -1) \in Word /\ Add16(reg.sp, 1) \in Word
  <2>1. reg.sp \in Int
    BY <1>1, NumberTypes DEF Registers
  <2> QED BY <2>1, WordOf
<1>3. ASSUME Pushes
      PROVE  Keeps
  <2> DEFINE value == reg[IF Opcode = 54 THEN "a" ELSE "b"]
  <2>1. value \in Byte
    BY <1>1 DEF Registers
  <2>2. /\ reg' = [reg EXCEPT !.sp = Add16(reg.sp, -1), !.pc = After("inh")]
        /\ memory' = Pushed(memory, reg.sp, <<value>>)
    BY <1>3 DEF Pushes, Executes
  <2> HIDE DEF value
  <2>3. <<value>> \in [1 .. 1 -> Byte] /\ Len(<<value>>) = 1 /\ 1 \in Nat
    BY <2>1
  <2>4. MemoryOK(memory')
    BY <1>1, <2>2, <2>3, PushTypes
  <2>5. reg' \in Registers
    BY <1>1, <1>2, <2>2 DEF Registers
  <2> QED BY <2>4, <2>5 DEF Keeps
<1>4. ASSUME Pulls
      PROVE  Keeps
  <2> DEFINE acc == IF Opcode = 50 THEN "a" ELSE "b"
  <2>1. /\ reg' = [reg EXCEPT ![acc] = Popped(1), !.sp = Add16(reg.sp, 1), !.pc = After("inh")]
        /\ memory' = memory
    BY <1>4 DEF Pulls, Executes
  <2>2. Popped(1) \in Byte
    BY <1>1, ReadTypes DEF Popped, Read8
  <2>3. acc \in {"a", "b"}
    OBVIOUS
  <2> HIDE DEF acc
  <2>4. reg' \in Registers
    BY <1>1, <1>2, <2>1, <2>2, <2>3 DEF Registers
  <2> QED BY <1>1, <2>1, <2>4 DEF Keeps
<1> QED BY <1>3, <1>4

LEMMA InherentTypes ==
  ASSUME CpuTypeOK, IndexAndStack \/ BetweenAccumulators \/ FlagsAndNop
  PROVE  Keeps
<1>1. /\ reg \in Registers /\ MemoryOK(memory) /\ After("inh") \in Word
      /\ reg.cc \in Flags /\ reg.a \in Byte /\ reg.b \in Byte /\ reg.x \in Word /\ reg.sp \in Word
  BY OperandTypes DEF CpuTypeOK, Registers
<1>2. \A n \in Int : Add16(reg.sp, n) \in Word /\ Add16(reg.x, n) \in Word
  BY <1>1, WordOf, NumberTypes
<1>3. ASSUME IndexAndStack
      PROVE  Keeps
  <2> DEFINE x == CASE Opcode = 8 -> Add16(reg.x, 1) [] Opcode = 9 -> Add16(reg.x, -1)
                    [] Opcode = 48 -> Add16(reg.sp, 1) [] OTHER -> reg.x
             sp == CASE Opcode = 49 -> Add16(reg.sp, 1) [] Opcode = 52 -> Add16(reg.sp, -1)
                     [] Opcode = 53 -> Add16(reg.x, -1) [] OTHER -> reg.sp
             z == IF Opcode \in {8, 9} THEN x = 0 ELSE reg.cc.z
  <2>1. x \in Word
    BY <1>1, <1>2
  <2>2. sp \in Word
    BY <1>1, <1>2
  <2>3. z \in BOOLEAN
    BY <1>1 DEF Flags
  <2>4. /\ reg' = [reg EXCEPT !.x = x, !.sp = sp, !.pc = After("inh"), !.cc.z = z]
        /\ memory' = memory
    BY <1>3, Zenon DEF IndexAndStack, Executes
  <2> HIDE DEF x, sp, z
  <2>5. [reg.cc EXCEPT !.z = z] \in Flags
    BY <1>1, <2>3, FlagTypes
  <2>6. reg' \in Registers
    BY <1>1, <2>1, <2>2, <2>4, <2>5 DEF Registers
  <2> QED BY <1>1, <2>4, <2>6 DEF Keeps
<1>4. ASSUME BetweenAccumulators
      PROVE  Keeps
  <2> DEFINE r == CASE Opcode \in {16, 17} -> Sub8(reg.cc, reg.a, reg.b, FALSE)
                    [] Opcode = 22 -> Logic8(reg.cc, reg.a)
                    [] Opcode = 23 -> Logic8(reg.cc, reg.b)
                    [] Opcode = 25 -> DecimalAdjust(reg.cc, reg.a)
                    [] Opcode = 27 -> Add8(reg.cc, reg.a, reg.b, FALSE)
  <2>1. /\ reg' = [reg EXCEPT !.a = IF Opcode \in {17, 22} THEN reg.a ELSE r.out,
                              !.b = IF Opcode = 22 THEN r.out ELSE reg.b,
                              !.cc = r.cc, !.pc = After("inh")]
        /\ memory' = memory
    BY <1>4, Zenon DEF BetweenAccumulators, Executes
  <2>2. r \in Results
    <3> DEFINE no == FALSE
    <3>1. no \in BOOLEAN
      OBVIOUS
    <3>2. r \in {Sub8(reg.cc, reg.a, reg.b, no), Logic8(reg.cc, reg.a), Logic8(reg.cc, reg.b),
                 DecimalAdjust(reg.cc, reg.a), Add8(reg.cc, reg.a, reg.b, no)}
      BY <1>4 DEF BetweenAccumulators
    <3> HIDE DEF no, r
    <3>3. /\ Sub8(reg.cc, reg.a, reg.b, no) \in Results
          /\ Add8(reg.cc, reg.a, reg.b, no) \in Results
          /\ Logic8(reg.cc, reg.a) \in Results /\ Logic8(reg.cc, reg.b) \in Results
          /\ DecimalAdjust(reg.cc, reg.a) \in Results
      BY <1>1, <3>1, SubTypes, AddTypes, LogicTypes, AdjustTypes
    <3> QED BY <3>2, <3>3
  <2> HIDE DEF r
  <2>3. r.out \in Byte /\ r.cc \in Flags
    BY <2>2 DEF Results
  <2>4. reg' \in Registers
    BY <1>1, <2>1, <2>3 DEF Registers
  <2> QED BY <1>1, <2>1, <2>4 DEF Keeps
<1>5. ASSUME FlagsAndNop
      PROVE  Keeps
  <2> DEFINE v == Opcode = 11
             c == Opcode = 13
             i == Opcode = 15
             cc == CASE Opcode = 6 -> FromByte(reg.a)
                     [] Opcode \in {10, 11} -> [reg.cc EXCEPT !.v = v]
                     [] Opcode \in {12, 13} -> [reg.cc EXCEPT !.c = c]
                     [] Opcode \in {14, 15} -> [reg.cc EXCEPT !.i = i]
                     [] OTHER -> reg.cc
             a == IF Opcode = 7 THEN ConditionCodes(reg.cc) ELSE reg.a
  <2>1. reg' = [reg EXCEPT !.a = a, !.cc = cc, !.pc = After("inh")] /\ memory' = memory
    BY <1>5, Zenon DEF FlagsAndNop, Executes
  <2>2. v \in BOOLEAN /\ c \in BOOLEAN /\ i \in BOOLEAN
    OBVIOUS
  <2> HIDE DEF v, c, i
  <2>3. /\ FromByte(reg.a) \in Flags /\ [reg.cc EXCEPT !.v = v] \in Flags
        /\ [reg.cc EXCEPT !.c = c] \in Flags /\ [reg.cc EXCEPT !.i = i] \in Flags
    BY <1>1, <2>2, FlagTypes, FlagBytes
  <2>4. cc \in {FromByte(reg.a), [reg.cc EXCEPT !.v = v], [reg.cc EXCEPT !.c = c],
                [reg.cc EXCEPT !.i = i], reg.cc}
    BY Zenon
  <2>5. a \in Byte
    BY <1>1, FlagBytes
  <2> HIDE DEF cc, a
  <2>6. cc \in Flags
    BY <1>1, <2>3, <2>4, Zenon
  <2>7. reg' \in Registers
    BY <1>1, <2>1, <2>5, <2>6 DEF Registers
  <2> QED BY <1>1, <2>1, <2>7 DEF Keeps
<1> QED BY <1>3, <1>4, <1>5
\* Every instruction keeps the width of every register and cell.
LEMMA InstructionTypes ==
  ASSUME CpuTypeOK, Instructions
  PROVE  Keeps
BY AccumulatorTypes, StoreByteTypes, LoadWordTypes, StoreWordTypes, CompareXTypes,
   UnaryRegisterTypes, UnaryMemoryTypes, JumpTypes, InterruptTypes, PushAndPullTypes,
   InherentTypes DEF Instructions

\* For every program and any memory, no step of the CPU leaves a register or a cell
\* wider than it is: cpu_ops_*.cpp compute in int and store in uint8_t and uint16_t.
THEOREM CpuTypeCorrect == CpuSpec => []CpuTypeOK
<1>1. CpuInit => CpuTypeOK
  <2> SUFFICES ASSUME CpuInit
               PROVE  CpuTypeOK
    OBVIOUS
  <2>1. task \in Tasks /\ reg \in Registers
    BY TasksAssumption DEF CpuInit
  <2>2. \A addr \in DOMAIN task.memory : task.memory[addr] \in Byte
    BY <2>1, TasksAssumption
  <2>3. MemoryOK(memory)
    BY <2>2 DEF CpuInit, MemoryOK, Byte
  <2>4. lastpc \in Word
    BY DEF CpuInit, Word
  <2>5. status = "running"
    BY DEF CpuInit
  <2> QED BY <2>1, <2>3, <2>4, <2>5 DEF CpuTypeOK
<1>2. CpuTypeOK /\ [CpuNext]_cpuVars => CpuTypeOK'
  <2> SUFFICES ASSUME CpuTypeOK, [CpuNext]_cpuVars
               PROVE  CpuTypeOK'
    OBVIOUS
  <2>1. CASE Instructions
    <3>1. lastpc' \in Word /\ UNCHANGED <<status, task>>
      <4>1. lastpc' = reg.pc /\ UNCHANGED <<status, task>>
        BY <2>1 DEF Instructions, Executes, AccumulatorOp, StoreByte, LoadWord, StoreWord,
             ComparesX, UnaryRegister, UnaryMemory, Branches, Jumps, Calls, ReturnsFromCall,
             SoftwareInterrupt, ReturnsFromInterrupt, Pushes, Pulls, IndexAndStack,
             BetweenAccumulators, FlagsAndNop
      <4> QED BY <4>1 DEF CpuTypeOK, Registers
    <3> QED BY <2>1, <3>1, InstructionTypes DEF CpuTypeOK, Keeps, MemoryOK
  <2>2. CASE StopsInLoop
    BY <2>2 DEF StopsInLoop, CpuTypeOK, MemoryOK
  <2>3. CASE Unimplemented
    <3>1. Add16(reg.pc, 1) \in Word
      BY WordOf, NumberTypes DEF CpuTypeOK, Registers
    <3>2. reg' \in Registers
      BY <2>3, <3>1 DEF Unimplemented, CpuTypeOK, Registers
    <3> QED BY <2>3, <3>2 DEF Unimplemented, CpuTypeOK, MemoryOK
  <2>4. CASE UNCHANGED cpuVars
    BY <2>4 DEF cpuVars, CpuTypeOK, MemoryOK
  <2> QED BY <2>1, <2>2, <2>3, <2>4 DEF CpuNext
<1> QED BY <1>1, <1>2, PTL DEF CpuSpec

-----------------------------------------------------------------------------
(* What is fetched in low memory, where the programs lie.                  *)

ProgramCellsExist == 0 .. 127 \subseteq Cells

\* What is fetched at a place of low memory.
LEMMA Fetched ==
  ASSUME CpuTypeOK, ProgramCellsExist, NEW p \in 0 .. 120, reg.pc = p
  PROVE  /\ Opcode = memory[p]
         /\ Argument8 = memory[p + 1]
         /\ Argument16 = (256 * memory[p + 1]) + memory[p + 2]
         /\ After("inh") = p + 1
         /\ \A mode \in {"imb", "dir", "idx", "rel"} : After(mode) = p + 2
         /\ \A mode \in {"imw", "ext"} : After(mode) = p + 3
<1>1. Add16(reg.pc, 1) = p + 1 /\ Add16(reg.pc, 2) = p + 2 /\ Add16(reg.pc, 3) = p + 3
      /\ Add16(p + 1, 1) = p + 2
  BY DEF Add16
<1>2. p \in Cells /\ p + 1 \in Cells /\ p + 2 \in Cells
  BY DEF ProgramCellsExist
<1>3. /\ Opcode = memory[p] /\ Argument8 = memory[p + 1]
      /\ Argument16 = (256 * memory[p + 1]) + memory[p + 2]
  BY <1>1, <1>2 DEF Opcode, Argument8, Argument16, Read8, Read16, ReadFrom
<1> QED BY <1>1, <1>3 DEF After

Compares(t) == t \in CompareTasks(Byte)

LEMMA CompareCode ==
  ASSUME NEW t, Compares(t)
  PROVE  /\ t.l \in Byte /\ t.r \in Byte /\ t.branch \in BranchNames
         /\ t.registers = PowerUp
         /\ 16 .. 19 \cup 32 .. 43 \subseteq DOMAIN t.memory
         /\ t.memory[17] = t.l /\ t.memory[19] = t.r
         /\ t.memory[32] = 150 /\ t.memory[33] = 17
         /\ t.memory[34] = 145 /\ t.memory[35] = 19
         /\ t.memory[36] \in 32 .. 47 /\ t.memory[36] # 33 /\ t.memory[37] = 2
         /\ RowOfBranches[t.memory[36] - 31] = t.branch
         /\ t.memory[38] = 32 /\ t.memory[39] = 254
         /\ t.memory[40] = 198 /\ t.memory[41] = 1
         /\ t.memory[42] = 32 /\ t.memory[43] = 254
<1>1. PICK l \in Byte, r \in Byte, i \in DOMAIN RowOfBranches \ {2} :
        t = [Task("compare", l, r, <<150, 17, 145, 19, 31 + i, 2, 32, 254, 198, 1>>)
               EXCEPT !.branch = RowOfBranches[i]]
  BY DEF Compares, CompareTasks
<1>2. t.l = l /\ t.r = r /\ t.branch = RowOfBranches[i] /\ t.registers = PowerUp
      /\ t.memory = Task("compare", l, r, <<150, 17, 145, 19, 31 + i, 2, 32, 254, 198, 1>>).memory
  BY <1>1 DEF Task
<1>3. i \in 1 .. 16 /\ i # 2
  BY DEF RowOfBranches
<1>4. RowOfBranches[i] \in BranchNames
  BY <1>3 DEF RowOfBranches, BranchNames
<1>5. /\ t.memory[32] = 150 /\ t.memory[33] = 17
      /\ t.memory[34] = 145 /\ t.memory[35] = 19
      /\ t.memory[36] = 31 + i /\ t.memory[37] = 2
      /\ t.memory[38] = 32 /\ t.memory[39] = 254
      /\ t.memory[40] = 198 /\ t.memory[41] = 1
      /\ t.memory[42] = 32 /\ t.memory[43] = 254
  BY <1>2 DEF Task, Over, At, Start, Halt, Bytes16
<1>6. t.memory[17] = l % 256 /\ t.memory[19] = r % 256
  BY <1>2 DEF Task, Over, At, Start, Halt, Bytes16
<1>7. 16 .. 19 \cup 32 .. 43 \subseteq DOMAIN t.memory
  BY <1>2 DEF Task, Over, At, Start, Halt, Bytes16
<1>8. l % 256 = l /\ r % 256 = r
  BY DEF Byte
<1> QED BY <1>2, <1>3, <1>4, <1>5, <1>6, <1>7, <1>8
LEMMA BranchEffect ==
  ASSUME CpuTypeOK, CpuNext, Runs, Opcode \in 32 .. 47, Opcode # 33
  PROVE  Executes([reg EXCEPT !.pc = IF Taken(reg.cc, RowOfBranches[Opcode - 31])
                                       THEN RelativeTarget ELSE After("rel")], memory)
<1>1. Row = 2 /\ Column = Opcode - 32 /\ Opcode \in Byte
  BY DEF Row, Column, Byte
<1>2. Implemented(Opcode)
  BY <1>1 DEF Implemented
<1>3. Branches
  BY <1>1, <1>2, OneInstruction
<1>4. Column + 1 = Opcode - 31
  BY <1>1
<1> QED BY <1>3, <1>4, Zenon DEF Branches

-----------------------------------------------------------------------------
(* What one instruction of a program does.                                 *)

\* The CPU went on to an instruction of low memory.
Proceeds(to) ==
  reg'.pc = to /\ lastpc' = reg.pc /\ status' = "running" /\ task' = task

\* A step from an instruction of low memory.
At120(p) == CpuTypeOK /\ ProgramCellsExist /\ CpuNext /\ Runs /\ p \in 0 .. 120 /\ reg.pc = p

LEMMA AccumulatorFields ==
  ASSUME CpuTypeOK, CpuNext, Runs, NEW name, NEW mode, NEW acc,
         <<Opcode, name, mode, acc>> \in
           {<<145, "cmp", "dir", "a">>, <<148, "and", "dir", "a">>, <<150, "lda", "dir", "a">>,
            <<152, "eor", "dir", "a">>, <<153, "adc", "dir", "a">>, <<154, "ora", "dir", "a">>,
            <<155, "add", "dir", "a">>, <<166, "lda", "idx", "a">>, <<198, "lda", "imb", "b">>,
            <<214, "lda", "dir", "b">>, <<224, "sub", "idx", "b">>, <<226, "sbc", "idx", "b">>,
            <<230, "lda", "idx", "b">>}
  PROVE  /\ Proceeds(After(mode)) /\ memory' = memory /\ reg'.x = reg.x /\ reg'.sp = reg.sp
         /\ name # "cmp" => reg'[acc] = Arithmetic(name, reg[acc], Operand8(mode)).out
         /\ name = "cmp" => reg'[acc] = reg[acc]
         /\ reg'.cc = Arithmetic(name, reg[acc], Operand8(mode)).cc
         /\ acc = "a" => reg'.b = reg.b
         /\ acc = "b" => reg'.a = reg.a
<1>1. Executes([reg EXCEPT ![acc] = IF name \in {"cmp", "bit"} THEN reg[acc]
                                      ELSE Arithmetic(name, reg[acc], Operand8(mode)).out,
                           !.cc = Arithmetic(name, reg[acc], Operand8(mode)).cc,
                           !.pc = After(mode)], memory)
  <2>1. /\ Row = Opcode \div 16 /\ Column = Opcode % 16 /\ Opcode \in Byte
        /\ Row >= 8 /\ Column \in {0, 1, 2, 4, 5, 6, 8, 9, 10, 11}
    BY DEF Row, Column, Byte
  <2>2. Implemented(Opcode)
    BY <2>1 DEF Implemented, AccumulatorNames
  <2>3. AccumulatorOp
    BY <2>1, <2>2, OneInstruction
  <2>4. AccumulatorNames[Column] = name /\ ByteMode = mode /\ Accumulator = acc
    BY <2>1 DEF AccumulatorNames, ByteMode, Accumulator
  <2> DEFINE op == AccumulatorNames[Column]
             at == ByteMode
             of == Accumulator
  <2>5. Executes([reg EXCEPT ![of] = IF op \in {"cmp", "bit"} THEN reg[of]
                                       ELSE Arithmetic(op, reg[of], Operand8(at)).out,
                             !.cc = Arithmetic(op, reg[of], Operand8(at)).cc,
                             !.pc = After(at)], memory)
    BY <2>3, Zenon DEF AccumulatorOp
  <2>6. op = name /\ at = mode /\ of = acc
    BY <2>4
  <2> HIDE DEF op, at, of
  <2> QED BY <2>5, <2>6
<1> DEFINE r == Arithmetic(name, reg[acc], Operand8(mode))
           out == IF name \in {"cmp", "bit"} THEN reg[acc] ELSE r.out
<1>2. name # "bit"
  OBVIOUS
<1> HIDE DEF r
<1>3. (name # "cmp" => out = r.out) /\ (name = "cmp" => out = reg[acc])
  BY <1>2
<1>4. reg \in Registers
  BY DEF CpuTypeOK
<1>5. reg' = [reg EXCEPT ![acc] = out, !.cc = r.cc, !.pc = After(mode)]
      /\ memory' = memory /\ lastpc' = reg.pc /\ status' = status /\ task' = task
  BY <1>1, Zenon DEF Executes, r, out
<1> HIDE DEF out
<1> QED BY <1>1, <1>3, <1>4 DEF Executes, Registers, Runs, Proceeds, r, out

\* An accumulator and a byte of low memory.
LEMMA DirectStep ==
  ASSUME NEW p, At120(p), NEW addr \in 0 .. 120, memory[p + 1] = addr,
         NEW name, NEW acc \in {"a", "b"},
         <<memory[p], name, acc>> \in
           {<<145, "cmp", "a">>, <<148, "and", "a">>, <<150, "lda", "a">>, <<152, "eor", "a">>,
            <<153, "adc", "a">>, <<154, "ora", "a">>, <<155, "add", "a">>, <<214, "lda", "b">>}
  PROVE  /\ Proceeds(p + 2) /\ memory' = memory /\ reg'.x = reg.x /\ reg'.sp = reg.sp
         /\ name # "cmp" => reg'[acc] = Arithmetic(name, reg[acc], memory[addr]).out
         /\ name = "cmp" => reg'[acc] = reg[acc]
         /\ reg'.cc = Arithmetic(name, reg[acc], memory[addr]).cc
         /\ acc = "a" => reg'.b = reg.b
         /\ acc = "b" => reg'.a = reg.a
<1>1. Opcode = memory[p] /\ Argument8 = addr /\ After("dir") = p + 2
  BY Fetched DEF At120
<1>2. Operand8("dir") = memory[addr]
  BY <1>1 DEF Operand8, Address, Read8, ReadFrom, ProgramCellsExist, At120
<1>3. <<Opcode, name, "dir", acc>> \in
           {<<145, "cmp", "dir", "a">>, <<148, "and", "dir", "a">>, <<150, "lda", "dir", "a">>,
            <<152, "eor", "dir", "a">>, <<153, "adc", "dir", "a">>, <<154, "ora", "dir", "a">>,
            <<155, "add", "dir", "a">>, <<214, "lda", "dir", "b">>}
  BY <1>1
<1> QED BY <1>1, <1>2, <1>3, AccumulatorFields DEF At120

\* LDAB #
LEMMA ImmediateStep ==
  ASSUME NEW p, At120(p), memory[p] = 198
  PROVE  /\ Proceeds(p + 2) /\ memory' = memory /\ reg'.x = reg.x /\ reg'.sp = reg.sp
         /\ reg'.a = reg.a /\ reg'.b = memory[p + 1] /\ reg'.cc = Logic8(reg.cc, memory[p + 1]).cc
<1>1. Opcode = 198 /\ Argument8 = memory[p + 1] /\ After("imb") = p + 2
  BY Fetched DEF At120
<1>2. Operand8("imb") = memory[p + 1]
  BY <1>1 DEF Operand8
<1>3. <<Opcode, "lda", "imb", "b">> \in {<<198, "lda", "imb", "b">>}
  BY <1>1
<1>4. Arithmetic("lda", reg.b, memory[p + 1]) = Logic8(reg.cc, memory[p + 1])
  BY DEF Arithmetic
<1>5. memory[p + 1] \in Byte /\ reg.cc \in Flags
  BY <1>1, OperandTypes DEF At120, CpuTypeOK, Registers
<1>6. Logic8(reg.cc, memory[p + 1]).out = memory[p + 1]
  BY <1>5, LogicTypes
<1>7. /\ Proceeds(p + 2) /\ memory' = memory /\ reg'.x = reg.x /\ reg'.sp = reg.sp
      /\ reg'.b = Arithmetic("lda", reg.b, memory[p + 1]).out
      /\ reg'.cc = Arithmetic("lda", reg.b, memory[p + 1]).cc
      /\ reg'.a = reg.a
  BY <1>1, <1>2, <1>3, AccumulatorFields DEF At120
<1> QED BY <1>4, <1>6, <1>7

\* A branch forwards, or to itself.
LEMMA BranchStep ==
  ASSUME NEW p, At120(p), memory[p] \in 32 .. 47, memory[p] # 33,
         NEW to \in 0 .. 120, memory[p + 1] = (to - p - 2) % 256
  PROVE  /\ memory' = memory /\ reg'.x = reg.x /\ reg'.sp = reg.sp
         /\ reg'.a = reg.a /\ reg'.b = reg.b /\ reg'.cc = reg.cc
         /\ Taken(reg.cc, RowOfBranches[memory[p] - 31]) => Proceeds(to)
         /\ ~Taken(reg.cc, RowOfBranches[memory[p] - 31]) => Proceeds(p + 2)
<1>1. Opcode = memory[p] /\ Argument8 = memory[p + 1] /\ After("rel") = p + 2
  BY Fetched DEF At120
<1>2. RelativeTarget = to
  BY <1>1 DEF RelativeTarget, Signed, Negative, Add16, At120
<1> DEFINE next == IF Taken(reg.cc, RowOfBranches[memory[p] - 31]) THEN to ELSE p + 2
<1>3. Executes([reg EXCEPT !.pc = next], memory)
  BY <1>1, <1>2, BranchEffect DEF At120
<1>4. /\ Taken(reg.cc, RowOfBranches[memory[p] - 31]) => next = to
      /\ ~Taken(reg.cc, RowOfBranches[memory[p] - 31]) => next = p + 2
  OBVIOUS
<1> HIDE DEF next
<1> QED BY <1>3, <1>4 DEF Executes, Registers, Runs, Proceeds, At120, CpuTypeOK

-----------------------------------------------------------------------------
(* The program that compares and branches.                                 *)

CompareProgram == 16 .. 19 \cup 32 .. 43

\* What holds at each instruction of the program that compares and branches.
CompareAt ==
  LET related == Relation(task.branch, task.l, task.r) IN
    \/ reg.pc = 32 /\ reg.b = 0
    \/ reg.pc = 34 /\ reg.b = 0 /\ reg.a = task.l
    \/ reg.pc = 36 /\ reg.b = 0 /\ (Taken(reg.cc, task.branch) <=> related)
    \/ reg.pc = 38 /\ reg.b = 0 /\ ~related
    \/ reg.pc = 40 /\ reg.b = 0 /\ related
    \/ reg.pc = 42 /\ reg.b = 1 /\ related

CompareInv ==
  task.name = "compare" =>
    /\ \A addr \in CompareProgram : memory[addr] = task.memory[addr]
    /\ CompareAt
    /\ status \in {"running", "stopped"}
    /\ (reg.pc = lastpc \/ status = "stopped") => reg.pc \in {38, 42}

LEMMA CompareStep ==
  ASSUME ProgramCellsExist, CpuTypeOK, CompareInv, task.name = "compare", Compares(task),
         CpuNext
  PROVE  CompareInv'
<1> USE DEF CompareProgram
<1>1. /\ task.l \in Byte /\ task.r \in Byte /\ task.branch \in BranchNames
      /\ memory[17] = task.l /\ memory[19] = task.r
      /\ memory[32] = 150 /\ memory[33] = 17 /\ memory[34] = 145 /\ memory[35] = 19
      /\ memory[36] \in 32 .. 47 /\ memory[36] # 33 /\ memory[37] = 2
      /\ RowOfBranches[memory[36] - 31] = task.branch
      /\ memory[38] = 32 /\ memory[39] = 254 /\ memory[40] = 198 /\ memory[41] = 1
      /\ memory[42] = 32 /\ memory[43] = 254
  BY CompareCode DEF CompareInv
<1>2. reg \in Registers /\ reg.cc \in Flags
  BY DEF CpuTypeOK, Registers
<1>3. CASE StopsInLoop
  BY <1>3 DEF StopsInLoop, CompareInv, CompareAt
<1>4. CASE Runs
  <2> DEFINE related == Relation(task.branch, task.l, task.r)
  <2>1. CASE reg.pc = 32 /\ reg.b = 0
    <3>1. At120(32)
      BY <1>4, <2>1 DEF At120
    <3>2. /\ Proceeds(34) /\ memory' = memory /\ reg'.b = 0
          /\ reg'.a = Arithmetic("lda", reg.a, task.l).out
      <4>1. memory[32] = 150 /\ memory[32 + 1] = 17 /\ memory[17] = task.l /\ 34 = 32 + 2
        BY <1>1
      <4> QED BY <2>1, <3>1, <4>1, DirectStep
    <3>3. Arithmetic("lda", reg.a, task.l).out = task.l
      BY <1>1, <1>2, LogicTypes DEF Arithmetic
    <3> QED BY <2>1, <3>2, <3>3 DEF CompareInv, CompareAt, Proceeds
  <2>2. CASE reg.pc = 34 /\ reg.b = 0 /\ reg.a = task.l
    <3>1. At120(34)
      BY <1>4, <2>2 DEF At120
    <3>2. /\ Proceeds(36) /\ memory' = memory /\ reg'.b = 0
          /\ reg'.cc = Arithmetic("cmp", task.l, task.r).cc
      <4>1. memory[34] = 145 /\ memory[34 + 1] = 19 /\ memory[19] = task.r /\ 36 = 34 + 2
        BY <1>1
      <4> QED BY <2>2, <3>1, <4>1, DirectStep
    <3>3. Taken(reg'.cc, task.branch) <=> related
      <4>1. reg'.cc = Sub8(reg.cc, task.l, task.r, FALSE).cc
        BY <3>2 DEF Arithmetic
      <4>2. Taken(Sub8(reg.cc, task.l, task.r, FALSE).cc, task.branch) <=> related
        <5>1. /\ reg.cc \in Flags /\ task.l \in Byte /\ task.r \in Byte
              /\ task.branch \in BranchNames
          BY <1>1, <1>2
        <5> QED BY <5>1, ComparesDecideBranches, Zenon
      <4> QED BY <4>1, <4>2, Zenon
    <3>4. CompareAt'
      <4>1. reg'.pc = 36 /\ task' = task
        BY <2>2, <3>2 DEF Proceeds
      <4> QED BY <3>2, <3>3, <4>1, Zenon DEF CompareAt
    <3> QED BY <2>2, <3>2, <3>4 DEF CompareInv, Proceeds
  <2>3. CASE reg.pc = 36 /\ reg.b = 0 /\ (Taken(reg.cc, task.branch) <=> related)
    <3>1. At120(36)
      BY <1>4, <2>3 DEF At120
    <3>2. /\ memory' = memory /\ reg'.b = 0
          /\ Taken(reg.cc, task.branch) => Proceeds(40)
          /\ ~Taken(reg.cc, task.branch) => Proceeds(38)
      <4>1. memory[36 + 1] = (40 - 36 - 2) % 256
        BY <1>1
      <4> QED BY <1>1, <2>3, <3>1, <4>1, BranchStep
    <3> QED BY <2>3, <3>2 DEF CompareInv, CompareAt, Proceeds
  <2>4. CASE reg.pc \in {38, 42}
    <3>1. At120(reg.pc) /\ memory[reg.pc] = 32 /\ memory[reg.pc + 1] = 254
      BY <1>1, <1>4, <2>4 DEF At120
    <3>2. Taken(reg.cc, RowOfBranches[32 - 31])
      BY DEF Taken, RowOfBranches
    <3>3. memory' = memory /\ reg'.b = reg.b /\ Proceeds(reg.pc)
      <4>1. reg.pc \in 0 .. 120 /\ 254 = (reg.pc - reg.pc - 2) % 256
        BY <2>4
      <4> QED BY <3>1, <3>2, <4>1, BranchStep
    <3> QED BY <2>4, <3>3 DEF CompareInv, CompareAt, Proceeds
  <2>5. CASE reg.pc = 40 /\ related
    <3>1. At120(40)
      BY <1>4, <2>5 DEF At120
    <3>2. memory' = memory /\ reg'.b = 1 /\ Proceeds(42)
      BY <1>1, <3>1, ImmediateStep
    <3> QED BY <2>5, <3>2 DEF CompareInv, CompareAt, Proceeds
  <2> QED BY <2>1, <2>2, <2>3, <2>4, <2>5 DEF CompareInv, CompareAt
<1>5. ~Unimplemented \/ Runs
  BY DEF Unimplemented
<1> QED BY <1>3, <1>4, <1>5
        DEF CpuNext, StopsInLoop, Instructions, Executes, AccumulatorOp, StoreByte, LoadWord,
            StoreWord, ComparesX, UnaryRegister, UnaryMemory, Branches, Jumps, Calls,
            ReturnsFromCall, SoftwareInterrupt, ReturnsFromInterrupt, Pushes, Pulls,
            IndexAndStack, BetweenAccumulators, FlagsAndNop

-----------------------------------------------------------------------------
(* More instructions: operands in low memory.                              *)

\* The registers but those named, and the memory, stay.

Places == 0 .. 120

LEMMA LowCells ==
  ASSUME ProgramCellsExist, NEW addr \in Places
  PROVE  /\ Read8(addr) = memory[addr] /\ addr \in Cells /\ addr + 1 \in Cells
         /\ Read16(addr) = (256 * memory[addr]) + memory[addr + 1]
         /\ \A value : Write8(memory, addr, value) = [memory EXCEPT ![addr] = value]
<1>1. addr \in Cells /\ addr + 1 \in Cells /\ Add16(addr, 1) = addr + 1
  BY DEF ProgramCellsExist, Places, Add16
<1> QED BY <1>1 DEF Read8, Read16, ReadFrom, Write8

\* LDAA, LDAB, SUBB and SBCB of an indexed byte.
LEMMA IndexedStep ==
  ASSUME NEW p, At120(p), NEW addr \in Places, addr = reg.x + memory[p + 1],
         NEW name, NEW acc \in {"a", "b"},
         <<memory[p], name, acc>> \in
           {<<166, "lda", "a">>, <<224, "sub", "b">>, <<226, "sbc", "b">>, <<230, "lda", "b">>}
  PROVE  /\ Proceeds(p + 2) /\ memory' = memory /\ reg'.x = reg.x /\ reg'.sp = reg.sp
         /\ reg'[acc] = Arithmetic(name, reg[acc], memory[addr]).out
         /\ reg'.cc = Arithmetic(name, reg[acc], memory[addr]).cc
         /\ acc = "a" => reg'.b = reg.b
         /\ acc = "b" => reg'.a = reg.a
<1>1. Opcode = memory[p] /\ Argument8 = memory[p + 1] /\ After("idx") = p + 2
  BY Fetched DEF At120
<1>2. Operand8("idx") = memory[addr]
  <2>1. Address("idx") = addr
    BY <1>1 DEF Address, Add16, Places
  <2> QED BY <2>1, LowCells DEF Operand8, At120
<1>3. /\ <<Opcode, name, "idx", acc>> \in
           {<<166, "lda", "idx", "a">>, <<224, "sub", "idx", "b">>,
            <<226, "sbc", "idx", "b">>, <<230, "lda", "idx", "b">>}
      /\ name # "cmp"
  BY <1>1
<1> QED BY <1>1, <1>2, <1>3, AccumulatorFields DEF At120

\* STAA and STAB.
LEMMA StoreByteStep ==
  ASSUME NEW p, At120(p), NEW addr \in Places, NEW acc \in {"a", "b"},
         \/ memory[p] = 151 /\ acc = "a" /\ addr = memory[p + 1]
         \/ memory[p] = 167 /\ acc = "a" /\ addr = reg.x + memory[p + 1]
         \/ memory[p] = 231 /\ acc = "b" /\ addr = reg.x + memory[p + 1]
  PROVE  /\ Proceeds(p + 2) /\ memory' = [memory EXCEPT ![addr] = reg[acc]]
         /\ reg'.a = reg.a /\ reg'.b = reg.b /\ reg'.x = reg.x /\ reg'.sp = reg.sp
         /\ reg'.cc = Logic8(reg.cc, reg[acc]).cc
<1>1. /\ Opcode = memory[p] /\ Argument8 = memory[p + 1]
      /\ After("dir") = p + 2 /\ After("idx") = p + 2
  BY Fetched DEF At120
<1> DEFINE mode == IF Opcode = 151 THEN "dir" ELSE "idx"
<1>2. /\ Row = Opcode \div 16 /\ Column = Opcode % 16 /\ Opcode \in Byte
      /\ Row \in {9, 10, 14} /\ Column = 7
  BY <1>1 DEF Row, Column, Byte
<1>3. Implemented(Opcode)
  BY <1>2 DEF Implemented
<1>4. StoreByte
  BY <1>2, <1>3, OneInstruction DEF At120
<1>5. ByteMode = mode /\ Accumulator = acc
  BY <1>1 DEF ByteMode, Accumulator, Row
<1>6. Address(mode) = addr /\ After(mode) = p + 2
  BY <1>1 DEF Address, Add16, Places
<1> HIDE DEF mode
<1>7. Executes([reg EXCEPT !.cc = Logic8(reg.cc, reg[acc]).cc, !.pc = p + 2],
               Write8(memory, addr, reg[acc]))
  BY <1>4, <1>5, <1>6, Zenon DEF StoreByte
<1>8. Write8(memory, addr, reg[acc]) = [memory EXCEPT ![addr] = reg[acc]]
  BY LowCells DEF At120
<1> QED BY <1>7, <1>8 DEF Executes, Registers, Runs, Proceeds, At120, CpuTypeOK

\* LDX # and LDS.
LEMMA LoadWordStep ==
  ASSUME NEW p, At120(p), NEW value, NEW w \in {"x", "sp"}, NEW to,
         \/ /\ memory[p] = 206 /\ w = "x" /\ to = p + 3
            /\ value = (256 * memory[p + 1]) + memory[p + 2]
         \/ /\ memory[p] = 158 /\ w = "sp" /\ to = p + 2 /\ memory[p + 1] \in Places
            /\ value = (256 * memory[memory[p + 1]]) + memory[memory[p + 1] + 1]
  PROVE  /\ Proceeds(to) /\ memory' = memory /\ reg'.a = reg.a /\ reg'.b = reg.b
         /\ reg'[w] = value
         /\ w = "x" => reg'.sp = reg.sp
         /\ w = "sp" => reg'.x = reg.x
         /\ reg'.cc = Logic16(reg.cc, value).cc
<1>1. /\ Opcode = memory[p] /\ Argument8 = memory[p + 1]
      /\ Argument16 = (256 * memory[p + 1]) + memory[p + 2]
      /\ After("dir") = p + 2 /\ After("imw") = p + 3
  BY Fetched DEF At120
<1> DEFINE mode == IF Opcode = 206 THEN "imw" ELSE "dir"
<1>2. /\ Row = Opcode \div 16 /\ Column = Opcode % 16 /\ Opcode \in Byte
      /\ Row \in {9, 12} /\ Column = 14
  BY <1>1 DEF Row, Column, Byte
<1>3. Implemented(Opcode)
  BY <1>2 DEF Implemented, AccumulatorNames
<1>4. LoadWord
  BY <1>2, <1>3, OneInstruction DEF At120
<1>5. WordMode = mode /\ WordRegister = w
  BY <1>1 DEF WordMode, WordRegister, Row
<1>6. Operand16(mode) = value /\ After(mode) = to
  BY <1>1, LowCells DEF Operand16, Address, At120
<1> HIDE DEF mode
<1> DEFINE r == Logic16(reg.cc, value)
<1>7. reg' = [reg EXCEPT ![w] = r.out, !.cc = r.cc, !.pc = to]
      /\ memory' = memory /\ lastpc' = reg.pc /\ status' = status /\ task' = task
  BY <1>4, <1>5, <1>6, Zenon DEF LoadWord, Executes
<1>8. r.out = value
  BY DEF Logic16, Result
<1> HIDE DEF r
<1> QED BY <1>7, <1>8 DEF Registers, Runs, Proceeds, At120, CpuTypeOK, r

\* STS and STX.
LEMMA StoreWordStep ==
  ASSUME NEW p, At120(p), NEW addr \in Places, addr = memory[p + 1], NEW w \in {"x", "sp"},
         <<memory[p], w>> \in {<<159, "sp">>, <<223, "x">>}
  PROVE  /\ Proceeds(p + 2)
         /\ memory' = [memory EXCEPT ![addr] = reg[w] \div 256, ![addr + 1] = reg[w] % 256]
         /\ reg'.a = reg.a /\ reg'.b = reg.b /\ reg'.x = reg.x /\ reg'.sp = reg.sp
         /\ reg'.cc = Logic16(reg.cc, reg[w]).cc
<1>1. Opcode = memory[p] /\ Argument8 = memory[p + 1] /\ After("dir") = p + 2
  BY Fetched DEF At120
<1>2. /\ Row = Opcode \div 16 /\ Column = Opcode % 16 /\ Opcode \in Byte
      /\ Row \in {9, 13} /\ Column = 15
  BY <1>1 DEF Row, Column, Byte
<1>3. Implemented(Opcode)
  BY <1>2 DEF Implemented
<1>4. StoreWord
  BY <1>2, <1>3, OneInstruction DEF At120
<1>5. WordMode = "dir" /\ WordRegister = w
  BY <1>1 DEF WordMode, WordRegister, Row
<1>6. Address("dir") = addr
  BY <1>1 DEF Address
<1>7. Executes([reg EXCEPT !.cc = Logic16(reg.cc, reg[w]).cc, !.pc = p + 2],
               Write16(memory, addr, reg[w]))
  BY <1>1, <1>4, <1>5, <1>6, Zenon DEF StoreWord
<1>8. Write16(memory, addr, reg[w])
        = [memory EXCEPT ![addr] = reg[w] \div 256, ![addr + 1] = reg[w] % 256]
  <2>1. addr \in Cells /\ addr + 1 \in Cells /\ Add16(addr, 1) = addr + 1
    BY LowCells DEF Add16, Places, At120
  <2>2. Write8(memory, addr, reg[w] \div 256) = [memory EXCEPT ![addr] = reg[w] \div 256]
    BY <2>1, Zenon DEF Write8
  <2>3. Write16(memory, addr, reg[w])
          = Write8(Write8(memory, addr, reg[w] \div 256), addr + 1, reg[w] % 256)
    BY <2>1, Zenon DEF Write16
  <2>4. Write16(memory, addr, reg[w])
          = [[memory EXCEPT ![addr] = reg[w] \div 256] EXCEPT ![addr + 1] = reg[w] % 256]
    BY <2>1, <2>2, <2>3, Zenon DEF Write8
  <2> QED BY <2>4
<1> QED BY <1>7, <1>8 DEF Executes, Registers, Runs, Proceeds, At120, CpuTypeOK

\* CPX #
LEMMA CompareXStep ==
  ASSUME NEW p, At120(p), memory[p] = 140
  PROVE  /\ Proceeds(p + 3) /\ memory' = memory
         /\ reg'.a = reg.a /\ reg'.b = reg.b /\ reg'.x = reg.x /\ reg'.sp = reg.sp
         /\ reg'.cc = CompareX(reg.cc, reg.x, (256 * memory[p + 1]) + memory[p + 2])
<1>1. /\ Opcode = 140 /\ Argument16 = (256 * memory[p + 1]) + memory[p + 2]
      /\ After("imw") = p + 3
  BY Fetched DEF At120
<1>2. Row = 8 /\ Column = 12 /\ Opcode \in Byte
  BY <1>1 DEF Row, Column, Byte
<1>3. Implemented(Opcode)
  BY <1>1 DEF Implemented
<1>4. ComparesX
  BY <1>2, <1>3, OneInstruction DEF At120
<1>5. WordMode = "imw" /\ Operand16("imw") = Argument16
  BY <1>2 DEF WordMode, Operand16
<1>6. Executes([reg EXCEPT !.cc = CompareX(reg.cc, reg.x, Argument16), !.pc = p + 3], memory)
  BY <1>1, <1>4, <1>5, Zenon DEF ComparesX
<1> QED BY <1>1, <1>6 DEF Executes, Registers, Runs, Proceeds, At120, CpuTypeOK

-----------------------------------------------------------------------------
(* More instructions: one operand.                                         *)

\* Unary instructions of an accumulator.
LEMMA UnaryRegisterStep ==
  ASSUME NEW p, At120(p), NEW name, NEW acc,
         <<memory[p], name, acc>> \in
           {<<67, "com", "a">>, <<76, "inc", "a">>, <<79, "clr", "a">>, <<80, "neg", "b">>,
            <<83, "com", "b">>, <<95, "clr", "b">>}
  PROVE  /\ Proceeds(p + 1) /\ memory' = memory /\ reg'.x = reg.x /\ reg'.sp = reg.sp
         /\ reg'[acc] = UnaryResult(name, reg[acc]).out
         /\ reg'.cc = UnaryResult(name, reg[acc]).cc
         /\ acc = "a" => reg'.b = reg.b
         /\ acc = "b" => reg'.a = reg.a
<1>1. Opcode = memory[p] /\ After("inh") = p + 1
  BY Fetched DEF At120
<1>2. /\ Row = Opcode \div 16 /\ Column = Opcode % 16 /\ Opcode \in Byte
      /\ Row \in {4, 5} /\ Column \in {0, 3, 12, 15}
  BY <1>1 DEF Row, Column, Byte
<1>3. Implemented(Opcode)
  BY <1>2 DEF Implemented, UnaryNames
<1>4. UnaryRegister
  BY <1>2, <1>3, OneInstruction DEF At120
<1>5. UnaryNames[Column] = name /\ (IF Row = 4 THEN "a" ELSE "b") = acc
  BY <1>1, <1>2 DEF UnaryNames
<1>6. reg' = [reg EXCEPT ![acc] = UnaryResult(name, reg[acc]).out,
                         !.cc = UnaryResult(name, reg[acc]).cc, !.pc = p + 1]
      /\ memory' = memory /\ lastpc' = reg.pc /\ status' = status /\ task' = task
  BY <1>1, <1>4, <1>5, Zenon DEF UnaryRegister, Executes
<1>7. acc \in {"a", "b"}
  OBVIOUS
<1> QED BY <1>6, <1>7 DEF Registers, Runs, Proceeds, At120, CpuTypeOK

\* Unary instructions of a byte of low memory, extended and indexed.
LEMMA UnaryMemoryStep ==
  ASSUME NEW p, At120(p), NEW name, NEW addr \in Places, NEW to,
         \/ /\ <<memory[p], name>> \in {<<116, "lsr">>, <<118, "ror">>, <<119, "asr">>,
                                        <<127, "clr">>}
            /\ addr = (256 * memory[p + 1]) + memory[p + 2] /\ to = p + 3
         \/ /\ <<memory[p], name>> \in {<<104, "asl">>, <<105, "rol">>}
            /\ addr = reg.x + memory[p + 1] /\ to = p + 2
  PROVE  /\ Proceeds(to)
         /\ memory' = [memory EXCEPT ![addr] = UnaryResult(name, memory[addr]).out]
         /\ reg'.a = reg.a /\ reg'.b = reg.b /\ reg'.x = reg.x /\ reg'.sp = reg.sp
         /\ reg'.cc = UnaryResult(name, memory[addr]).cc
<1>1. /\ Opcode = memory[p] /\ Argument8 = memory[p + 1]
      /\ Argument16 = (256 * memory[p + 1]) + memory[p + 2]
      /\ After("idx") = p + 2 /\ After("ext") = p + 3
  BY Fetched DEF At120
<1>2. /\ Row = Opcode \div 16 /\ Column = Opcode % 16 /\ Opcode \in Byte
      /\ Row \in {6, 7} /\ Column \in {4, 6, 7, 8, 9, 15}
  BY <1>1 DEF Row, Column, Byte
<1>3. Implemented(Opcode)
  BY <1>2 DEF Implemented, UnaryNames
<1>4. UnaryMemory
  BY <1>2, <1>3, OneInstruction DEF At120
<1>5. UnaryNames[Column] = name /\ name # "tst"
  BY <1>1, <1>2 DEF UnaryNames
<1>6. Address(UnaryMode) = addr /\ After(UnaryMode) = to
  <2>1. UnaryMode = IF Row = 6 THEN "idx" ELSE "ext"
    BY <1>2 DEF UnaryMode
  <2>2. Row = 6 <=> memory[p] \in {104, 105}
    BY <1>1, <1>2
  <2> QED BY <1>1, <2>1, <2>2 DEF Address, Add16, Places
<1>7. Read8(addr) = memory[addr]
      /\ \A value : Write8(memory, addr, value) = [memory EXCEPT ![addr] = value]
  BY LowCells DEF At120
<1>8. Executes([reg EXCEPT !.cc = UnaryResult(name, memory[addr]).cc, !.pc = to],
               Write8(memory, addr, UnaryResult(name, memory[addr]).out))
  BY <1>4, <1>5, <1>6, <1>7, Zenon DEF UnaryMemory
<1> QED BY <1>7, <1>8 DEF Executes, Registers, Runs, Proceeds, At120, CpuTypeOK

\* JMP
LEMMA JumpStep ==
  ASSUME NEW p, At120(p), memory[p] = 126
  PROVE  /\ Proceeds((256 * memory[p + 1]) + memory[p + 2]) /\ memory' = memory
         /\ reg'.a = reg.a /\ reg'.b = reg.b /\ reg'.x = reg.x /\ reg'.sp = reg.sp
         /\ reg'.cc = reg.cc
<1>1. /\ Opcode = 126 /\ Argument16 = (256 * memory[p + 1]) + memory[p + 2]
  BY Fetched DEF At120
<1>2. Row = 7 /\ Column = 14 /\ Opcode \in Byte
  BY <1>1 DEF Row, Column, Byte
<1>3. Implemented(Opcode)
  BY <1>1 DEF Implemented
<1>4. Jumps
  BY <1>2, <1>3, OneInstruction DEF At120
<1>5. Address(UnaryMode) = Argument16
  BY <1>2 DEF UnaryMode, Address
<1>6. Executes([reg EXCEPT !.pc = Argument16], memory)
  BY <1>4, <1>5, Zenon DEF Jumps
<1> QED BY <1>1, <1>6 DEF Executes, Registers, Runs, Proceeds, At120, CpuTypeOK

\* INX
LEMMA IncrementXStep ==
  ASSUME NEW p, At120(p), memory[p] = 8
  PROVE  /\ Proceeds(p + 1) /\ memory' = memory
         /\ reg'.a = reg.a /\ reg'.b = reg.b /\ reg'.x = Add16(reg.x, 1) /\ reg'.sp = reg.sp
<1>1. Opcode = 8 /\ After("inh") = p + 1
  BY Fetched DEF At120
<1>2. Row = 0 /\ Column = 8 /\ Opcode \in Byte
  BY <1>1 DEF Row, Column, Byte
<1>3. Implemented(Opcode)
  BY <1>1 DEF Implemented
<1>4. IndexAndStack
  BY <1>2, <1>3, OneInstruction DEF At120
<1> DEFINE x == CASE Opcode = 8 -> Add16(reg.x, 1) [] Opcode = 9 -> Add16(reg.x, -1)
                  [] Opcode = 48 -> Add16(reg.sp, 1) [] OTHER -> reg.x
           sp == CASE Opcode = 49 -> Add16(reg.sp, 1) [] Opcode = 52 -> Add16(reg.sp, -1)
                   [] Opcode = 53 -> Add16(reg.x, -1) [] OTHER -> reg.sp
           z == IF Opcode \in {8, 9} THEN x = 0 ELSE reg.cc.z
<1>5. /\ reg' = [reg EXCEPT !.x = x, !.sp = sp, !.pc = After("inh"), !.cc.z = z]
      /\ memory' = memory /\ lastpc' = reg.pc /\ status' = status /\ task' = task
  BY <1>4, Zenon DEF IndexAndStack, Executes
<1>6. x = Add16(reg.x, 1) /\ sp = reg.sp
  BY <1>1
<1> HIDE DEF x, sp, z
<1> QED BY <1>1, <1>5, <1>6 DEF Registers, Runs, Proceeds, At120, CpuTypeOK

\* CBA, TBA, DAA and ABA.
LEMMA BetweenStep ==
  ASSUME NEW p, At120(p), memory[p] \in {17, 23, 25, 27}
  PROVE  /\ Proceeds(p + 1) /\ memory' = memory
         /\ reg'.b = reg.b /\ reg'.x = reg.x /\ reg'.sp = reg.sp
         /\ memory[p] = 17 =>
              reg'.a = reg.a /\ reg'.cc = Sub8(reg.cc, reg.a, reg.b, FALSE).cc
         /\ memory[p] = 23 =>
              reg'.a = Logic8(reg.cc, reg.b).out /\ reg'.cc = Logic8(reg.cc, reg.b).cc
         /\ memory[p] = 25 =>
              /\ reg'.a = DecimalAdjust(reg.cc, reg.a).out
              /\ reg'.cc = DecimalAdjust(reg.cc, reg.a).cc
         /\ memory[p] = 27 =>
              /\ reg'.a = Add8(reg.cc, reg.a, reg.b, FALSE).out
              /\ reg'.cc = Add8(reg.cc, reg.a, reg.b, FALSE).cc
<1>1. Opcode = memory[p] /\ After("inh") = p + 1
  BY Fetched DEF At120
<1>2. Row = 1 /\ Opcode \in Byte
  BY <1>1 DEF Row, Byte
<1>3. Implemented(Opcode)
  BY <1>1 DEF Implemented
<1>4. BetweenAccumulators
  BY <1>2, <1>3, OneInstruction DEF At120
<1> DEFINE difference == Sub8(reg.cc, reg.a, reg.b, FALSE)
           sum == Add8(reg.cc, reg.a, reg.b, FALSE)
           s == CASE Opcode \in {16, 17} -> difference
                  [] Opcode = 22 -> Logic8(reg.cc, reg.a)
                  [] Opcode = 23 -> Logic8(reg.cc, reg.b)
                  [] Opcode = 25 -> DecimalAdjust(reg.cc, reg.a)
                  [] Opcode = 27 -> sum
<1>5. /\ reg' = [reg EXCEPT !.a = IF Opcode \in {17, 22} THEN reg.a ELSE s.out,
                            !.b = IF Opcode = 22 THEN s.out ELSE reg.b,
                            !.cc = s.cc, !.pc = After("inh")]
      /\ memory' = memory /\ lastpc' = reg.pc /\ status' = status /\ task' = task
  BY <1>4, Zenon DEF BetweenAccumulators, Executes
<1> HIDE DEF difference, sum
<1>6. /\ memory[p] = 17 => s = difference
      /\ memory[p] = 23 => s = Logic8(reg.cc, reg.b)
      /\ memory[p] = 25 => s = DecimalAdjust(reg.cc, reg.a)
      /\ memory[p] = 27 => s = sum
  BY <1>1
<1> HIDE DEF s
<1>7. /\ Proceeds(p + 1) /\ memory' = memory
      /\ reg'.b = reg.b /\ reg'.x = reg.x /\ reg'.sp = reg.sp
      /\ memory[p] = 17 => reg'.a = reg.a /\ reg'.cc = difference.cc
      /\ memory[p] = 23 =>
           reg'.a = Logic8(reg.cc, reg.b).out /\ reg'.cc = Logic8(reg.cc, reg.b).cc
      /\ memory[p] = 25 =>
           /\ reg'.a = DecimalAdjust(reg.cc, reg.a).out
           /\ reg'.cc = DecimalAdjust(reg.cc, reg.a).cc
      /\ memory[p] = 27 => reg'.a = sum.out /\ reg'.cc = sum.cc
  BY <1>1, <1>5, <1>6 DEF Registers, Runs, Proceeds, At120, CpuTypeOK
<1> QED BY <1>7, Zenon DEF difference, sum

\* TPA, SEC and SEI.
LEMMA FlagsStep ==
  ASSUME NEW p, At120(p), memory[p] \in {7, 13, 15}
  PROVE  /\ Proceeds(p + 1) /\ memory' = memory
         /\ reg'.b = reg.b /\ reg'.x = reg.x /\ reg'.sp = reg.sp
         /\ memory[p] # 7 => reg'.a = reg.a
         /\ memory[p] = 7 => reg'.a = ConditionCodes(reg.cc) /\ reg'.cc = reg.cc
<1>1. Opcode = memory[p] /\ After("inh") = p + 1
  BY Fetched DEF At120
<1>2. Row = 0 /\ Column \in {7, 13, 15} /\ Opcode \in Byte
  BY <1>1 DEF Row, Column, Byte
<1>3. Implemented(Opcode)
  BY <1>1 DEF Implemented
<1>4. FlagsAndNop
  BY <1>2, <1>3, OneInstruction DEF At120
<1> DEFINE cc == CASE Opcode = 6 -> FromByte(reg.a)
                   [] Opcode \in {10, 11} -> [reg.cc EXCEPT !.v = (Opcode = 11)]
                   [] Opcode \in {12, 13} -> [reg.cc EXCEPT !.c = (Opcode = 13)]
                   [] Opcode \in {14, 15} -> [reg.cc EXCEPT !.i = (Opcode = 15)]
                   [] OTHER -> reg.cc
           a == IF Opcode = 7 THEN ConditionCodes(reg.cc) ELSE reg.a
<1>5. /\ reg' = [reg EXCEPT !.a = a, !.cc = cc, !.pc = After("inh")]
      /\ memory' = memory /\ lastpc' = reg.pc /\ status' = status /\ task' = task
  BY <1>4, Zenon DEF FlagsAndNop, Executes
<1>6. Opcode = 7 => cc = reg.cc
  OBVIOUS
<1>7. (Opcode = 7 => a = ConditionCodes(reg.cc)) /\ (Opcode # 7 => a = reg.a)
  OBVIOUS
<1> HIDE DEF cc, a
<1> QED BY <1>1, <1>5, <1>6, <1>7 DEF Registers, Runs, Proceeds, At120, CpuTypeOK

-----------------------------------------------------------------------------
(* More instructions: the stack, which wraps.                              *)

LEMMA RowThree ==
  /\ Pushes => Opcode \in {54, 55}
  /\ Pulls => Opcode \in {50, 51}
  /\ ReturnsFromCall => Opcode = 57
  /\ ReturnsFromInterrupt => Opcode = 59
  /\ SoftwareInterrupt => Opcode = 63
BY Zenon DEF Pushes, Pulls, ReturnsFromCall, ReturnsFromInterrupt, SoftwareInterrupt

\* PSHA and PSHB.
LEMMA PushStep ==
  ASSUME NEW p, At120(p), NEW acc, <<memory[p], acc>> \in {<<54, "a">>, <<55, "b">>}
  PROVE  /\ Proceeds(p + 1) /\ memory' = Pushed(memory, reg.sp, <<reg[acc]>>)
         /\ reg'.a = reg.a /\ reg'.b = reg.b /\ reg'.x = reg.x /\ reg'.sp = Add16(reg.sp, -1)
         /\ reg'.cc = reg.cc
<1>1. Opcode = memory[p] /\ After("inh") = p + 1
  BY Fetched DEF At120
<1>2. Row = 3 /\ Column \in {6, 7} /\ Opcode \in Byte
  BY <1>1 DEF Row, Column, Byte
<1>3. Implemented(Opcode)
  BY <1>1 DEF Implemented
<1>4. Pushes
  <2>1. Pushes \/ Pulls \/ ReturnsFromCall \/ ReturnsFromInterrupt \/ SoftwareInterrupt
    BY <1>2, <1>3, OneInstruction DEF At120
  <2>2. Opcode \in {54, 55}
    BY <1>1
  <2> QED BY <2>1, <2>2, RowThree
<1>5. acc = IF Opcode = 54 THEN "a" ELSE "b"
  BY <1>1
<1>6. Executes([reg EXCEPT !.sp = Add16(reg.sp, -1), !.pc = p + 1],
               Pushed(memory, reg.sp, <<reg[acc]>>))
  BY <1>1, <1>4, <1>5, Zenon DEF Pushes
<1> QED BY <1>6 DEF Executes, Registers, Runs, Proceeds, At120, CpuTypeOK

\* PULA and PULB.
LEMMA PullStep ==
  ASSUME NEW p, At120(p), NEW acc, <<memory[p], acc>> \in {<<50, "a">>, <<51, "b">>}
  PROVE  /\ Proceeds(p + 1) /\ memory' = memory
         /\ reg'[acc] = Popped(1) /\ reg'.x = reg.x /\ reg'.sp = Add16(reg.sp, 1)
         /\ reg'.cc = reg.cc
         /\ acc = "a" => reg'.b = reg.b
         /\ acc = "b" => reg'.a = reg.a
<1>1. Opcode = memory[p] /\ After("inh") = p + 1
  BY Fetched DEF At120
<1>2. Row = 3 /\ Column \in {2, 3} /\ Opcode \in Byte
  BY <1>1 DEF Row, Column, Byte
<1>3. Implemented(Opcode)
  BY <1>1 DEF Implemented
<1>4. Pulls
  <2>1. Pushes \/ Pulls \/ ReturnsFromCall \/ ReturnsFromInterrupt \/ SoftwareInterrupt
    BY <1>2, <1>3, OneInstruction DEF At120
  <2> QED BY <1>1, <2>1, RowThree
<1>5. acc = IF Opcode = 50 THEN "a" ELSE "b"
  BY <1>1
<1>6. Executes([reg EXCEPT ![acc] = Popped(1), !.sp = Add16(reg.sp, 1), !.pc = p + 1], memory)
  BY <1>1, <1>4, <1>5, Zenon DEF Pulls
<1> QED BY <1>5, <1>6 DEF Executes, Registers, Runs, Proceeds, At120, CpuTypeOK

\* JSR and BSR at p, to an instruction of low memory.
CallsTo(p, to, back) ==
  /\ to \in Places
  /\ \/ memory[p] = 189 /\ to = (256 * memory[p + 1]) + memory[p + 2] /\ back = p + 3
     \/ memory[p] = 173 /\ to = reg.x + memory[p + 1] /\ back = p + 2
     \/ memory[p] = 141 /\ memory[p + 1] = (to - p - 2) % 256 /\ back = p + 2

LEMMA CallStep ==
  ASSUME NEW p, At120(p), NEW to, NEW back, CallsTo(p, to, back)
  PROVE  /\ Proceeds(to) /\ memory' = Pushed(memory, reg.sp, <<back \div 256, back % 256>>)
         /\ reg'.a = reg.a /\ reg'.b = reg.b /\ reg'.x = reg.x /\ reg'.sp = Add16(reg.sp, -2)
         /\ reg'.cc = reg.cc
<1> USE DEF CallsTo
<1>1. /\ Opcode = memory[p] /\ Argument8 = memory[p + 1]
      /\ Argument16 = (256 * memory[p + 1]) + memory[p + 2]
      /\ After("rel") = p + 2 /\ After("idx") = p + 2 /\ After("ext") = p + 3
  BY Fetched DEF At120
<1>2. /\ Row = Opcode \div 16 /\ Column = Opcode % 16 /\ Opcode \in Byte
      /\ Row \in {8, 10, 11} /\ Column = 13
  BY <1>1 DEF Row, Column, Byte
<1>3. Implemented(Opcode)
  BY <1>1 DEF Implemented
<1>4. Calls
  BY <1>2, <1>3, OneInstruction DEF At120
<1> DEFINE mode == IF Opcode = 141 THEN "rel" ELSE WordMode
           target == IF Opcode = 141 THEN RelativeTarget ELSE Address(mode)
<1>5. target = to /\ After(mode) = back
  <2>1. CASE Opcode = 141
    <3>1. RelativeTarget = to
      BY <1>1, <2>1 DEF RelativeTarget, Signed, Negative, Add16, Places, At120
    <3> QED BY <1>1, <2>1, <3>1
  <2>2. CASE Opcode = 173
    <3>1. WordMode = "idx" /\ Address("idx") = to
      BY <1>1, <1>2, <2>2 DEF WordMode, Address, Add16, Places
    <3> QED BY <1>1, <2>2, <3>1
  <2>3. CASE Opcode = 189
    <3>1. WordMode = "ext" /\ Address("ext") = to
      BY <1>1, <1>2, <2>3 DEF WordMode, Address, Add16, Places
    <3> QED BY <1>1, <2>3, <3>1
  <2> QED BY <1>1, <2>1, <2>2, <2>3
<1>6. Executes([reg EXCEPT !.pc = to, !.sp = Add16(reg.sp, -2)],
               Pushed(memory, reg.sp, Bytes16(back)))
  BY <1>4, <1>5, Zenon DEF Calls
<1>7. Bytes16(back) = <<back \div 256, back % 256>>
  BY DEF Bytes16
<1> HIDE DEF mode, target
<1> QED BY <1>6, <1>7 DEF Executes, Registers, Runs, Proceeds, At120, CpuTypeOK

\* RTS
LEMMA ReturnStep ==
  ASSUME NEW p, At120(p), memory[p] = 57
  PROVE  /\ Proceeds(Popped16(1)) /\ memory' = memory
         /\ reg'.a = reg.a /\ reg'.b = reg.b /\ reg'.x = reg.x /\ reg'.sp = Add16(reg.sp, 2)
         /\ reg'.cc = reg.cc
<1>1. Opcode = 57
  BY Fetched DEF At120
<1>2. Row = 3 /\ Column = 9 /\ Opcode \in Byte
  BY <1>1 DEF Row, Column, Byte
<1>3. Implemented(Opcode)
  BY <1>1 DEF Implemented
<1>4. ReturnsFromCall
  <2>1. Pushes \/ Pulls \/ ReturnsFromCall \/ ReturnsFromInterrupt \/ SoftwareInterrupt
    BY <1>2, <1>3, OneInstruction DEF At120
  <2> QED BY <1>1, <2>1, RowThree
<1>5. Executes([reg EXCEPT !.pc = Popped16(1), !.sp = Add16(reg.sp, 2)], memory)
  BY <1>4, Zenon DEF ReturnsFromCall
<1> QED BY <1>5 DEF Executes, Registers, Runs, Proceeds, At120, CpuTypeOK

\* RTI
LEMMA InterruptReturnStep ==
  ASSUME NEW p, At120(p), memory[p] = 59
  PROVE  /\ Proceeds(Popped16(6)) /\ memory' = memory
         /\ reg' = [cc |-> FromByte(Popped(1)), b |-> Popped(2), a |-> Popped(3),
                    x |-> Popped16(4), pc |-> Popped16(6), sp |-> Add16(reg.sp, 7)]
<1>1. Opcode = 59
  BY Fetched DEF At120
<1>2. Row = 3 /\ Column = 11 /\ Opcode \in Byte
  BY <1>1 DEF Row, Column, Byte
<1>3. Implemented(Opcode)
  BY <1>1 DEF Implemented
<1>4. ReturnsFromInterrupt
  <2>1. Pushes \/ Pulls \/ ReturnsFromCall \/ ReturnsFromInterrupt \/ SoftwareInterrupt
    BY <1>2, <1>3, OneInstruction DEF At120
  <2> QED BY <1>1, <2>1, RowThree
<1> QED BY <1>4 DEF ReturnsFromInterrupt, Executes, Runs, Proceeds

\* SWI
LEMMA InterruptStep ==
  ASSUME NEW p, At120(p), memory[p] = 63, NEW cells,
         cells = Pushed(memory, reg.sp,
                        <<ConditionCodes(reg.cc), reg.b, reg.a, reg.x \div 256, reg.x % 256,
                          (p + 1) \div 256, (p + 1) % 256>>)
  PROVE  /\ Proceeds((256 * ReadFrom(cells, SwiVector)) + ReadFrom(cells, SwiVector + 1))
         /\ memory' = cells
         /\ reg'.a = reg.a /\ reg'.b = reg.b /\ reg'.x = reg.x /\ reg'.sp = Add16(reg.sp, -7)
<1>1. Opcode = 63 /\ After("inh") = p + 1
  BY Fetched DEF At120
<1>2. Row = 3 /\ Column = 15 /\ Opcode \in Byte
  BY <1>1 DEF Row, Column, Byte
<1>3. Implemented(Opcode)
  BY <1>1 DEF Implemented
<1>4. SoftwareInterrupt
  <2>1. Pushes \/ Pulls \/ ReturnsFromCall \/ ReturnsFromInterrupt \/ SoftwareInterrupt
    BY <1>2, <1>3, OneInstruction DEF At120
  <2> QED BY <1>1, <2>1, RowThree
<1> DEFINE yes == TRUE
           to == (256 * ReadFrom(cells, SwiVector)) + ReadFrom(cells, SwiVector + 1)
<1>5. /\ reg' = [reg EXCEPT !.sp = Add16(reg.sp, -7), !.cc.i = yes, !.pc = to]
      /\ memory' = cells /\ lastpc' = reg.pc /\ status' = status /\ task' = task
  <2> DEFINE back == p + 1
  <2>1. After("inh") = back
    BY <1>1
  <2>2. cells = Pushed(memory, reg.sp,
                       <<ConditionCodes(reg.cc), reg.b, reg.a, reg.x \div 256, reg.x % 256,
                         back \div 256, back % 256>>)
    OBVIOUS
  <2> HIDE DEF back
  <2>3. Executes([reg EXCEPT !.sp = Add16(reg.sp, -7), !.cc.i = yes, !.pc = to], cells)
    BY <1>4, <2>1, <2>2, Zenon DEF SoftwareInterrupt
  <2> HIDE DEF yes, to
  <2> QED BY <2>3 DEF Executes
<1> HIDE DEF yes, to
<1>6. /\ Proceeds(to) /\ memory' = cells
      /\ reg'.a = reg.a /\ reg'.b = reg.b /\ reg'.x = reg.x /\ reg'.sp = Add16(reg.sp, -7)
  BY <1>5 DEF Registers, Runs, Proceeds, At120, CpuTypeOK
<1> QED BY <1>6, Zenon DEF to

\* The place of an address in what was pushed, when the stack wraps too.
LEMMA StackArithmetic ==
  ASSUME NEW sp \in Word, NEW addr \in Word, NEW n \in 1 .. 7, NEW depth \in 1 .. n,
         NEW q, q = Add16(sp, -n)
  PROVE  addr = Add16(sp, depth - n) <=> Add16(addr, -q) = depth
<1>1. sp \in Int /\ 0 <= sp /\ sp < 65536 /\ addr \in Int /\ 0 <= addr /\ addr < 65536
  BY WordBounds
<1>2. q = IF sp >= n THEN sp - n ELSE sp - n + 65536
  BY <1>1 DEF Add16
<1>3. Add16(sp, depth - n)
        = IF sp + depth - n < 0 THEN sp + depth - n + 65536 ELSE sp + depth - n
  BY <1>1 DEF Add16
<1>4. q \in Int /\ 0 <= q /\ q < 65536
  BY <1>1, <1>2
<1>5. Add16(addr, -q) = IF addr >= q THEN addr - q ELSE addr - q + 65536
  BY <1>1, <1>4 DEF Add16
<1> QED BY <1>1, <1>2, <1>3, <1>4, <1>5

\* What is pushed lies below the stack pointer, the first byte lowest; nothing
\* else changes.
LEMMA PushedCells ==
  ASSUME NEW cells, NEW sp \in Word, NEW bytes, NEW n \in 1 .. 7, Len(bytes) = n,
         NEW addr \in Cells
  PROVE  /\ \A depth \in 1 .. n : addr = Add16(sp, depth - n) =>
              Pushed(cells, sp, bytes)[addr] = bytes[depth]
         /\ (\A depth \in 1 .. n : addr # Add16(sp, depth - n)) =>
              Pushed(cells, sp, bytes)[addr] = cells[addr]
<1>1. addr \in Word
  BY CpuAssumption
<1> DEFINE q == Add16(sp, -n)
           at == Add16(addr, -q)
<1>2. ASSUME NEW depth \in 1 .. n
      PROVE  addr = Add16(sp, depth - n) <=> at = depth
  BY <1>1, StackArithmetic
<1>3. Pushed(cells, sp, bytes)[addr] = IF at \in 1 .. n THEN bytes[at] ELSE cells[addr]
  BY DEF Pushed
<1> HIDE DEF at
<1> QED BY <1>2, <1>3

-----------------------------------------------------------------------------
(* The end of a program.                                                   *)

LEMMA RunsOrStops == CpuNext => Runs \/ StopsInLoop
<1>1. /\ AccumulatorOp \/ StoreByte \/ LoadWord \/ StoreWord \/ ComparesX => Runs
      /\ UnaryRegister \/ UnaryMemory \/ Branches \/ Jumps \/ Calls \/ ReturnsFromCall => Runs
  BY Zenon DEF AccumulatorOp, StoreByte, LoadWord, StoreWord, ComparesX, UnaryRegister,
       UnaryMemory, Branches, Jumps, Calls, ReturnsFromCall, Executes
<1>2. /\ SoftwareInterrupt \/ ReturnsFromInterrupt \/ Pushes \/ Pulls => Runs
      /\ IndexAndStack \/ BetweenAccumulators \/ FlagsAndNop \/ Unimplemented => Runs
  BY Zenon DEF SoftwareInterrupt, ReturnsFromInterrupt, Pushes, Pulls, IndexAndStack,
       BetweenAccumulators, FlagsAndNop, Unimplemented, Executes
<1> QED BY <1>1, <1>2 DEF CpuNext, Instructions

\* BRA *
LEMMA HaltStep ==
  ASSUME NEW p, At120(p), memory[p] = 32, memory[p + 1] = 254
  PROVE  /\ Proceeds(p) /\ memory' = memory
         /\ reg'.a = reg.a /\ reg'.b = reg.b /\ reg'.x = reg.x /\ reg'.sp = reg.sp
         /\ reg'.cc = reg.cc
<1>1. p \in 0 .. 120 /\ memory[p + 1] = (p - p - 2) % 256
  <2>1. p \in 0 .. 120
    BY DEF At120
  <2>2. p - p - 2 \in -256 .. 255 /\ p - p - 2 = 0 - 2
    BY <2>1
  <2>3. (p - p - 2) % 256 = 254
    BY <2>2, ByteDifference
  <2> QED BY <2>1, <2>3
<1>2. Taken(reg.cc, RowOfBranches[32 - 31])
  BY DEF Taken, RowOfBranches
<1> QED BY <1>1, <1>2, BranchStep

\* The flags survive their byte.
LEMMA FlagsRestored ==
  ASSUME NEW cc \in Flags
  PROVE  FromByte(ConditionCodes(cc)) = cc
<1>1. ConditionCodes(cc) \in Byte
  BY FlagBytes
<1> DEFINE on(weight) == (ConditionCodes(cc) \div weight) % 2 = 1
<1>2. /\ on(1) = cc.c /\ on(2) = cc.v /\ on(4) = cc.z /\ on(8) = cc.n /\ on(16) = cc.i
      /\ on(32) = cc.h /\ ConditionCodes(cc) \div 64 = cc.top
  <2> DEFINE c == Bit(cc.c)
             v == Bit(cc.v)
             z == Bit(cc.z)
             n == Bit(cc.n)
             i == Bit(cc.i)
             h == Bit(cc.h)
             top == cc.top
             byte == c + (2 * v) + (4 * z) + (8 * n) + (16 * i) + (32 * h) + (64 * top)
  <2>1. ConditionCodes(cc) = byte
    BY DEF ConditionCodes
  <2>2. /\ c \in 0 .. 1 /\ v \in 0 .. 1 /\ z \in 0 .. 1 /\ n \in 0 .. 1 /\ i \in 0 .. 1
        /\ h \in 0 .. 1 /\ top \in 0 .. 3
    BY DEF Bit, Flags
  <2>3. /\ c = 1 <=> cc.c
        /\ v = 1 <=> cc.v
        /\ z = 1 <=> cc.z
        /\ n = 1 <=> cc.n
        /\ i = 1 <=> cc.i
        /\ h = 1 <=> cc.h
    BY DEF Bit
  <2> HIDE DEF c, v, z, n, i, h, top
  <2>4. /\ (byte \div 1) % 2 = c /\ (byte \div 2) % 2 = v /\ (byte \div 4) % 2 = z
        /\ (byte \div 8) % 2 = n
    BY <2>2
  <2>5. /\ (byte \div 16) % 2 = i /\ (byte \div 32) % 2 = h /\ byte \div 64 = top
    BY <2>2
  <2>6. /\ cc.c \in BOOLEAN /\ cc.v \in BOOLEAN /\ cc.z \in BOOLEAN /\ cc.n \in BOOLEAN
        /\ cc.i \in BOOLEAN /\ cc.h \in BOOLEAN
    BY DEF Flags
  <2> HIDE DEF byte
  <2> QED BY <2>1, <2>3, <2>4, <2>5, <2>6 DEF top
<1>3. FromByte(ConditionCodes(cc))
        = [c |-> on(1), v |-> on(2), z |-> on(4), n |-> on(8), i |-> on(16),
           h |-> on(32), top |-> ConditionCodes(cc) \div 64]
  BY Zenon DEF FromByte
<1> HIDE DEF on
<1>4. cc = [c |-> cc.c, v |-> cc.v, z |-> cc.z, n |-> cc.n, i |-> cc.i, h |-> cc.h,
            top |-> cc.top]
  BY DEF Flags
<1> QED BY <1>2, <1>3, <1>4, Zenon

-----------------------------------------------------------------------------
(* Bytes, words and their flags.                                           *)

LEMMA ModuloWord ==
  ASSUME NEW d \in Int, -65536 <= d, d < 131072
  PROVE  d % 65536 = IF d < 0 THEN d + 65536 ELSE IF d >= 65536 THEN d - 65536 ELSE d
OBVIOUS

\* What the flags of a sum are.
LEMMA AddFlags ==
  ASSUME NEW cc \in Flags, NEW l \in Byte, NEW r \in Byte, NEW carry \in BOOLEAN,
         NEW out, out = Add8(cc, l, r, carry).out
  PROVE  /\ Add8(cc, l, r, carry).cc.n <=> out >= 128
         /\ Add8(cc, l, r, carry).cc.v <=> ((l >= 128 <=> r >= 128) /\ ~(out >= 128 <=> l >= 128))
<1>1. /\ Add8(cc, l, r, carry).cc.n = Negative(out)
      /\ Add8(cc, l, r, carry).cc.v
           = (Negative(l) = Negative(r) /\ Negative(out) # Negative(l))
  BY DEF Add8, Result, SetNz8, Flags
<1>2. out \in Byte
  BY AddTypes DEF Results
<1>3. /\ Negative(out) \in BOOLEAN /\ Negative(l) \in BOOLEAN /\ Negative(r) \in BOOLEAN
  BY <1>2 DEF Negative, Byte
<1>4. \A p, q \in BOOLEAN : (p = q <=> (p <=> q)) /\ (p # q <=> ~(p <=> q))
  OBVIOUS
<1>5. /\ Add8(cc, l, r, carry).cc.n <=> Negative(out)
      /\ Add8(cc, l, r, carry).cc.v <=>
           ((Negative(l) <=> Negative(r)) /\ ~(Negative(out) <=> Negative(l)))
  BY <1>1, <1>3, <1>4, Zenon
<1> QED BY <1>5, Zenon DEF Negative

\* A difference of bytes and its borrow.
LEMMA SubBorrows ==
  ASSUME NEW cc \in Flags, NEW l \in Byte, NEW r \in Byte, NEW borrow \in BOOLEAN
  PROVE  /\ Sub8(cc, l, r, borrow).out \in Byte
         /\ Sub8(cc, l, r, borrow).out - (256 * Bit(Sub8(cc, l, r, borrow).cc.c))
              = l - r - Bit(borrow)
<1> DEFINE d == l - r - Bit(borrow)
<1>1. d \in -256 .. 255
  BY DEF Byte, Bit
<1>2. /\ Sub8(cc, l, r, borrow).out = d % 256
      /\ Sub8(cc, l, r, borrow).cc.c = (d < 0)
  BY DEF Sub8, Result, SetNz8, Flags
<1> HIDE DEF d
<1>3. d % 256 \in Byte /\ d % 256 = IF d < 0 THEN d + 256 ELSE d
  BY <1>1, ByteDifference, Zenon
<1>4. (d % 256) - (256 * Bit(d < 0)) = d
  <2>1. CASE d < 0
    BY <1>1, <1>3, <2>1 DEF Bit
  <2>2. CASE ~(d < 0)
    BY <1>1, <1>3, <2>2 DEF Bit
  <2> QED BY <2>1, <2>2
<1> QED BY <1>2, <1>3, <1>4, Zenon DEF d

\* The sum of words, from the bytes.
LEMMA WordOverflow ==
  ASSUME NEW h \in Byte, NEW l \in Byte, NEW k \in Byte, NEW m \in Byte,
         NEW low \in Byte, NEW high \in Byte, NEW between \in 0 .. 1, NEW end \in 0 .. 1,
         (256 * between) + low = l + m, (256 * end) + high = h + k + between,
         NEW s, s = Signed16((256 * h) + l) + Signed16((256 * k) + m)
  PROVE  ((h >= 128 <=> k >= 128) /\ ~(high >= 128 <=> h >= 128)) <=> s < -32768 \/ s > 32767
BY DEF Byte, Signed16

LEMMA Bits == (\A p \in BOOLEAN : Bit(p) \in 0 .. 1) /\ Bit(FALSE) = 0
BY DEF Bit

\* How a byte operation leaves the carry.
LEMMA LogicFlags ==
  ASSUME NEW cc \in Flags, NEW out \in Byte
  PROVE  Logic8(cc, out).cc \in Flags /\ Logic8(cc, out).cc.c = cc.c /\ Logic8(cc, out).cc.h = cc.h
         /\ Logic8(cc, out).out = out
<1>1. Logic8(cc, out) \in Results /\ Logic8(cc, out).out = out
  BY LogicTypes
<1>2. Logic8(cc, out).cc.c = cc.c /\ Logic8(cc, out).cc.h = cc.h
  BY DEF Logic8, Result, SetNz8, Flags
<1> QED BY <1>1, <1>2 DEF Results

-----------------------------------------------------------------------------
(* The program that adds and subtracts words.                              *)

LEMMA WordCode ==
  ASSUME NEW t \in WordTasks(Word)
  PROVE  /\ t.l \in Word /\ t.r \in Word /\ t.registers = PowerUp
         /\ 16 .. 19 \cup 32 .. 65 \subseteq DOMAIN t.memory
         /\ t.l = (256 * t.memory[16]) + t.memory[17]
         /\ t.memory[16] \in Byte /\ t.memory[17] \in Byte
         /\ t.r = (256 * t.memory[18]) + t.memory[19]
         /\ t.memory[18] \in Byte /\ t.memory[19] \in Byte
         /\ t.memory[32] = 150 /\ t.memory[33] = 17 /\ t.memory[34] = 155 /\ t.memory[35] = 19
         /\ t.memory[36] = 151 /\ t.memory[37] = 21 /\ t.memory[38] = 150 /\ t.memory[39] = 16
         /\ t.memory[40] = 153 /\ t.memory[41] = 18 /\ t.memory[42] = 54 /\ t.memory[43] = 7
         /\ t.memory[44] = 151 /\ t.memory[45] = 24 /\ t.memory[46] = 50 /\ t.memory[47] = 151
         /\ t.memory[48] = 20 /\ t.memory[49] = 206 /\ t.memory[50] = 0 /\ t.memory[51] = 16
         /\ t.memory[52] = 230 /\ t.memory[53] = 1 /\ t.memory[54] = 224 /\ t.memory[55] = 3
         /\ t.memory[56] = 231 /\ t.memory[57] = 7 /\ t.memory[58] = 230 /\ t.memory[59] = 0
         /\ t.memory[60] = 226 /\ t.memory[61] = 2 /\ t.memory[62] = 231 /\ t.memory[63] = 6
         /\ t.memory[64] = 32 /\ t.memory[65] = 254
<1>1. PICK l \in Word, r \in Word :
        t = Task("word", l, r, <<150, 17, 155, 19, 151, 21, 150, 16, 153, 18, 54, 7, 151, 24,
                                 50, 151, 20, 206, 0, 16, 230, 1, 224, 3, 231, 7, 230, 0,
                                 226, 2, 231, 6>>)
  BY DEF WordTasks
<1>2. t.l = l /\ t.r = r /\ t.registers = PowerUp
  BY <1>1 DEF Task
<1>3. /\ l \div 256 \in Byte /\ l % 256 \in Byte /\ l = (256 * (l \div 256)) + (l % 256)
      /\ r \div 256 \in Byte /\ r % 256 \in Byte /\ r = (256 * (r \div 256)) + (r % 256)
  BY BytesOfWord
<1>4. /\ t.memory[16] = l \div 256 /\ t.memory[17] = l % 256
      /\ t.memory[18] = r \div 256 /\ t.memory[19] = r % 256
  BY <1>1 DEF Task, Over, At, Start, Halt, Bytes16
<1>5. 16 .. 19 \cup 32 .. 65 \subseteq DOMAIN t.memory
  BY <1>1 DEF Task, Over, At, Start, Halt, Bytes16
<1>6. /\ t.memory[32] = 150 /\ t.memory[33] = 17 /\ t.memory[34] = 155 /\ t.memory[35] = 19
      /\ t.memory[36] = 151 /\ t.memory[37] = 21 /\ t.memory[38] = 150 /\ t.memory[39] = 16
      /\ t.memory[40] = 153 /\ t.memory[41] = 18 /\ t.memory[42] = 54 /\ t.memory[43] = 7
      /\ t.memory[44] = 151 /\ t.memory[45] = 24 /\ t.memory[46] = 50 /\ t.memory[47] = 151
  BY <1>1 DEF Task, Over, At, Start, Halt, Bytes16
<1>7. /\ t.memory[48] = 20 /\ t.memory[49] = 206 /\ t.memory[50] = 0 /\ t.memory[51] = 16
      /\ t.memory[52] = 230 /\ t.memory[53] = 1 /\ t.memory[54] = 224 /\ t.memory[55] = 3
      /\ t.memory[56] = 231 /\ t.memory[57] = 7 /\ t.memory[58] = 230 /\ t.memory[59] = 0
      /\ t.memory[60] = 226 /\ t.memory[61] = 2 /\ t.memory[62] = 231 /\ t.memory[63] = 6
      /\ t.memory[64] = 32 /\ t.memory[65] = 254
  BY <1>1 DEF Task, Over, At, Start, Halt, Bytes16
<1> QED BY <1>2, <1>3, <1>4, <1>5, <1>6, <1>7

LEMMA PushedOne ==
  ASSUME NEW cells, NEW sp \in Word, NEW value \in Byte, NEW addr \in Cells
  PROVE  Pushed(cells, sp, <<value>>)[addr] = IF addr = sp THEN value ELSE cells[addr]
<1> DEFINE bytes == <<value>>
<1>1. Len(bytes) = 1 /\ bytes[1] = value
  OBVIOUS
<1>2. 1 \in 1 .. 7 /\ \A depth \in 1 .. 1 : depth = 1
  OBVIOUS
<1>3. Add16(sp, 1 - 1) = sp
  <2>1. sp \in Int /\ 0 <= sp /\ sp < 65536
    BY WordBounds
  <2>2. sp % 65536 = sp
    BY <2>1, WordWithin
  <2> QED BY <2>1, <2>2 DEF Add16
<1> HIDE DEF bytes
<1>4. /\ addr = sp => Pushed(cells, sp, bytes)[addr] = bytes[1]
      /\ addr # sp => Pushed(cells, sp, bytes)[addr] = cells[addr]
  BY <1>1, <1>2, <1>3, PushedCells
<1>5. Pushed(cells, sp, bytes)[addr] = IF addr = sp THEN value ELSE cells[addr]
  BY <1>1, <1>4
<1> QED BY <1>5 DEF bytes

WordProgram == 16 .. 19 \cup 32 .. 65

\* The flags after the words at $10 and $12 were added, and their sum.
Summed(high, low, cc) ==
  LET l == WordAt(16)  r == WordAt(18) IN
    /\ (256 * ((256 * Bit(cc.c)) + high)) + low = l + r
    /\ cc.n <=> high >= 128
    /\ cc.v <=> Signed16(l) + Signed16(r) < -32768 \/ Signed16(l) + Signed16(r) > 32767

\* What holds at each instruction of the program that adds and subtracts words.
WordPoint ==
  LET carry == Bit(reg.cc.c) IN
    \/ reg.pc = 32 /\ reg.sp = 15
    \/ reg.pc = 34 /\ reg.sp = 15 /\ reg.a = memory[17]
    \/ reg.pc = 36 /\ reg.sp = 15 /\ (256 * carry) + reg.a = memory[17] + memory[19]
    \/ reg.pc = 38 /\ reg.sp = 15 /\ (256 * carry) + memory[21] = memory[17] + memory[19]
    \/ /\ reg.pc = 40 /\ reg.sp = 15 /\ (256 * carry) + memory[21] = memory[17] + memory[19]
       /\ reg.a = memory[16]
    \/ reg.pc = 42 /\ reg.sp = 15 /\ Summed(reg.a, memory[21], reg.cc)
    \/ reg.pc = 43 /\ reg.sp = 14 /\ Summed(memory[15], memory[21], reg.cc)
    \/ /\ reg.pc = 44 /\ reg.sp = 14 /\ Summed(memory[15], memory[21], reg.cc)
       /\ reg.a = ConditionCodes(reg.cc)
    \/ reg.pc = 46 /\ reg.sp = 14 /\ Summed(memory[15], memory[21], FromByte(memory[24]))
    \/ reg.pc = 47 /\ Summed(reg.a, memory[21], FromByte(memory[24]))
    \/ /\ Summed(memory[20], memory[21], FromByte(memory[24]))
       /\ \/ reg.pc = 49
          \/ /\ reg.x = 16
             /\ \/ reg.pc = 52
                \/ reg.pc = 54 /\ reg.b = memory[17]
                \/ reg.pc = 56 /\ reg.b - (256 * carry) = memory[17] - memory[19]
                \/ reg.pc = 58 /\ memory[23] - (256 * carry) = memory[17] - memory[19]
                \/ /\ reg.pc = 60 /\ memory[23] - (256 * carry) = memory[17] - memory[19]
                   /\ reg.b = memory[16]
                \/ /\ reg.pc = 62
                   /\ (256 * (reg.b - (256 * carry))) + memory[23] = WordAt(16) - WordAt(18)
                \/ /\ reg.pc = 64
                   /\ (256 * (memory[22] - (256 * carry))) + memory[23] = WordAt(16) - WordAt(18)

WordInv ==
  task.name = "word" =>
    /\ \A addr \in WordProgram : memory[addr] = task.memory[addr]
    /\ WordPoint
    /\ status \in {"running", "stopped"}
    /\ (reg.pc = lastpc \/ status = "stopped") => reg.pc = 64

\* The bytes of the program.
WordBytes ==
  /\ memory[16] \in Byte /\ memory[17] \in Byte /\ memory[18] \in Byte /\ memory[19] \in Byte
  /\ memory[32] = 150 /\ memory[33] = 17 /\ memory[34] = 155 /\ memory[35] = 19
  /\ memory[36] = 151 /\ memory[37] = 21 /\ memory[38] = 150 /\ memory[39] = 16
  /\ memory[40] = 153 /\ memory[41] = 18 /\ memory[42] = 54 /\ memory[43] = 7
  /\ memory[44] = 151 /\ memory[45] = 24 /\ memory[46] = 50 /\ memory[47] = 151
  /\ memory[48] = 20 /\ memory[49] = 206 /\ memory[50] = 0 /\ memory[51] = 16
  /\ memory[52] = 230 /\ memory[53] = 1 /\ memory[54] = 224 /\ memory[55] = 3
  /\ memory[56] = 231 /\ memory[57] = 7 /\ memory[58] = 230 /\ memory[59] = 0
  /\ memory[60] = 226 /\ memory[61] = 2 /\ memory[62] = 231 /\ memory[63] = 6
  /\ memory[64] = 32 /\ memory[65] = 254

WordRuns ==
  /\ ProgramCellsExist /\ CpuTypeOK /\ WordInv /\ task.name = "word" /\ WordBytes
  /\ CpuNext /\ Runs

LEMMA WordFacts ==
  ASSUME WordRuns
  PROVE  /\ WordBytes /\ reg.cc \in Flags /\ reg.a \in Byte /\ reg.b \in Byte
         /\ reg.cc.c \in BOOLEAN /\ Bit(reg.cc.c) \in 0 .. 1
         /\ \A addr \in 0 .. 127 : memory[addr] \in Byte
         /\ reg.pc \in 0 .. 120 => At120(reg.pc)
<1>1. reg.cc \in Flags /\ reg.a \in Byte /\ reg.b \in Byte
  BY DEF WordRuns, CpuTypeOK, Registers
<1>2. reg.cc.c \in BOOLEAN /\ Bit(reg.cc.c) \in 0 .. 1
  BY <1>1 DEF Flags, Bit
<1>3. \A addr \in 0 .. 127 : memory[addr] \in Byte
  BY DEF WordRuns, CpuTypeOK, MemoryOK, ProgramCellsExist
<1>4. reg.pc \in 0 .. 120 => At120(reg.pc)
  BY DEF WordRuns, At120
<1> QED BY <1>1, <1>2, <1>3, <1>4 DEF WordRuns

\* A step keeps the program, and one that arrives where it should keeps the rest.
LEMMA WordArrives ==
  ASSUME WordRuns, Proceeds(reg'.pc), reg'.pc \in 33 .. 64, reg'.pc # reg.pc \/ reg'.pc = 64,
         \A addr \in WordProgram : memory'[addr] = memory[addr],
         WordPoint'
  PROVE  WordInv'
BY DEF WordRuns, WordInv, Proceeds

LEMMA WordAddsLow ==
  ASSUME WordRuns, WordPoint, reg.pc \in {32, 34, 36}
  PROVE  WordInv'
<1>1. CASE reg.pc = 32
  <2>1. /\ Proceeds(34) /\ memory' = memory /\ reg'.sp = reg.sp
        /\ reg'.a = Arithmetic("lda", reg.a, memory[17]).out
    <3>1. At120(32) /\ memory[32] = 150 /\ memory[32 + 1] = 17 /\ 34 = 32 + 2
      BY <1>1, WordFacts DEF WordBytes
    <3> QED BY <3>1, DirectStep
  <2>2. Arithmetic("lda", reg.a, memory[17]).out = memory[17]
    BY WordFacts, LogicFlags DEF Arithmetic
  <2>3. WordPoint'
    BY <1>1, <2>1, <2>2 DEF WordPoint, Proceeds
  <2> QED BY <1>1, <2>1, <2>3, WordArrives DEF Proceeds
<1>2. CASE reg.pc = 34
  <2>1. /\ Proceeds(36) /\ memory' = memory /\ reg'.sp = reg.sp
        /\ reg'.a = Arithmetic("add", reg.a, memory[19]).out
        /\ reg'.cc = Arithmetic("add", reg.a, memory[19]).cc
    <3>1. At120(34) /\ memory[34] = 155 /\ memory[34 + 1] = 19 /\ 36 = 34 + 2
      BY <1>2, WordFacts DEF WordBytes
    <3> QED BY <3>1, DirectStep
  <2> DEFINE no == FALSE
             r == Add8(reg.cc, reg.a, memory[19], no)
  <2>2. Arithmetic("add", reg.a, memory[19]) = r
    BY Zenon DEF Arithmetic
  <2> DEFINE zero == Bit(no)
  <2>3. no \in BOOLEAN /\ zero = 0
    BY DEF Bit
  <2> HIDE DEF no, zero
  <2>4. (256 * Bit(r.cc.c)) + r.out = reg.a + memory[19]
    <3>1. reg.a \in Byte /\ memory[19] \in Byte /\ reg.cc \in Flags
      BY WordFacts DEF WordBytes
    <3>2. (256 * Bit(r.cc.c)) + r.out = reg.a + memory[19] + zero
      BY <2>3, <3>1, AddCarries DEF zero
    <3>3. reg.a + memory[19] + zero = reg.a + memory[19]
      <4>1. reg.a \in Int /\ memory[19] \in Int
        BY <3>1, NumberTypes
      <4> HIDE DEF r
      <4> QED BY <2>3, <4>1
    <3> QED BY <3>2, <3>3
  <2>5. reg.sp = 15 /\ reg.a = memory[17]
    BY <1>2 DEF WordPoint
  <2>6. WordPoint'
    <3> HIDE DEF r
    <3> QED BY <2>1, <2>2, <2>4, <2>5 DEF WordPoint, Proceeds
  <2> QED BY <1>2, <2>1, <2>6, WordArrives DEF Proceeds
<1>3. CASE reg.pc = 36
  <2>1. /\ Proceeds(38) /\ memory' = [memory EXCEPT ![21] = reg.a] /\ reg'.sp = reg.sp
        /\ reg'.cc = Logic8(reg.cc, reg.a).cc
    BY <1>3, WordFacts, StoreByteStep DEF WordBytes, Places
  <2>2. reg'.cc.c = reg.cc.c
    <3>1. reg.cc \in Flags /\ reg.a \in Byte
      BY WordFacts
    <3> QED BY <2>1, <3>1, LogicFlags
  <2>3. memory'[21] = reg.a /\ \A addr \in WordProgram : memory'[addr] = memory[addr]
    BY <2>1 DEF WordRuns, CpuTypeOK, MemoryOK, ProgramCellsExist, WordProgram
  <2>4. memory'[17] = memory[17] /\ memory'[19] = memory[19]
    BY <2>3 DEF WordProgram
  <2>5. reg.sp = 15 /\ (256 * Bit(reg.cc.c)) + reg.a = memory[17] + memory[19]
    BY <1>3 DEF WordPoint
  <2>6. WordPoint'
    BY <2>1, <2>2, <2>3, <2>4, <2>5 DEF WordPoint, Proceeds
  <2> QED BY <1>3, <2>1, <2>3, <2>6, WordArrives DEF Proceeds
<1> QED BY <1>1, <1>2, <1>3

LEMMA WordAddsHigh ==
  ASSUME WordRuns, WordPoint, reg.pc \in {38, 40}
  PROVE  WordInv'
<1>1. CASE reg.pc = 38
  <2>1. /\ Proceeds(40) /\ memory' = memory /\ reg'.sp = reg.sp
        /\ reg'.a = Arithmetic("lda", reg.a, memory[16]).out
        /\ reg'.cc = Arithmetic("lda", reg.a, memory[16]).cc
    <3>1. At120(38) /\ memory[38] = 150 /\ memory[38 + 1] = 16 /\ 40 = 38 + 2
      BY <1>1, WordFacts DEF WordBytes
    <3> QED BY <3>1, DirectStep
  <2>2. Arithmetic("lda", reg.a, memory[16]) = Logic8(reg.cc, memory[16])
    BY Zenon DEF Arithmetic
  <2>3. reg'.a = memory[16] /\ reg'.cc.c = reg.cc.c
    BY <2>1, <2>2, WordFacts, LogicFlags
  <2>4. reg.sp = 15 /\ (256 * Bit(reg.cc.c)) + memory[21] = memory[17] + memory[19]
    BY <1>1 DEF WordPoint
  <2>5. WordPoint'
    BY <2>1, <2>3, <2>4 DEF WordPoint, Proceeds
  <2> QED BY <1>1, <2>1, <2>5, WordArrives DEF Proceeds
<1>2. CASE reg.pc = 40
  <2> DEFINE h == memory[16]
             l == memory[17]
             k == memory[18]
             m == memory[19]
             low == memory[21]
             carry == reg.cc.c
             r == Add8(reg.cc, h, k, carry)
             high == r.out
             end == Bit(r.cc.c)
             between == Bit(carry)
  <2>1. /\ Proceeds(42) /\ memory' = memory /\ reg'.sp = reg.sp
        /\ reg'.a = Arithmetic("adc", reg.a, k).out
        /\ reg'.cc = Arithmetic("adc", reg.a, k).cc
    BY <1>2, WordFacts, DirectStep DEF WordBytes
  <2>2. reg.sp = 15 /\ (256 * between) + low = l + m /\ reg.a = h
    BY <1>2 DEF WordPoint
  <2>3. reg'.a = high /\ reg'.cc = r.cc
    <3>1. Arithmetic("adc", reg.a, k) = r
      BY <2>2, Zenon DEF Arithmetic
    <3> QED BY <2>1, <3>1, Zenon
  <2>4. /\ h \in Byte /\ l \in Byte /\ k \in Byte /\ m \in Byte /\ low \in Byte
        /\ carry \in BOOLEAN /\ reg.cc \in Flags /\ between \in 0 .. 1
    BY WordFacts DEF WordBytes
  <2>5. high \in Byte /\ (256 * end) + high = h + k + between
    BY <2>4, AddCarries
  <2>6. r.cc \in Flags /\ end \in 0 .. 1
    <3>1. r.cc \in Flags
      BY <2>4, AddTypes DEF Results
    <3>2. r.cc.c \in BOOLEAN
      BY <3>1 DEF Flags
    <3> QED BY <3>1, <3>2, Bits
  <2>7. /\ r.cc.n <=> high >= 128
        /\ r.cc.v <=> ((h >= 128 <=> k >= 128) /\ ~(high >= 128 <=> h >= 128))
    BY <2>4, AddFlags
  <2> HIDE DEF h, l, k, m, low, carry, r, high, end, between
  <2> DEFINE s == Signed16((256 * h) + l) + Signed16((256 * k) + m)
  <2>8. r.cc.v <=> s < -32768 \/ s > 32767
    BY <2>2, <2>4, <2>5, <2>6, <2>7, WordOverflow
  <2>9. (256 * ((256 * end) + high)) + low = ((256 * h) + l) + ((256 * k) + m)
    BY <2>2, <2>4, <2>5, <2>6 DEF Byte
  <2>10. Summed(reg.a, memory[21], reg.cc)'
    <3>1. Summed(high, low, r.cc)
      BY <2>7, <2>8, <2>9 DEF Summed, WordAt, h, l, k, m, end
    <3> QED BY <2>1, <2>3, <3>1 DEF Summed, WordAt, low
  <2>11. WordPoint'
    BY <2>1, <2>2, <2>10 DEF WordPoint, Proceeds
  <2> QED BY <1>2, <2>1, <2>11, WordArrives DEF Proceeds
<1> QED BY <1>1, <1>2

\* The sum and its flags are kept on the stack and in memory.
LEMMA WordKeepsFlags ==
  ASSUME WordRuns, WordPoint, reg.pc \in {42, 43, 44}
  PROVE  WordInv'
<1>1. CASE reg.pc = 42
  <2>1. /\ Proceeds(43) /\ memory' = Pushed(memory, reg.sp, <<reg.a>>)
        /\ reg'.sp = Add16(reg.sp, -1) /\ reg'.cc = reg.cc
    BY <1>1, WordFacts, PushStep DEF WordBytes
  <2>2. reg.sp = 15 /\ Summed(reg.a, memory[21], reg.cc)
    BY <1>1 DEF WordPoint
  <2>3. reg'.sp = 14
    BY <2>1, <2>2 DEF Add16
  <2>4. \A addr \in 0 .. 127 : memory'[addr] = IF addr = 15 THEN reg.a ELSE memory[addr]
    <3>1. reg.sp \in Word /\ reg.a \in Byte
      BY WordFacts DEF WordRuns, CpuTypeOK, Registers
    <3>2. \A addr \in 0 .. 127 : addr \in Cells
      BY DEF WordRuns, ProgramCellsExist
    <3> QED BY <2>1, <2>2, <3>1, <3>2, PushedOne
  <2>5. memory'[15] = reg.a /\ memory'[21] = memory[21]
        /\ \A addr \in WordProgram : memory'[addr] = memory[addr]
    BY <2>4 DEF WordProgram
  <2>6. WordAt(16)' = WordAt(16) /\ WordAt(18)' = WordAt(18)
    BY <2>5 DEF WordAt, WordProgram
  <2>7. WordPoint'
    BY <2>1, <2>2, <2>3, <2>5, <2>6 DEF WordPoint, Proceeds, Summed
  <2> QED BY <1>1, <2>1, <2>5, <2>7, WordArrives DEF Proceeds
<1>2. CASE reg.pc = 43
  <2>1. /\ Proceeds(44) /\ memory' = memory /\ reg'.sp = reg.sp
        /\ reg'.a = ConditionCodes(reg.cc) /\ reg'.cc = reg.cc
    BY <1>2, WordFacts, FlagsStep DEF WordBytes
  <2>2. reg.sp = 14 /\ Summed(memory[15], memory[21], reg.cc)
    BY <1>2 DEF WordPoint
  <2>3. WordPoint'
    BY <2>1, <2>2 DEF WordPoint, Proceeds, Summed, WordAt
  <2> QED BY <1>2, <2>1, <2>3, WordArrives DEF Proceeds
<1>3. CASE reg.pc = 44
  <2>1. /\ Proceeds(46) /\ memory' = [memory EXCEPT ![24] = reg.a] /\ reg'.sp = reg.sp
    BY <1>3, WordFacts, StoreByteStep DEF WordBytes, Places
  <2>2. /\ reg.sp = 14 /\ Summed(memory[15], memory[21], reg.cc)
        /\ reg.a = ConditionCodes(reg.cc)
    BY <1>3 DEF WordPoint
  <2>3. memory'[24] = reg.a /\ memory'[15] = memory[15] /\ memory'[21] = memory[21]
        /\ \A addr \in WordProgram : memory'[addr] = memory[addr]
    BY <2>1 DEF WordRuns, CpuTypeOK, MemoryOK, ProgramCellsExist, WordProgram
  <2>4. FromByte(memory'[24]) = reg.cc
    BY <2>2, <2>3, WordFacts, FlagsRestored
  <2>5. WordAt(16)' = WordAt(16) /\ WordAt(18)' = WordAt(18)
    BY <2>3 DEF WordAt, WordProgram
  <2>6. WordPoint'
    BY <2>1, <2>2, <2>3, <2>4, <2>5 DEF WordPoint, Proceeds, Summed
  <2> QED BY <1>3, <2>1, <2>3, <2>6, WordArrives DEF Proceeds
<1> QED BY <1>1, <1>2, <1>3

LEMMA WordStoresSum ==
  ASSUME WordRuns, WordPoint, reg.pc \in {46, 47, 49}
  PROVE  WordInv'
<1>1. CASE reg.pc = 46
  <2>1. /\ Proceeds(47) /\ memory' = memory /\ reg'.a = Popped(1)
    BY <1>1, WordFacts, PullStep DEF WordBytes
  <2>2. reg.sp = 14 /\ Summed(memory[15], memory[21], FromByte(memory[24]))
    BY <1>1 DEF WordPoint
  <2>3. Popped(1) = memory[15]
    BY <2>2, LowCells DEF Popped, Add16, Places, WordRuns
  <2>4. WordPoint'
    BY <2>1, <2>2, <2>3 DEF WordPoint, Proceeds, Summed, WordAt
  <2> QED BY <1>1, <2>1, <2>4, WordArrives DEF Proceeds
<1>2. CASE reg.pc = 47
  <2>1. /\ Proceeds(49) /\ memory' = [memory EXCEPT ![20] = reg.a]
    BY <1>2, WordFacts, StoreByteStep DEF WordBytes, Places
  <2>2. Summed(reg.a, memory[21], FromByte(memory[24]))
    BY <1>2 DEF WordPoint
  <2>3. memory'[20] = reg.a /\ memory'[21] = memory[21] /\ memory'[24] = memory[24]
        /\ \A addr \in WordProgram : memory'[addr] = memory[addr]
    BY <2>1 DEF WordRuns, CpuTypeOK, MemoryOK, ProgramCellsExist, WordProgram
  <2>4. WordAt(16)' = WordAt(16) /\ WordAt(18)' = WordAt(18)
    BY <2>3 DEF WordAt, WordProgram
  <2>5. WordPoint'
    BY <2>1, <2>2, <2>3, <2>4 DEF WordPoint, Proceeds, Summed
  <2> QED BY <1>2, <2>1, <2>3, <2>5, WordArrives DEF Proceeds
<1>3. CASE reg.pc = 49
  <2>1. /\ Proceeds(52) /\ memory' = memory /\ reg'.x = 16
    <3>1. 16 = (256 * memory[50]) + memory[51]
      BY WordFacts DEF WordBytes
    <3> QED BY <1>3, <3>1, WordFacts, LoadWordStep DEF WordBytes
  <2>2. Summed(memory[20], memory[21], FromByte(memory[24]))
    BY <1>3 DEF WordPoint
  <2>3. WordPoint'
    BY <2>1, <2>2 DEF WordPoint, Proceeds, Summed, WordAt
  <2> QED BY <1>3, <2>1, <2>3, WordArrives DEF Proceeds
<1> QED BY <1>1, <1>2, <1>3

\* The low bytes are subtracted, and the high bytes.
LEMMA WordSubtractsLow ==
  ASSUME WordRuns, WordPoint, reg.pc \in {52, 54, 56}
  PROVE  WordInv'
<1> DEFINE summed == Summed(memory[20], memory[21], FromByte(memory[24]))
<1>1. summed /\ reg.x = 16
  BY DEF WordPoint
<1>2. CASE reg.pc = 52
  <2>1. /\ Proceeds(54) /\ memory' = memory /\ reg'.x = reg.x
        /\ reg'.b = Arithmetic("lda", reg.b, memory[17]).out
    <3>1. 17 = reg.x + memory[53]
      BY <1>1, WordFacts DEF WordBytes
    <3> QED BY <1>2, <3>1, WordFacts, IndexedStep DEF WordBytes, Places
  <2>2. Arithmetic("lda", reg.b, memory[17]).out = memory[17]
    BY WordFacts, LogicFlags DEF Arithmetic
  <2>3. summed'
    BY <1>1, <2>1 DEF Summed, WordAt
  <2> HIDE DEF summed
  <2>4. WordPoint'
    BY <1>1, <2>1, <2>2, <2>3 DEF WordPoint, Proceeds, summed
  <2> QED BY <1>2, <2>1, <2>4, WordArrives DEF Proceeds
<1>3. CASE reg.pc = 54
  <2>1. /\ Proceeds(56) /\ memory' = memory /\ reg'.x = reg.x
        /\ reg'.b = Arithmetic("sub", reg.b, memory[19]).out
        /\ reg'.cc = Arithmetic("sub", reg.b, memory[19]).cc
    <3>1. 19 = reg.x + memory[55]
      BY <1>1, WordFacts DEF WordBytes
    <3> QED BY <1>3, <3>1, WordFacts, IndexedStep DEF WordBytes, Places
  <2> DEFINE no == FALSE
             r == Sub8(reg.cc, reg.b, memory[19], no)
             zero == Bit(no)
  <2>2. Arithmetic("sub", reg.b, memory[19]) = r
    BY Zenon DEF Arithmetic
  <2>3. no \in BOOLEAN /\ zero = 0
    BY DEF Bit
  <2> HIDE DEF no, zero
  <2>4. r.out - (256 * Bit(r.cc.c)) = reg.b - memory[19]
    <3>1. reg.b \in Byte /\ memory[19] \in Byte /\ reg.cc \in Flags
      BY WordFacts DEF WordBytes
    <3>2. r.out - (256 * Bit(r.cc.c)) = reg.b - memory[19] - zero
      BY <2>3, <3>1, SubBorrows DEF zero
    <3>3. reg.b - memory[19] - zero = reg.b - memory[19]
      <4>1. reg.b \in Int /\ memory[19] \in Int
        BY <3>1, NumberTypes
      <4> HIDE DEF r
      <4> QED BY <2>3, <4>1
    <3> QED BY <3>2, <3>3
  <2>5. reg.b = memory[17]
    BY <1>3 DEF WordPoint
  <2>6. summed'
    BY <1>1, <2>1 DEF Summed, WordAt
  <2> HIDE DEF r, summed
  <2>7. WordPoint'
    BY <1>1, <2>1, <2>2, <2>4, <2>5, <2>6 DEF WordPoint, Proceeds, summed
  <2> QED BY <1>3, <2>1, <2>7, WordArrives DEF Proceeds
<1>4. CASE reg.pc = 56
  <2>1. /\ Proceeds(58) /\ memory' = [memory EXCEPT ![23] = reg.b] /\ reg'.x = reg.x
        /\ reg'.cc = Logic8(reg.cc, reg.b).cc
    <3>1. 23 = reg.x + memory[57]
      BY <1>1, WordFacts DEF WordBytes
    <3> QED BY <1>4, <3>1, WordFacts, StoreByteStep DEF WordBytes, Places
  <2>2. reg'.cc.c = reg.cc.c
    <3>1. reg.cc \in Flags /\ reg.b \in Byte
      BY WordFacts
    <3> QED BY <2>1, <3>1, LogicFlags
  <2>3. /\ memory'[20] = memory[20] /\ memory'[21] = memory[21] /\ memory'[24] = memory[24]
        /\ memory'[23] = reg.b /\ \A addr \in WordProgram : memory'[addr] = memory[addr]
    BY <2>1 DEF WordRuns, CpuTypeOK, MemoryOK, ProgramCellsExist, WordProgram
  <2>4. /\ memory'[16] = memory[16] /\ memory'[17] = memory[17]
        /\ memory'[18] = memory[18] /\ memory'[19] = memory[19]
    BY <2>3 DEF WordProgram
  <2>5. reg.b - (256 * Bit(reg.cc.c)) = memory[17] - memory[19]
    BY <1>4 DEF WordPoint
  <2>6. summed'
    BY <1>1, <2>3, <2>4 DEF Summed, WordAt
  <2> HIDE DEF summed
  <2>7. WordPoint'
    BY <1>1, <2>1, <2>2, <2>3, <2>4, <2>5, <2>6 DEF WordPoint, Proceeds, summed
  <2> QED BY <1>4, <2>1, <2>3, <2>7, WordArrives DEF Proceeds
<1> QED BY <1>2, <1>3, <1>4

LEMMA WordSubtractsHigh ==
  ASSUME WordRuns, WordPoint, reg.pc \in {58, 60, 62}
  PROVE  WordInv'
<1> DEFINE summed == Summed(memory[20], memory[21], FromByte(memory[24]))
<1>1. summed /\ reg.x = 16
  BY DEF WordPoint
<1>2. CASE reg.pc = 58
  <2>1. /\ Proceeds(60) /\ memory' = memory /\ reg'.x = reg.x
        /\ reg'.b = Arithmetic("lda", reg.b, memory[16]).out
        /\ reg'.cc = Arithmetic("lda", reg.b, memory[16]).cc
    <3>1. 16 = reg.x + memory[59]
      BY <1>1, WordFacts DEF WordBytes
    <3> QED BY <1>2, <3>1, WordFacts, IndexedStep DEF WordBytes, Places
  <2>2. Arithmetic("lda", reg.b, memory[16]) = Logic8(reg.cc, memory[16])
    BY Zenon DEF Arithmetic
  <2>3. reg'.b = memory[16] /\ reg'.cc.c = reg.cc.c
    <3>1. reg.cc \in Flags /\ memory[16] \in Byte
      BY WordFacts DEF WordBytes
    <3> QED BY <2>1, <2>2, <3>1, LogicFlags
  <2>4. memory[23] - (256 * Bit(reg.cc.c)) = memory[17] - memory[19]
    BY <1>2 DEF WordPoint
  <2>5. summed'
    BY <1>1, <2>1 DEF Summed, WordAt
  <2> HIDE DEF summed
  <2>6. WordPoint'
    BY <1>1, <2>1, <2>3, <2>4, <2>5 DEF WordPoint, Proceeds, summed
  <2> QED BY <1>2, <2>1, <2>6, WordArrives DEF Proceeds
<1>3. CASE reg.pc = 60
  <2> DEFINE h == memory[16]
             l == memory[17]
             k == memory[18]
             m == memory[19]
             low == memory[23]
             borrow == reg.cc.c
             r == Sub8(reg.cc, h, k, borrow)
             high == r.out
             end == Bit(r.cc.c)
             between == Bit(borrow)
  <2>1. /\ Proceeds(62) /\ memory' = memory /\ reg'.x = reg.x
        /\ reg'.b = Arithmetic("sbc", reg.b, k).out
        /\ reg'.cc = Arithmetic("sbc", reg.b, k).cc
    <3>1. 18 = reg.x + memory[61]
      BY <1>1, WordFacts DEF WordBytes
    <3> QED BY <1>3, <3>1, WordFacts, IndexedStep DEF WordBytes, Places
  <2>2. low - (256 * between) = l - m /\ reg.b = h
    BY <1>3 DEF WordPoint
  <2>3. reg'.b = high /\ reg'.cc = r.cc
    <3>1. Arithmetic("sbc", reg.b, k) = r
      BY <2>2, Zenon DEF Arithmetic
    <3> QED BY <2>1, <3>1, Zenon
  <2>4. /\ h \in Byte /\ l \in Byte /\ k \in Byte /\ m \in Byte /\ low \in Byte
        /\ borrow \in BOOLEAN /\ reg.cc \in Flags /\ between \in 0 .. 1
    BY WordFacts DEF WordBytes
  <2>5. high \in Byte /\ high - (256 * end) = h - k - between
    BY <2>4, SubBorrows
  <2>6. end \in 0 .. 1
    BY DEF Bit
  <2>7. summed'
    BY <1>1, <2>1 DEF Summed, WordAt
  <2> HIDE DEF h, l, k, m, low, borrow, r, high, end, between
  <2>8. (256 * (high - (256 * end))) + low = ((256 * h) + l) - ((256 * k) + m)
    BY <2>2, <2>4, <2>5, <2>6 DEF Byte
  <2> HIDE DEF summed
  <2>9. WordPoint'
    <3>1. /\ reg'.pc = 62 /\ reg'.x = 16
          /\ (256 * (reg'.b - (256 * Bit(reg'.cc.c)))) + memory'[23] = WordAt(16)' - WordAt(18)'
      BY <1>1, <2>1, <2>3, <2>8 DEF Proceeds, WordAt, h, l, k, m, low, end
    <3> QED BY <2>7, <3>1 DEF WordPoint, summed
  <2> QED BY <1>3, <2>1, <2>9, WordArrives DEF Proceeds
<1>4. CASE reg.pc = 62
  <2>1. /\ Proceeds(64) /\ memory' = [memory EXCEPT ![22] = reg.b] /\ reg'.x = reg.x
        /\ reg'.cc = Logic8(reg.cc, reg.b).cc
    <3>1. 22 = reg.x + memory[63]
      BY <1>1, WordFacts DEF WordBytes
    <3> QED BY <1>4, <3>1, WordFacts, StoreByteStep DEF WordBytes, Places
  <2>2. reg'.cc.c = reg.cc.c
    <3>1. reg.cc \in Flags /\ reg.b \in Byte
      BY WordFacts
    <3> QED BY <2>1, <3>1, LogicFlags
  <2>3. /\ memory'[20] = memory[20] /\ memory'[21] = memory[21] /\ memory'[24] = memory[24]
        /\ memory'[22] = reg.b /\ memory'[23] = memory[23]
        /\ \A addr \in WordProgram : memory'[addr] = memory[addr]
    BY <2>1 DEF WordRuns, CpuTypeOK, MemoryOK, ProgramCellsExist, WordProgram
  <2>4. WordAt(16)' = WordAt(16) /\ WordAt(18)' = WordAt(18)
    BY <2>3 DEF WordAt, WordProgram
  <2>5. (256 * (reg.b - (256 * Bit(reg.cc.c)))) + memory[23] = WordAt(16) - WordAt(18)
    BY <1>4 DEF WordPoint
  <2>6. summed'
    BY <1>1, <2>3, <2>4 DEF Summed
  <2> HIDE DEF summed
  <2>7. WordPoint'
    BY <1>1, <2>1, <2>2, <2>3, <2>4, <2>5, <2>6 DEF WordPoint, Proceeds, summed
  <2> QED BY <1>4, <2>1, <2>3, <2>7, WordArrives DEF Proceeds
<1> QED BY <1>2, <1>3, <1>4

LEMMA WordHalts ==
  ASSUME WordRuns, WordPoint, reg.pc = 64
  PROVE  WordInv'
<1>1. Proceeds(64) /\ memory' = memory /\ reg'.x = reg.x /\ reg'.cc = reg.cc
  BY WordFacts, HaltStep DEF WordBytes
<1>2. /\ Summed(memory[20], memory[21], FromByte(memory[24])) /\ reg.x = 16
      /\ (256 * (memory[22] - (256 * Bit(reg.cc.c)))) + memory[23] = WordAt(16) - WordAt(18)
  BY DEF WordPoint
<1>3. WordPoint'
  BY <1>1, <1>2 DEF WordPoint, Proceeds, Summed, WordAt
<1> QED BY <1>1, <1>3, WordArrives DEF Proceeds

-----------------------------------------------------------------------------
(* Where programs start.                                                   *)

\* What every program starts from.
LEMMA TaskStarts ==
  ASSUME CpuInit, NEW frame, frame \subseteq Cells, frame \subseteq DOMAIN task.memory,
         task.registers = PowerUp
  PROVE  /\ \A addr \in frame : memory[addr] = task.memory[addr]
         /\ reg.pc = 32 /\ reg.b = 0 /\ reg.x = 0 /\ reg.sp = 15 /\ lastpc # 32
         /\ status = "running" /\ task \in Tasks
<1>1. \A addr \in frame : memory[addr] = task.memory[addr]
  BY DEF CpuInit
<1>2. lastpc = 65535 /\ 32 # 65535
  BY DEF CpuInit
<1>3. reg.pc = 32 /\ reg.b = 0 /\ reg.x = 0 /\ reg.sp = 15
  BY DEF CpuInit, PowerUp, Start
<1> QED BY <1>1, <1>2, <1>3 DEF CpuInit

\* A program that compares any two bytes and branches takes the branch exactly when
\* the relation the branch is named for holds: sub8, cpu_ops_branch.cpp and the
\* relative target together.
THEOREM CompareDecides ==
  ASSUME ProgramCellsExist, \A t \in Tasks : t.name = "compare" => Compares(t)
  PROVE  CpuSpec => []BranchesDecideRelations
<1>1. CpuInit => CompareInv
  <2> SUFFICES ASSUME CpuInit, task.name = "compare"
               PROVE  CompareInv
    BY DEF CompareInv
  <2>1. task \in Tasks
    BY DEF CpuInit
  <2>2. /\ task.registers = PowerUp /\ 16 .. 19 \cup 32 .. 43 \subseteq DOMAIN task.memory
    BY <2>1, CompareCode
  <2>3. 16 .. 19 \cup 32 .. 43 \subseteq Cells
    BY DEF ProgramCellsExist
  <2> HIDE DEF CpuInit
  <2>4. /\ \A addr \in 16 .. 19 \cup 32 .. 43 : memory[addr] = task.memory[addr]
        /\ reg.pc = 32 /\ reg.b = 0 /\ lastpc # 32 /\ status = "running"
    BY <2>2, <2>3, TaskStarts
  <2> QED BY <2>4 DEF CompareInv, CompareAt, CompareProgram
<1>2. CpuTypeOK /\ CompareInv /\ [CpuNext]_cpuVars => CompareInv'
  <2> SUFFICES ASSUME CpuTypeOK, CompareInv, [CpuNext]_cpuVars
               PROVE  CompareInv'
    OBVIOUS
  <2>1. CASE CpuNext /\ task.name = "compare"
    <3>1. Compares(task)
      BY <2>1 DEF CpuTypeOK
    <3> QED BY <2>1, <3>1, CompareStep
  <2>2. CASE CpuNext /\ task.name # "compare"
    <3>1. task' = task
      BY <2>2 DEF CpuNext, StopsInLoop, Instructions, Unimplemented, Executes, AccumulatorOp,
             StoreByte, LoadWord, StoreWord,
             ComparesX, UnaryRegister, UnaryMemory, Branches, Jumps, Calls, ReturnsFromCall,
             SoftwareInterrupt, ReturnsFromInterrupt, Pushes, Pulls, IndexAndStack,
             BetweenAccumulators, FlagsAndNop
    <3> QED BY <2>2, <3>1 DEF CompareInv
  <2>3. CASE UNCHANGED cpuVars
    BY <2>3 DEF CompareInv, CompareAt, cpuVars
  <2> QED BY <2>1, <2>2, <2>3
<1>3. CpuTypeOK /\ CompareInv => BranchesDecideRelations
  BY DEF CompareInv, CompareAt, BranchesDecideRelations, Ended
<1>4. CpuSpec => []CpuTypeOK
  BY CpuTypeCorrect
<1> QED BY <1>1, <1>2, <1>3, <1>4, PTL DEF CpuSpec

LEMMA TaskStays == CpuNext => task' = task
BY DEF CpuNext, StopsInLoop, Instructions, Unimplemented, Executes, AccumulatorOp,
       StoreByte, LoadWord, StoreWord, ComparesX, UnaryRegister, UnaryMemory, Branches, Jumps,
       Calls, ReturnsFromCall, SoftwareInterrupt, ReturnsFromInterrupt, Pushes, Pulls,
       IndexAndStack, BetweenAccumulators, FlagsAndNop

AddsWords(t) == t \in WordTasks(Word)

LEMMA WordBytesThere ==
  ASSUME AddsWords(task), WordInv, task.name = "word"
  PROVE  WordBytes /\ task.l = WordAt(16) /\ task.r = WordAt(18)
BY WordCode DEF AddsWords, WordInv, WordProgram, WordBytes, WordAt

LEMMA WordStep ==
  ASSUME ProgramCellsExist, CpuTypeOK, WordInv, task.name = "word", AddsWords(task), CpuNext
  PROVE  WordInv'
<1>1. CASE StopsInLoop
  <2>1. WordPoint /\ UNCHANGED <<reg, memory, lastpc, task>> /\ reg.pc = lastpc
    BY <1>1 DEF StopsInLoop, WordInv
  <2>2. WordPoint'
    BY <2>1 DEF WordPoint, Summed, WordAt
  <2> QED BY <1>1, <2>1, <2>2 DEF StopsInLoop, WordInv
<1>2. CASE Runs
  <2>1. WordRuns /\ WordPoint
    BY <1>2, WordBytesThere DEF WordRuns, WordInv
  <2>2. \/ reg.pc \in {32, 34, 36} \/ reg.pc \in {38, 40} \/ reg.pc \in {42, 43, 44}
        \/ reg.pc \in {46, 47, 49} \/ reg.pc \in {52, 54, 56} \/ reg.pc \in {58, 60, 62}
        \/ reg.pc = 64
    BY <2>1 DEF WordPoint
  <2> QED BY <2>1, <2>2, WordAddsLow, WordAddsHigh, WordKeepsFlags, WordStoresSum,
             WordSubtractsLow, WordSubtractsHigh, WordHalts
<1> QED BY <1>1, <1>2, RunsOrStops

\* A word that is a sum or a difference but for what is carried out of it.
LEMMA WordResults ==
  ASSUME NEW l \in Word, NEW r \in Word, NEW high \in Byte, NEW low \in Byte, NEW c \in 0 .. 1
  PROVE  /\ (256 * ((256 * c) + high)) + low = l + r =>
              /\ (256 * high) + low = (l + r) % 65536
              /\ c = 1 <=> l + r > 65535
         /\ (256 * (high - (256 * c))) + low = l - r =>
              /\ (256 * high) + low = (l - r) % 65536
              /\ c = 1 <=> l < r
         /\ high >= 128 <=> (256 * high) + low >= 32768
<1> DEFINE w == (256 * high) + low
<1>1. w \in Int /\ 0 <= w /\ w < 65536 /\ (high >= 128 <=> w >= 32768)
  BY DEF Byte
<1>2. l \in Int /\ 0 <= l /\ l < 65536 /\ r \in Int /\ 0 <= r /\ r < 65536
  BY WordBounds
<1>3. /\ (256 * ((256 * c) + high)) + low = w + (65536 * c)
      /\ (256 * (high - (256 * c))) + low = w - (65536 * c)
  BY DEF Byte
<1> HIDE DEF w
<1>4. ASSUME w + (65536 * c) = l + r
      PROVE  w = (l + r) % 65536 /\ (c = 1 <=> l + r > 65535)
  <2> DEFINE s == l + r
  <2>1. s \in Int /\ 0 <= s /\ s < 131072
    BY <1>2
  <2>2. w + (65536 * c) = s
    BY <1>4
  <2> HIDE DEF s
  <2>3. s % 65536 = IF s >= 65536 THEN s - 65536 ELSE s
    BY <2>1, ModuloWord
  <2>4. w = s % 65536 /\ (c = 1 <=> s > 65535)
    BY <1>1, <2>1, <2>2, <2>3
  <2> QED BY <2>4 DEF s
<1>5. ASSUME w - (65536 * c) = l - r
      PROVE  w = (l - r) % 65536 /\ (c = 1 <=> l < r)
  <2>1. l - r \in Int /\ -65536 <= l - r /\ l - r < 131072 /\ (c = 1 <=> l < r)
    BY <1>1, <1>2, <1>5
  <2>2. (l - r) % 65536 = IF l - r < 0 THEN l - r + 65536
                            ELSE IF l - r >= 65536 THEN l - r - 65536 ELSE l - r
    BY <2>1, ModuloWord
  <2> QED BY <1>1, <1>2, <1>5, <2>1, <2>2
<1> QED BY <1>1, <1>3, <1>4, <1>5 DEF w

LEMMA OutsideSignedWords ==
  ASSUME NEW s \in Int
  PROVE  s \notin SignedWords <=> s < -32768 \/ s > 32767
<1> DEFINE least == -32768
           most == 32767
<1>1. least \in Int /\ most \in Int
  OBVIOUS
<1>2. s \notin least .. most <=> s < least \/ s > most
  <2> HIDE DEF least, most
  <2> QED BY <1>1
<1>3. SignedWords = least .. most
  BY DEF SignedWords
<1>4. s < least \/ s > most <=> s < -32768 \/ s > 32767
  OBVIOUS
<1> HIDE DEF least, most
<1> QED BY <1>2, <1>3, <1>4

LEMMA SameTruth == \A p, q \in BOOLEAN : (p <=> q) => p = q
OBVIOUS

LEMMA WordEnds ==
  ASSUME ProgramCellsExist, CpuTypeOK, WordInv, \A t \in Tasks : t.name = "word" => AddsWords(t)
  PROVE  WordsAddAndSubtract
<1> SUFFICES ASSUME Ended("word")
             PROVE  WordsAddAndSubtract
  BY DEF WordsAddAndSubtract
<1> DEFINE flags == FromByte(memory[24])
           carry == Bit(reg.cc.c)
           borrowed == reg.cc.c
           l == task.l
           r == task.r
           signed == Signed16(l) + Signed16(r)
<1>1. status = "stopped" /\ task.name = "word" /\ task \in Tasks /\ reg.pc = 64 /\ WordPoint
  BY DEF Ended, WordInv, CpuTypeOK
<1>2. WordBytes /\ l = WordAt(16) /\ r = WordAt(18) /\ l \in Word /\ r \in Word
  BY <1>1, WordBytesThere, WordCode DEF AddsWords
<1>3. /\ memory[20] \in Byte /\ memory[21] \in Byte /\ memory[22] \in Byte
      /\ memory[23] \in Byte /\ memory[24] \in Byte
  BY DEF CpuTypeOK, MemoryOK, ProgramCellsExist
<1>4. /\ flags.c \in BOOLEAN /\ flags.v \in BOOLEAN /\ flags.n \in BOOLEAN
      /\ borrowed \in BOOLEAN
  BY DEF CpuTypeOK, Registers, Flags, FromByte
<1>5. /\ (256 * ((256 * Bit(flags.c)) + memory[20])) + memory[21] = l + r
      /\ flags.n <=> memory[20] >= 128
      /\ flags.v <=> signed < -32768 \/ signed > 32767
      /\ (256 * (memory[22] - (256 * carry))) + memory[23] = l - r
  BY <1>1, <1>2 DEF WordPoint, Summed
<1> HIDE DEF flags
<1>6. /\ Bit(flags.c) \in 0 .. 1 /\ (Bit(flags.c) = 1 <=> flags.c)
      /\ carry \in 0 .. 1 /\ (carry = 1 <=> borrowed)
  BY <1>4 DEF Bit
<1> HIDE DEF carry, borrowed
<1>7. /\ WordAt(20) = (l + r) % 65536 /\ (flags.c <=> l + r > 65535)
      /\ WordAt(22) = (l - r) % 65536 /\ (borrowed <=> l < r)
      /\ memory[20] >= 128 <=> WordAt(20) >= 32768
  BY <1>2, <1>3, <1>5, <1>6, WordResults DEF WordAt
<1>8. signed \notin SignedWords <=> signed < -32768 \/ signed > 32767
  <2>1. signed \in Int
    BY <1>2, WordBounds DEF Signed16
  <2> QED BY <2>1, OutsideSignedWords
<1>9. /\ flags.c = (l + r > 65535) /\ flags.v = (signed \notin SignedWords)
      /\ flags.n = (WordAt(20) >= 32768) /\ borrowed = (l < r)
  <2> DEFINE outside == signed \notin SignedWords
  <2>1. (l + r > 65535) \in BOOLEAN /\ (WordAt(20) >= 32768) \in BOOLEAN /\ (l < r) \in BOOLEAN
    BY <1>2, <1>3, WordBounds DEF WordAt, Byte
  <2>2. outside \in BOOLEAN
    OBVIOUS
  <2>3. flags.v <=> outside
    BY <1>5, <1>8
  <2>4. flags.v = outside
    <3> HIDE DEF outside
    <3> QED BY <1>4, <2>2, <2>3, SameTruth
  <2>5. flags.c = (l + r > 65535) /\ flags.n = (WordAt(20) >= 32768) /\ borrowed = (l < r)
    BY <1>4, <1>5, <1>7, <2>1, SameTruth
  <2> QED BY <2>4, <2>5
<1> QED BY <1>1, <1>7, <1>9 DEF WordsAddAndSubtract, Ended, flags, borrowed

\* ADD then ADC, and SUB then SBC, are the sum and the difference of any two words
\* with their carry, overflow and sign, whatever the pushes, transfers, loads and
\* stores between them do to the other flags.
THEOREM WordsCompute ==
  ASSUME ProgramCellsExist, \A t \in Tasks : t.name = "word" => AddsWords(t)
  PROVE  CpuSpec => []WordsAddAndSubtract
<1>1. CpuInit => WordInv
  <2> SUFFICES ASSUME CpuInit, task.name = "word"
               PROVE  WordInv
    BY DEF WordInv
  <2>1. task \in Tasks
    BY DEF CpuInit
  <2>2. /\ task.registers = PowerUp /\ WordProgram \subseteq DOMAIN task.memory
    BY <2>1, WordCode DEF AddsWords, WordProgram
  <2>3. WordProgram \subseteq Cells
    BY DEF ProgramCellsExist, WordProgram
  <2> HIDE DEF CpuInit
  <2>4. /\ \A addr \in WordProgram : memory[addr] = task.memory[addr]
        /\ reg.pc = 32 /\ reg.sp = 15 /\ lastpc # 32 /\ status = "running"
    BY <2>2, <2>3, TaskStarts
  <2> QED BY <2>4 DEF WordInv, WordPoint
<1>2. CpuTypeOK /\ WordInv /\ [CpuNext]_cpuVars => WordInv'
  <2> SUFFICES ASSUME CpuTypeOK, WordInv, [CpuNext]_cpuVars
               PROVE  WordInv'
    OBVIOUS
  <2>1. CASE CpuNext /\ task.name = "word"
    <3>1. AddsWords(task)
      BY <2>1 DEF CpuTypeOK
    <3> QED BY <2>1, <3>1, WordStep
  <2>2. CASE CpuNext /\ task.name # "word"
    BY <2>2, TaskStays DEF WordInv
  <2>3. CASE UNCHANGED cpuVars
    <3>1. WordPoint => WordPoint'
      BY <2>3 DEF WordPoint, Summed, WordAt, cpuVars
    <3> QED BY <2>3, <3>1 DEF WordInv, cpuVars
  <2> QED BY <2>1, <2>2, <2>3
<1>3. CpuTypeOK /\ WordInv => WordsAddAndSubtract
  BY WordEnds
<1>4. CpuSpec => []CpuTypeOK
  BY CpuTypeCorrect
<1> QED BY <1>1, <1>2, <1>3, <1>4, PTL DEF CpuSpec

-----------------------------------------------------------------------------
(* The program whose SWI is to restore every register.                     *)

CallProgram == 32 .. 34 \cup 40 .. 54 \cup 64 .. 70

Vector == {SwiVector, SwiVector + 1}

\* The SWI program, with a stack that has room for what it pushes.
SavesRegisters(t) ==
  /\ t \in CallTasks(Registers)
  /\ Vector \subseteq Cells
  /\ \A n \in 0 .. 10 : Add16(t.registers.sp, -n) \in Cells \ CallProgram
  /\ \A n \in 0 .. 6 : Add16(t.registers.sp, -n) \notin Vector

LEMMA CallCode ==
  ASSUME NEW t \in CallTasks(Registers)
  PROVE  /\ t.registers \in Registers /\ t.registers.pc = 32
         /\ CallProgram \cup Vector \subseteq DOMAIN t.memory
         /\ t.memory[32] = 63 /\ t.memory[33] = 32 /\ t.memory[34] = 254
         /\ t.memory[40] = 79 /\ t.memory[41] = 95 /\ t.memory[42] = 206 /\ t.memory[43] = 0
         /\ t.memory[44] = 0 /\ t.memory[45] = 13 /\ t.memory[46] = 15 /\ t.memory[47] = 189
         /\ t.memory[48] = 0 /\ t.memory[49] = 64 /\ t.memory[50] = 141 /\ t.memory[51] = 12
         /\ t.memory[52] = 173 /\ t.memory[53] = 62 /\ t.memory[54] = 59
         /\ t.memory[64] = 54 /\ t.memory[65] = 55 /\ t.memory[66] = 8 /\ t.memory[67] = 83
         /\ t.memory[68] = 51 /\ t.memory[69] = 50 /\ t.memory[70] = 57
         /\ t.memory[SwiVector] = 0 /\ t.memory[SwiVector + 1] = 40
<1> DEFINE handler == At(40, <<79, 95, 206, 0, 0, 13, 15, 189, 0, 64, 141, 12, 173, 62, 59>>)
           routine == At(64, <<54, 55, 8, 83, 51, 50, 57>>)
           vector == At(65530, <<0, 40>>)
           code == At(Start, <<63>>)
           halt == At(Start + Len(<<63>>), Halt)
           words == Over(At(16, Bytes16(0)), At(18, Bytes16(0)))
           start == Over(code, halt)
           started == Over(start, words)
           first == Over(started, handler)
           second == Over(routine, vector)
           all == Over(first, second)
<1>1. PICK r \in Registers : t = CallTask(r)
  BY DEF CallTasks
<1>2. t.registers = [r EXCEPT !.pc = Start] /\ t.memory = all
  <2>1. t.registers = [r EXCEPT !.pc = Start]
    BY <1>1 DEF CallTask, Task
  <2>2. t.memory = all
    BY <1>1 DEF CallTask, Task
  <2> QED BY <2>1, <2>2
<1>3. t.registers \in Registers /\ t.registers.pc = 32
  <2>1. 32 \in Word
    BY WordWithin
  <2> QED BY <1>2, <2>1 DEF Registers, Start
<1>4. /\ DOMAIN handler = 40 .. 54
      /\ DOMAIN code = 32 .. 32 /\ DOMAIN halt = 33 .. 34 /\ DOMAIN words = 16 .. 19
      /\ DOMAIN routine = 64 .. 70 /\ DOMAIN vector = Vector
  BY DEF At, Start, Halt, Bytes16, Over, Vector, SwiVector
<1>5. /\ handler[40] = 79 /\ handler[41] = 95 /\ handler[42] = 206 /\ handler[43] = 0
      /\ handler[44] = 0 /\ handler[45] = 13 /\ handler[46] = 15 /\ handler[47] = 189
      /\ handler[48] = 0 /\ handler[49] = 64 /\ handler[50] = 141 /\ handler[51] = 12
      /\ handler[52] = 173 /\ handler[53] = 62 /\ handler[54] = 59
  BY DEF At
<1>6. /\ routine[64] = 54 /\ routine[65] = 55 /\ routine[66] = 8 /\ routine[67] = 83
      /\ routine[68] = 51 /\ routine[69] = 50 /\ routine[70] = 57
  BY DEF At
<1>7. code[32] = 63 /\ halt[33] = 32 /\ halt[34] = 254
  BY DEF At, Start, Halt
<1>8. vector[SwiVector] = 0 /\ vector[SwiVector + 1] = 40
  BY DEF At, SwiVector
<1>9. \A addr \in 0 .. 120 : addr \notin Vector
  BY DEF SwiVector, Vector
<1> HIDE DEF handler, routine, vector, code, halt, words
<1>10. /\ DOMAIN start = 32 .. 34 /\ start[32] = code[32]
       /\ \A addr \in 33 .. 34 : start[addr] = halt[addr]
  BY <1>4 DEF Over
<1> HIDE DEF start
<1>11. DOMAIN started = 16 .. 19 \cup 32 .. 34 /\ \A addr \in 32 .. 34 : started[addr] = start[addr]
  BY <1>4, <1>10 DEF Over
<1> HIDE DEF started
<1>12. /\ DOMAIN first = 16 .. 19 \cup 32 .. 34 \cup 40 .. 54
       /\ \A addr \in 32 .. 34 : first[addr] = started[addr]
       /\ \A addr \in 40 .. 54 : first[addr] = handler[addr]
  BY <1>4, <1>11 DEF Over
<1>13. /\ DOMAIN second = 64 .. 70 \cup Vector
       /\ \A addr \in 64 .. 70 : second[addr] = routine[addr]
       /\ \A addr \in Vector : second[addr] = vector[addr]
  BY <1>4, <1>9 DEF Over
<1> HIDE DEF first, second
<1>14. /\ DOMAIN all = DOMAIN first \cup DOMAIN second
       /\ \A addr \in 32 .. 34 \cup 40 .. 54 : all[addr] = first[addr]
       /\ \A addr \in 64 .. 70 \cup Vector : all[addr] = second[addr]
  BY <1>9, <1>12, <1>13 DEF Over
<1> HIDE DEF all
<1>15. /\ all[32] = 63 /\ all[33] = 32 /\ all[34] = 254
  <2>1. first[32] = code[32] /\ \A addr \in 33 .. 34 : first[addr] = halt[addr]
    BY <1>10, <1>11, <1>12
  <2> QED BY <1>7, <1>14, <2>1
<1>16. /\ \A addr \in 40 .. 54 : all[addr] = handler[addr]
       /\ \A addr \in 64 .. 70 : all[addr] = routine[addr]
       /\ \A addr \in Vector : all[addr] = vector[addr]
  BY <1>12, <1>13, <1>14
<1>17. all[SwiVector] = 0 /\ all[SwiVector + 1] = 40
  BY <1>8, <1>16 DEF Vector
<1>18. CallProgram \cup Vector \subseteq DOMAIN all
  BY <1>12, <1>13, <1>14 DEF CallProgram
<1> QED BY <1>2, <1>3, <1>5, <1>6, <1>15, <1>16, <1>17, <1>18

\* How far the program's addresses are from each other.
Offsets == -16 .. 16

LEMMA AddTwice ==
  ASSUME NEW w \in Word, NEW m \in Offsets, NEW n \in Offsets
  PROVE  Add16(w, m) \in Word /\ Add16(Add16(w, m), n) = Add16(w, m + n)
<1> DEFINE v == Add16(w, m)
           round == 65536
<1>1. w \in Int /\ 0 <= w /\ w < round /\ round \in Int /\ round > 64
  BY WordBounds
<1>2. m \in -16 .. 16 /\ n \in -16 .. 16 /\ m \in Int /\ n \in Int /\ m + n \in Int
  BY DEF Offsets
<1>3. v \in Word /\ v \in Int /\ 0 <= v /\ v < round
  <2>1. v \in Word
    <3>1. w \in Int /\ m \in Int
      BY <1>1, <1>2
    <3> QED BY <3>1, WordOf
  <2> HIDE DEF v
  <2> QED BY <2>1, WordBounds
<1>4. v = IF w + m < 0 THEN w + m + round ELSE IF w + m >= round THEN w + m - round ELSE w + m
  BY <1>1, <1>2 DEF Add16
<1>5. Add16(w, m + n) = IF w + (m + n) < 0 THEN w + (m + n) + round
                          ELSE IF w + (m + n) >= round THEN w + (m + n) - round
                          ELSE w + (m + n)
  BY <1>1, <1>2 DEF Add16
<1> HIDE DEF v
<1>6. Add16(v, n) = IF v + n < 0 THEN v + n + round
                      ELSE IF v + n >= round THEN v + n - round ELSE v + n
  BY <1>2, <1>3 DEF Add16
<1> HIDE DEF round
<1>7. Add16(v, n) = Add16(w, m + n)
  BY <1>1, <1>2, <1>3, <1>4, <1>5, <1>6
<1> QED BY <1>3, <1>7 DEF v

LEMMA AddDiffers ==
  ASSUME NEW w \in Word, NEW m \in Offsets, NEW n \in Offsets, Add16(w, m) = Add16(w, n)
  PROVE  m = n
<1> DEFINE round == 65536
<1>1. w \in Int /\ 0 <= w /\ w < round /\ round \in Int /\ round > 64
  BY WordBounds
<1>2. m \in -16 .. 16 /\ n \in -16 .. 16 /\ m \in Int /\ n \in Int
  BY DEF Offsets
<1>3. Add16(w, m) = IF w + m < 0 THEN w + m + round
                      ELSE IF w + m >= round THEN w + m - round ELSE w + m
  BY <1>1, <1>2 DEF Add16
<1>4. Add16(w, n) = IF w + n < 0 THEN w + n + round
                      ELSE IF w + n >= round THEN w + n - round ELSE w + n
  BY <1>1, <1>2 DEF Add16
<1> DEFINE p == Add16(w, m)
           q == Add16(w, n)
<1>5. p = q
  OBVIOUS
<1> HIDE DEF round, p, q
<1>6. /\ p = IF w + m < 0 THEN w + m + round ELSE IF w + m >= round THEN w + m - round ELSE w + m
      /\ p = IF w + n < 0 THEN w + n + round ELSE IF w + n >= round THEN w + n - round ELSE w + n
  BY <1>3, <1>4, <1>5 DEF p, q
<1> QED BY <1>1, <1>2, <1>6

\* A place of the stack of the program that was started.
Down(n) == Add16(task.registers.sp, -n)

LEMMA DownMoves ==
  ASSUME task.registers.sp \in Word, NEW n \in 0 .. 12, NEW k \in -12 .. 12, n - k \in 0 .. 12
  PROVE  Down(n) \in Word /\ Add16(Down(n), k) = Down(n - k)
<1> DEFINE m == -n
           w == task.registers.sp
<1>1. m \in Offsets /\ k \in Offsets /\ w \in Word
  BY DEF Offsets
<1>2. m + k = -(n - k)
  OBVIOUS
<1>3. Down(n) = Add16(w, m) /\ Down(n - k) = Add16(w, -(n - k))
  BY DEF Down
<1> HIDE DEF m, w
<1>4. Add16(w, m) \in Word /\ Add16(Add16(w, m), k) = Add16(w, m + k)
  BY <1>1, AddTwice
<1> QED BY <1>2, <1>3, <1>4

LEMMA DownDiffer ==
  ASSUME task.registers.sp \in Word, NEW m \in 0 .. 12, NEW n \in 0 .. 12, Down(m) = Down(n)
  PROVE  m = n
<1>1. -m \in Offsets /\ -n \in Offsets
  BY DEF Offsets
<1>2. -m = -n
  BY <1>1, AddDiffers DEF Down
<1> QED BY <1>2

\* The registers the SWI pushed, as the handler found them.
Saved ==
  LET s == task.registers IN
    /\ memory[Down(6)] = ConditionCodes(s.cc) /\ memory[Down(5)] = s.b /\ memory[Down(4)] = s.a
    /\ memory[Down(3)] = s.x \div 256 /\ memory[Down(2)] = s.x % 256
    /\ memory[Down(1)] = 0 /\ memory[Down(0)] = 33

\* The routine returns to the call that X counts.
Returns(x) ==
  /\ memory[Down(8)] = 0
  /\ \/ x = 0 /\ memory[Down(7)] = 50
     \/ x = 1 /\ memory[Down(7)] = 52
     \/ x = 2 /\ memory[Down(7)] = 54

Restored ==
  LET s == task.registers IN
    reg.a = s.a /\ reg.b = s.b /\ reg.x = s.x /\ reg.sp = s.sp /\ reg.cc = s.cc

CallPoint ==
  \/ /\ reg.pc = 32 /\ Restored /\ memory[SwiVector] = 0 /\ memory[SwiVector + 1] = 40
  \/ reg.pc = 33 /\ Restored
  \/ /\ Saved /\ reg.sp = Down(7)
     /\ \/ reg.pc \in {40, 41, 42}
        \/ reg.pc \in {45, 46, 47} /\ reg.x = 0
        \/ reg.pc = 50 /\ reg.x = 1
        \/ reg.pc = 52 /\ reg.x = 2
        \/ reg.pc = 54
  \/ /\ Saved
     /\ \/ reg.pc = 64 /\ reg.sp = Down(9) /\ Returns(reg.x)
        \/ reg.pc = 65 /\ reg.sp = Down(10) /\ Returns(reg.x)
        \/ reg.pc = 66 /\ reg.sp = Down(11) /\ Returns(reg.x)
        \/ reg.pc \in {67, 68} /\ reg.sp = Down(11) /\ reg.x \in 1 .. 3 /\ Returns(reg.x - 1)
        \/ reg.pc = 69 /\ reg.sp = Down(10) /\ reg.x \in 1 .. 3 /\ Returns(reg.x - 1)
        \/ reg.pc = 70 /\ reg.sp = Down(9) /\ reg.x \in 1 .. 3 /\ Returns(reg.x - 1)

CallInv ==
  task.name = "call" =>
    /\ \A addr \in CallProgram : memory[addr] = task.memory[addr]
    /\ CallPoint
    /\ status \in {"running", "stopped"}
    /\ (reg.pc = lastpc \/ status = "stopped") => reg.pc = 33

\* The bytes of the program.
CallBytes ==
  /\ memory[32] = 63 /\ memory[33] = 32 /\ memory[34] = 254
  /\ memory[40] = 79 /\ memory[41] = 95 /\ memory[42] = 206 /\ memory[43] = 0
  /\ memory[44] = 0 /\ memory[45] = 13 /\ memory[46] = 15 /\ memory[47] = 189
  /\ memory[48] = 0 /\ memory[49] = 64 /\ memory[50] = 141 /\ memory[51] = 12
  /\ memory[52] = 173 /\ memory[53] = 62 /\ memory[54] = 59
  /\ memory[64] = 54 /\ memory[65] = 55 /\ memory[66] = 8 /\ memory[67] = 83
  /\ memory[68] = 51 /\ memory[69] = 50 /\ memory[70] = 57

CallRuns ==
  /\ ProgramCellsExist /\ CpuTypeOK /\ CallInv /\ task.name = "call" /\ CallBytes
  /\ SavesRegisters(task) /\ CpuNext /\ Runs

LEMMA CallFacts ==
  ASSUME CallRuns
  PROVE  /\ CallBytes /\ reg.a \in Byte /\ reg.b \in Byte /\ reg.sp \in Word
         /\ task.registers \in Registers /\ task.registers.sp \in Word
         /\ \A n \in 0 .. 10 : Down(n) \in Cells /\ Down(n) \notin CallProgram
                               /\ Read8(Down(n)) = memory[Down(n)]
         /\ \A n \in 0 .. 6 : Down(n) # SwiVector /\ Down(n) # SwiVector + 1
         /\ CallProgram \subseteq Cells /\ SwiVector \in Cells /\ SwiVector + 1 \in Cells
         /\ reg.pc \in 0 .. 120 => At120(reg.pc)
<1>1. reg.a \in Byte /\ reg.b \in Byte /\ reg.sp \in Word
  BY DEF CallRuns, CpuTypeOK, Registers
<1>2. task.registers \in Registers /\ task.registers.sp \in Word
  BY CallCode DEF CallRuns, SavesRegisters, Registers
<1>3. \A n \in 0 .. 10 : Down(n) \in Cells /\ Down(n) \notin CallProgram
                         /\ Read8(Down(n)) = memory[Down(n)]
  BY DEF CallRuns, SavesRegisters, Down, Read8, ReadFrom
<1>4. \A n \in 0 .. 6 : Down(n) # SwiVector /\ Down(n) # SwiVector + 1
  BY DEF CallRuns, SavesRegisters, Down, Vector
<1>5. CallProgram \subseteq Cells /\ SwiVector \in Cells /\ SwiVector + 1 \in Cells
  BY DEF CallRuns, ProgramCellsExist, CallProgram, SavesRegisters, Vector
<1>6. reg.pc \in 0 .. 120 => At120(reg.pc)
  BY DEF CallRuns, At120
<1> QED BY <1>1, <1>2, <1>3, <1>4, <1>5, <1>6 DEF CallRuns

LEMMA CallArrives ==
  ASSUME CallRuns, Proceeds(reg'.pc), reg'.pc \in 33 .. 70, reg'.pc # reg.pc \/ reg'.pc = 33,
         \A addr \in CallProgram : memory'[addr] = memory[addr],
         CallPoint'
  PROVE  CallInv'
BY DEF CallRuns, CallInv, Proceeds

\* Memory and the task stay.
LEMMA SavedStays ==
  ASSUME memory' = memory, task' = task
  PROVE  (Saved => Saved') /\ \A x : Returns(x) => Returns(x)'
BY DEF Saved, Returns, Down

LEMMA PushedTwo ==
  ASSUME NEW cells, NEW sp \in Word, NEW high, NEW low, NEW addr \in Cells
  PROVE  /\ addr = sp => Pushed(cells, sp, <<high, low>>)[addr] = low
         /\ addr = Add16(sp, -1) => Pushed(cells, sp, <<high, low>>)[addr] = high
         /\ addr # sp /\ addr # Add16(sp, -1) =>
              Pushed(cells, sp, <<high, low>>)[addr] = cells[addr]
<1> DEFINE bytes == <<high, low>>
<1>1. Len(bytes) = 2 /\ bytes[1] = high /\ bytes[2] = low
  OBVIOUS
<1>2. 2 \in 1 .. 7 /\ \A depth \in 1 .. 2 : depth = 1 \/ depth = 2
  OBVIOUS
<1>3. Add16(sp, 2 - 2) = sp /\ 1 - 2 = -1
  <2>1. sp \in Int /\ 0 <= sp /\ sp < 65536
    BY WordBounds
  <2>2. sp % 65536 = sp
    BY <2>1, WordWithin
  <2> QED BY <2>1, <2>2 DEF Add16
<1> HIDE DEF bytes
<1>4. /\ addr = sp => Pushed(cells, sp, bytes)[addr] = bytes[2]
      /\ addr = Add16(sp, -1) => Pushed(cells, sp, bytes)[addr] = bytes[1]
      /\ addr # sp /\ addr # Add16(sp, -1) => Pushed(cells, sp, bytes)[addr] = cells[addr]
  BY <1>1, <1>2, <1>3, PushedCells
<1> QED BY <1>1, <1>4 DEF bytes

\* What is pushed below what was saved leaves it.
LEMMA SavedKept ==
  ASSUME CallRuns, Saved, task' = task, NEW n \in 0 .. 10, n >= 7,
         \A m \in 0 .. 10 : m < n => memory'[Down(m)] = memory[Down(m)]
  PROVE  Saved' /\ \A m \in 0 .. 12 : Down(m)' = Down(m)
BY DEF Saved, Down

LEMMA CallHandles ==
  ASSUME CallRuns, CallPoint, reg.pc \in {40, 41, 42, 45, 46}
  PROVE  CallInv'
<1>1. Saved /\ reg.sp = Down(7) /\ (reg.pc \in {45, 46} => reg.x = 0)
  BY DEF CallPoint
<1>2. /\ memory' = memory /\ reg'.sp = reg.sp
      /\ reg.pc \in {40, 41, 45, 46} => Proceeds(reg.pc + 1) /\ reg'.x = reg.x
      /\ reg.pc = 42 => Proceeds(45) /\ reg'.x = 0
  <2>1. CASE reg.pc = 40
    BY <2>1, CallFacts, UnaryRegisterStep DEF CallBytes
  <2>2. CASE reg.pc = 41
    BY <2>2, CallFacts, UnaryRegisterStep DEF CallBytes
  <2>3. CASE reg.pc = 42
    <3>1. 0 = (256 * memory[43]) + memory[44]
      BY CallFacts DEF CallBytes
    <3> QED BY <2>3, <3>1, CallFacts, LoadWordStep DEF CallBytes
  <2>4. CASE reg.pc = 45
    BY <2>4, CallFacts, FlagsStep DEF CallBytes
  <2>5. CASE reg.pc = 46
    BY <2>5, CallFacts, FlagsStep DEF CallBytes
  <2> QED BY <2>1, <2>2, <2>3, <2>4, <2>5
<1>3. task' = task /\ Saved' /\ Down(7)' = Down(7)
  BY <1>1, <1>2, SavedStays DEF Proceeds, Down
<1>4. CallPoint'
  BY <1>1, <1>2, <1>3 DEF CallPoint, Proceeds
<1> QED BY <1>2, <1>4, CallArrives DEF Proceeds

LEMMA CallCalls ==
  ASSUME CallRuns, CallPoint, reg.pc \in {47, 50, 52}
  PROVE  CallInv'
<1> DEFINE back == IF reg.pc = 47 THEN 50 ELSE IF reg.pc = 50 THEN 52 ELSE 54
<1>1. Saved /\ reg.sp = Down(7)
      /\ reg.x = IF reg.pc = 47 THEN 0 ELSE IF reg.pc = 50 THEN 1 ELSE 2
  BY DEF CallPoint
<1>2. /\ Proceeds(64) /\ reg'.x = reg.x /\ reg'.sp = Add16(reg.sp, -2)
      /\ memory' = Pushed(memory, reg.sp, <<back \div 256, back % 256>>)
  <2>1. At120(reg.pc)
    BY CallFacts
  <2>2. CallsTo(reg.pc, 64, back)
    <3>1. CASE reg.pc = 47
      BY <3>1, CallFacts DEF CallsTo, CallBytes, Places
    <3>2. CASE reg.pc = 50
      BY <3>2, CallFacts DEF CallsTo, CallBytes, Places
    <3>3. CASE reg.pc = 52
      BY <1>1, <3>3, CallFacts DEF CallsTo, CallBytes, Places
    <3> QED BY <3>1, <3>2, <3>3
  <2> HIDE DEF back
  <2> QED BY <2>1, <2>2, CallStep
<1>3. Add16(Down(7), -2) = Down(9) /\ Add16(Down(7), -1) = Down(8) /\ Down(7) \in Word
  <2>1. 7 - (-2) = 9 /\ 7 - (-1) = 8
    OBVIOUS
  <2> QED BY <2>1, CallFacts, DownMoves
<1>4. back \div 256 = 0 /\ back % 256 = back
  OBVIOUS
<1> HIDE DEF back
<1>5. /\ memory'[Down(7)] = back /\ memory'[Down(8)] = 0
      /\ \A addr \in Cells : addr # Down(7) /\ addr # Down(8) => memory'[addr] = memory[addr]
  BY <1>1, <1>2, <1>3, <1>4, CallFacts, PushedTwo
<1>6. \A m \in 0 .. 10 : m < 7 => memory'[Down(m)] = memory[Down(m)]
  <2>1. \A m \in 0 .. 10 : m < 7 => Down(m) # Down(7) /\ Down(m) # Down(8)
    BY CallFacts, DownDiffer
  <2> QED BY <1>5, <2>1, CallFacts
<1>7. Saved' /\ \A m \in 0 .. 12 : Down(m)' = Down(m)
  BY <1>1, <1>2, <1>6, SavedKept DEF Proceeds
<1>8. Returns(reg.x)'
  BY <1>1, <1>2, <1>5, <1>7 DEF Returns, back
<1>9. CallPoint'
  BY <1>1, <1>2, <1>3, <1>7, <1>8 DEF CallPoint, Proceeds
<1>10. \A addr \in CallProgram : memory'[addr] = memory[addr]
  BY <1>5, CallFacts
<1> QED BY <1>2, <1>9, <1>10, CallArrives DEF Proceeds

\* PSHA / PSHB / INX / COMB
LEMMA CallPushes ==
  ASSUME CallRuns, CallPoint, reg.pc \in {64, 65}
  PROVE  CallInv'
<1> DEFINE n == IF reg.pc = 64 THEN 9 ELSE 10
           value == IF reg.pc = 64 THEN reg.a ELSE reg.b
<1>1. Saved /\ reg.sp = Down(n) /\ Returns(reg.x)
  BY DEF CallPoint
<1>2. /\ Proceeds(reg.pc + 1) /\ reg'.x = reg.x /\ reg'.sp = Add16(reg.sp, -1)
      /\ memory' = Pushed(memory, reg.sp, <<value>>)
  <2>1. CASE reg.pc = 64
    BY <2>1, CallFacts, PushStep DEF CallBytes
  <2>2. CASE reg.pc = 65
    BY <2>2, CallFacts, PushStep DEF CallBytes
  <2> QED BY <2>1, <2>2
<1>3. n \in 9 .. 10 /\ value \in Byte /\ (reg.pc = 64 <=> n = 9)
  BY CallFacts
<1> HIDE DEF n, value
<1>4. Add16(Down(n), -1) = Down(n + 1) /\ Down(n) \in Word
  <2>1. n - (-1) = n + 1 /\ n - (-1) \in 0 .. 12 /\ n \in 0 .. 12 /\ -1 \in -12 .. 12
    BY <1>3
  <2>2. Add16(Down(n), -1) = Down(n - (-1)) /\ Down(n) \in Word
    BY <2>1, CallFacts, DownMoves
  <2> QED BY <2>1, <2>2
<1>5. \A addr \in Cells : memory'[addr] = IF addr = Down(n) THEN value ELSE memory[addr]
  <2> DEFINE place == Down(n)
  <2>1. memory' = Pushed(memory, place, <<value>>) /\ place \in Word
    BY <1>1, <1>2, <1>4
  <2> HIDE DEF place
  <2>2. ASSUME NEW addr \in Cells
        PROVE  memory'[addr] = IF addr = place THEN value ELSE memory[addr]
    BY <1>3, <2>1, PushedOne
  <2> QED BY <2>2 DEF place
<1>6. \A m \in 0 .. 10 : m < n => memory'[Down(m)] = memory[Down(m)]
  <2>1. \A m \in 0 .. 10 : m < n => Down(m) # Down(n)
    BY <1>3, CallFacts, DownDiffer
  <2> QED BY <1>5, <2>1, CallFacts
<1>7. Saved' /\ \A m \in 0 .. 12 : Down(m)' = Down(m)
  BY <1>1, <1>2, <1>3, <1>6, SavedKept DEF Proceeds
<1>8. Returns(reg.x)'
  <2>1. memory'[Down(7)] = memory[Down(7)] /\ memory'[Down(8)] = memory[Down(8)]
    BY <1>3, <1>6
  <2> QED BY <1>1, <1>2, <1>7, <2>1 DEF Returns
<1>9. CallPoint'
  <2>1. CASE reg.pc = 64
    <3>1. reg'.pc = 65 /\ reg'.sp = Down(10)'
      BY <1>1, <1>2, <1>3, <1>4, <1>7, <2>1 DEF Proceeds
    <3> QED BY <1>7, <1>8, <3>1 DEF CallPoint
  <2>2. CASE reg.pc = 65
    <3>1. reg'.pc = 66 /\ reg'.sp = Down(11)'
      BY <1>1, <1>2, <1>3, <1>4, <1>7, <2>2 DEF Proceeds
    <3> QED BY <1>7, <1>8, <3>1 DEF CallPoint
  <2> QED BY <2>1, <2>2
<1>10. \A addr \in CallProgram : memory'[addr] = memory[addr]
  BY <1>3, <1>5, CallFacts
<1> QED BY <1>2, <1>9, <1>10, CallArrives DEF Proceeds

LEMMA CallCounts ==
  ASSUME CallRuns, CallPoint, reg.pc \in {66, 67}
  PROVE  CallInv'
<1>1. CASE reg.pc = 66
  <2>1. Saved /\ reg.sp = Down(11) /\ Returns(reg.x) /\ reg.x \in 0 .. 2
    BY <1>1 DEF CallPoint, Returns
  <2>2. Proceeds(67) /\ memory' = memory /\ reg'.sp = reg.sp /\ reg'.x = reg.x + 1
    <3>1. Add16(reg.x, 1) = reg.x + 1
      BY <2>1 DEF Add16
    <3> QED BY <1>1, <3>1, CallFacts, IncrementXStep DEF CallBytes
  <2>3. Saved' /\ Down(11)' = Down(11) /\ Down(7)' = Down(7) /\ Down(8)' = Down(8)
    BY <2>1, <2>2, SavedStays DEF Proceeds, Down
  <2>4. Returns(reg.x - 1)' /\ reg'.x \in 1 .. 3
    BY <2>1, <2>2, <2>3 DEF Returns
  <2>5. CallPoint'
    BY <2>1, <2>2, <2>3, <2>4 DEF CallPoint, Proceeds
  <2> QED BY <1>1, <2>2, <2>5, CallArrives DEF Proceeds
<1>2. CASE reg.pc = 67
  <2>1. Saved /\ reg.sp = Down(11) /\ reg.x \in 1 .. 3 /\ Returns(reg.x - 1)
    BY <1>2 DEF CallPoint
  <2>2. Proceeds(68) /\ memory' = memory /\ reg'.sp = reg.sp /\ reg'.x = reg.x
    BY <1>2, CallFacts, UnaryRegisterStep DEF CallBytes
  <2>3. Saved' /\ Down(11)' = Down(11) /\ Down(7)' = Down(7) /\ Down(8)' = Down(8)
    BY <2>1, <2>2, SavedStays DEF Proceeds, Down
  <2>4. Returns(reg.x - 1)'
    BY <2>1, <2>2, <2>3 DEF Returns
  <2>5. CallPoint'
    BY <2>1, <2>2, <2>3, <2>4 DEF CallPoint, Proceeds
  <2> QED BY <1>2, <2>2, <2>5, CallArrives DEF Proceeds
<1> QED BY <1>1, <1>2

\* PULB / PULA
LEMMA CallPulls ==
  ASSUME CallRuns, CallPoint, reg.pc \in {68, 69}
  PROVE  CallInv'
<1> DEFINE n == IF reg.pc = 68 THEN 11 ELSE 10
<1>1. Saved /\ reg.sp = Down(n) /\ reg.x \in 1 .. 3 /\ Returns(reg.x - 1)
  BY DEF CallPoint
<1>2. Proceeds(reg.pc + 1) /\ memory' = memory /\ reg'.sp = Add16(reg.sp, 1) /\ reg'.x = reg.x
  <2>1. CASE reg.pc = 68
    BY <2>1, CallFacts, PullStep DEF CallBytes
  <2>2. CASE reg.pc = 69
    BY <2>2, CallFacts, PullStep DEF CallBytes
  <2> QED BY <2>1, <2>2
<1>3. Saved' /\ \A m \in 0 .. 12 : Down(m)' = Down(m)
  BY <1>1, <1>2, SavedStays DEF Proceeds, Down
<1>4. Returns(reg.x - 1)'
  BY <1>1, <1>2, <1>3 DEF Returns
<1>5. Add16(Down(11), 1) = Down(10) /\ Add16(Down(10), 1) = Down(9)
  <2>1. 11 - 1 = 10 /\ 10 - 1 = 9
    OBVIOUS
  <2> QED BY <2>1, CallFacts, DownMoves
<1>6. CallPoint'
  BY <1>1, <1>2, <1>3, <1>4, <1>5 DEF CallPoint, Proceeds
<1> QED BY <1>2, <1>6, CallArrives DEF Proceeds

\* RTS
LEMMA CallReturns ==
  ASSUME CallRuns, CallPoint, reg.pc = 70
  PROVE  CallInv'
<1>1. Saved /\ reg.sp = Down(9) /\ reg.x \in 1 .. 3 /\ Returns(reg.x - 1)
  BY DEF CallPoint
<1>2. Proceeds(Popped16(1)) /\ memory' = memory /\ reg'.sp = Add16(reg.sp, 2) /\ reg'.x = reg.x
  BY CallFacts, ReturnStep DEF CallBytes
<1>3. Add16(Down(9), 1) = Down(8) /\ Add16(Down(9), 2) = Down(7)
  <2>1. 9 - 1 = 8 /\ 9 - 2 = 7
    OBVIOUS
  <2> QED BY <2>1, CallFacts, DownMoves
<1>4. Popped16(1) = (256 * memory[Down(8)]) + memory[Down(7)]
  BY <1>1, <1>3, CallFacts DEF Popped16, Popped
<1>5. Popped16(1) = IF reg.x = 1 THEN 50 ELSE IF reg.x = 2 THEN 52 ELSE 54
  BY <1>1, <1>4 DEF Returns
<1>6. Saved' /\ Down(7)' = Down(7)
  BY <1>1, <1>2, SavedStays DEF Proceeds, Down
<1>7. CallPoint'
  BY <1>1, <1>2, <1>3, <1>5, <1>6 DEF CallPoint, Proceeds
<1> QED BY <1>2, <1>5, <1>7, CallArrives DEF Proceeds

LEMMA CallHalts ==
  ASSUME CallRuns, CallPoint, reg.pc = 33
  PROVE  CallInv'
<1>1. Proceeds(33) /\ memory' = memory /\ reg'.a = reg.a /\ reg'.b = reg.b /\ reg'.x = reg.x
      /\ reg'.sp = reg.sp /\ reg'.cc = reg.cc
  BY CallFacts, HaltStep DEF CallBytes
<1>2. Restored
  BY DEF CallPoint
<1>3. CallPoint'
  BY <1>1, <1>2 DEF CallPoint, Proceeds, Restored
<1> QED BY <1>1, <1>3, CallArrives DEF Proceeds

\* RTI
LEMMA CallRestores ==
  ASSUME CallRuns, CallPoint, reg.pc = 54
  PROVE  CallInv'
<1> DEFINE s == task.registers
<1>1. Saved /\ reg.sp = Down(7)
  BY DEF CallPoint
<1>2. /\ Proceeds(Popped16(6)) /\ memory' = memory
      /\ reg' = [cc |-> FromByte(Popped(1)), b |-> Popped(2), a |-> Popped(3),
                 x |-> Popped16(4), pc |-> Popped16(6), sp |-> Add16(reg.sp, 7)]
  BY CallFacts, InterruptReturnStep DEF CallBytes
<1>3. /\ Add16(Down(7), 1) = Down(6) /\ Add16(Down(7), 2) = Down(5)
      /\ Add16(Down(7), 3) = Down(4) /\ Add16(Down(7), 4) = Down(3)
      /\ Add16(Down(7), 4 + 1) = Down(2) /\ Add16(Down(7), 6) = Down(1)
      /\ Add16(Down(7), 6 + 1) = Down(0) /\ Add16(Down(7), 7) = Down(0)
  <2>1. /\ 7 - 1 = 6 /\ 7 - 2 = 5 /\ 7 - 3 = 4 /\ 7 - 4 = 3 /\ 7 - (4 + 1) = 2
        /\ 7 - 6 = 1 /\ 7 - (6 + 1) = 0 /\ 7 - 7 = 0
    OBVIOUS
  <2> QED BY <2>1, CallFacts, DownMoves
<1>4. /\ Popped(1) = ConditionCodes(s.cc) /\ Popped(2) = s.b /\ Popped(3) = s.a
      /\ Popped16(4) = (256 * (s.x \div 256)) + (s.x % 256)
      /\ Popped16(6) = 33
  BY <1>1, <1>3, CallFacts DEF Popped16, Popped, Saved
<1>5. s.cc \in Flags /\ s.x \in Word /\ s.sp \in Word
  BY CallFacts DEF Registers
<1>6. FromByte(Popped(1)) = s.cc /\ Popped16(4) = s.x
  <2>1. s.x = (256 * (s.x \div 256)) + (s.x % 256)
    BY <1>5, BytesOfWord
  <2>2. FromByte(ConditionCodes(s.cc)) = s.cc
    BY <1>5, FlagsRestored
  <2> QED BY <1>4, <2>1, <2>2
<1>7. Down(0) = s.sp
  <2>1. s.sp \in Int /\ 0 <= s.sp /\ s.sp < 65536
    BY <1>5, WordBounds
  <2>2. s.sp % 65536 = s.sp
    BY <2>1, WordWithin
  <2> QED BY <2>1, <2>2 DEF Down, Add16
<1>8. Restored' /\ Proceeds(33)
  BY <1>1, <1>2, <1>3, <1>4, <1>6, <1>7 DEF Restored, Proceeds
<1>9. CallPoint'
  BY <1>8 DEF CallPoint, Proceeds
<1> QED BY <1>2, <1>8, <1>9, CallArrives DEF Proceeds

\* SWI: what is pushed, and where the handler starts.
LEMMA CallEnters ==
  ASSUME CallRuns, CallPoint, reg.pc = 32
  PROVE  CallInv'
<1> DEFINE s == task.registers
           bytes == <<ConditionCodes(reg.cc), reg.b, reg.a, reg.x \div 256, reg.x % 256,
                      (32 + 1) \div 256, (32 + 1) % 256>>
           cells == Pushed(memory, reg.sp, bytes)
<1>1. /\ reg.sp = s.sp /\ reg.a = s.a /\ reg.b = s.b /\ reg.x = s.x /\ reg.cc = s.cc
      /\ memory[SwiVector] = 0 /\ memory[SwiVector + 1] = 40
  BY DEF CallPoint, Restored
<1>2. /\ Proceeds((256 * ReadFrom(cells, SwiVector)) + ReadFrom(cells, SwiVector + 1))
      /\ memory' = cells /\ reg'.sp = Add16(reg.sp, -7)
  <2>1. At120(32) /\ memory[32] = 63
    BY CallFacts DEF CallBytes
  <2> QED BY <2>1, InterruptStep
<1>3. /\ Len(bytes) = 7
      /\ bytes[1] = ConditionCodes(s.cc) /\ bytes[2] = s.b /\ bytes[3] = s.a
      /\ bytes[4] = s.x \div 256 /\ bytes[5] = s.x % 256 /\ bytes[6] = 0 /\ bytes[7] = 33
  BY <1>1
<1> HIDE DEF bytes
<1>4. ASSUME NEW addr \in Cells
      PROVE  /\ \A depth \in 1 .. 7 : addr = Down(7 - depth) => cells[addr] = bytes[depth]
             /\ (\A depth \in 1 .. 7 : addr # Down(7 - depth)) => cells[addr] = memory[addr]
  <2>1. \A depth \in 1 .. 7 : Add16(s.sp, depth - 7) = Down(7 - depth)
    BY DEF Down
  <2> QED BY <1>1, <1>3, <2>1, CallFacts, PushedCells
<1> HIDE DEF cells
<1>5. \A n \in 0 .. 6 : cells[Down(n)] = bytes[7 - n]
  <2> SUFFICES ASSUME NEW n \in 0 .. 6
               PROVE  cells[Down(n)] = bytes[7 - n]
    OBVIOUS
  <2>1. Down(n) \in Cells /\ 7 - n \in 1 .. 7 /\ 7 - (7 - n) = n
    BY CallFacts
  <2> QED BY <1>4, <2>1
<1>6. /\ cells[Down(6)] = ConditionCodes(s.cc) /\ cells[Down(5)] = s.b /\ cells[Down(4)] = s.a
      /\ cells[Down(3)] = s.x \div 256 /\ cells[Down(2)] = s.x % 256
      /\ cells[Down(1)] = 0 /\ cells[Down(0)] = 33
  BY <1>3, <1>5
<1>7. ASSUME NEW addr \in Cells, \A n \in 0 .. 6 : addr # Down(n)
      PROVE  cells[addr] = memory[addr]
  <2>1. \A depth \in 1 .. 7 : addr # Down(7 - depth)
    BY <1>7
  <2> QED BY <1>4, <2>1
<1>8. \A addr \in CallProgram : cells[addr] = memory[addr]
  BY <1>7, CallFacts
<1>9. ReadFrom(cells, SwiVector) = 0 /\ ReadFrom(cells, SwiVector + 1) = 40
  BY <1>1, <1>7, CallFacts DEF ReadFrom
<1>10. reg'.sp = Down(7)
  BY <1>1, <1>2 DEF Down
<1>11. Proceeds(40)
  BY <1>2, <1>9
<1>12. Saved' /\ Down(7)' = Down(7)
  BY <1>2, <1>6, <1>11 DEF Saved, Down, Proceeds
<1>13. CallPoint'
  BY <1>10, <1>11, <1>12 DEF CallPoint, Proceeds
<1> QED BY <1>2, <1>8, <1>11, <1>13, CallArrives DEF Proceeds

LEMMA CallStarts ==
  ASSUME CpuInit, task.name = "call", SavesRegisters(task), ProgramCellsExist
  PROVE  CallInv
<1>1. /\ CallProgram \cup Vector \subseteq DOMAIN task.memory
      /\ task.registers.pc = 32 /\ task.memory[SwiVector] = 0 /\ task.memory[SwiVector + 1] = 40
  BY CallCode DEF SavesRegisters
<1>2. CallProgram \cup Vector \subseteq Cells
  BY DEF SavesRegisters, ProgramCellsExist, CallProgram
<1>3. \A addr \in CallProgram \cup Vector : memory[addr] = task.memory[addr]
  BY <1>1, <1>2 DEF CpuInit
<1>4. lastpc # 32 /\ status = "running" /\ reg = task.registers
  <2>1. lastpc = 65535 /\ 32 # 65535
    BY DEF CpuInit
  <2> QED BY <2>1 DEF CpuInit
<1>5. memory[SwiVector] = 0 /\ memory[SwiVector + 1] = 40
  BY <1>1, <1>3 DEF Vector
<1>6. CallPoint
  BY <1>1, <1>4, <1>5 DEF CallPoint, Restored
<1> QED BY <1>1, <1>3, <1>4, <1>6 DEF CallInv

LEMMA CallBytesThere ==
  ASSUME SavesRegisters(task), CallInv, task.name = "call"
  PROVE  CallBytes
BY CallCode DEF SavesRegisters, CallInv, CallProgram, CallBytes

LEMMA CallUnchanged ==
  ASSUME CallPoint, UNCHANGED <<reg, memory, task>>
  PROVE  CallPoint'
<1>1. /\ Saved => Saved'
      /\ \A x : Returns(x) => Returns(x)'
  BY SavedStays
<1>2. Restored => Restored'
  BY DEF Restored
<1>3. \A n \in 0 .. 12 : Down(n)' = Down(n)
  BY DEF Down
<1>4. Returns(reg.x) => Returns(reg.x)'
  BY <1>3 DEF Returns
<1>5. Returns(reg.x - 1) => Returns(reg.x - 1)'
  BY <1>3 DEF Returns
<1> QED BY <1>1, <1>2, <1>3, <1>4, <1>5 DEF CallPoint

LEMMA CallStepKeeps ==
  ASSUME ProgramCellsExist, CpuTypeOK, CallInv, task.name = "call", SavesRegisters(task), CpuNext
  PROVE  CallInv'
<1>1. CASE StopsInLoop
  <2>1. CallPoint /\ UNCHANGED <<reg, memory, lastpc, task>> /\ reg.pc = lastpc
    BY <1>1 DEF StopsInLoop, CallInv
  <2>2. CallPoint'
    BY <2>1, CallUnchanged
  <2> QED BY <1>1, <2>1, <2>2 DEF StopsInLoop, CallInv
<1>2. CASE Runs
  <2>1. CallRuns /\ CallPoint
    BY <1>2, CallBytesThere DEF CallRuns, CallInv
  <2>2. \/ reg.pc = 32 \/ reg.pc = 33 \/ reg.pc \in {40, 41, 42, 45, 46}
        \/ reg.pc \in {47, 50, 52} \/ reg.pc = 54 \/ reg.pc \in {64, 65} \/ reg.pc \in {66, 67}
        \/ reg.pc \in {68, 69} \/ reg.pc = 70
    BY <2>1 DEF CallPoint
  <2> QED BY <2>1, <2>2, CallEnters, CallHandles, CallCalls, CallRestores, CallPushes, CallCounts,
             CallPulls, CallReturns, CallHalts
<1> QED BY <1>1, <1>2, RunsOrStops

\* op_swi, the calls and returns of the handler and op_rti: from any registers, and
\* for any stack that meets neither the program nor the vector, wrapped around the
\* end of memory or not, the program goes on with the registers it had.
THEOREM RegistersRestored ==
  ASSUME ProgramCellsExist, \A t \in Tasks : t.name = "call" => SavesRegisters(t)
  PROVE  CpuSpec => []InterruptsRestore
<1>1. CpuInit => CallInv
  <2> SUFFICES ASSUME CpuInit, task.name = "call"
               PROVE  CallInv
    BY DEF CallInv
  <2>1. SavesRegisters(task)
    BY DEF CpuInit
  <2> QED BY <2>1, CallStarts
<1>2. CpuTypeOK /\ CallInv /\ [CpuNext]_cpuVars => CallInv'
  <2> SUFFICES ASSUME CpuTypeOK, CallInv, [CpuNext]_cpuVars
               PROVE  CallInv'
    OBVIOUS
  <2>1. CASE CpuNext /\ task.name = "call"
    <3>1. SavesRegisters(task)
      BY <2>1 DEF CpuTypeOK
    <3> QED BY <2>1, <3>1, CallStepKeeps
  <2>2. CASE CpuNext /\ task.name # "call"
    BY <2>2, TaskStays DEF CallInv
  <2>3. CASE UNCHANGED cpuVars
    <3>1. UNCHANGED <<reg, memory, lastpc, status, task>>
      BY <2>3 DEF cpuVars
    <3> QED BY <3>1, CallUnchanged DEF CallInv
  <2> QED BY <2>1, <2>2, <2>3
<1>3. CpuTypeOK /\ CallInv => InterruptsRestore
  <2> SUFFICES ASSUME CpuTypeOK, CallInv, Ended("call")
               PROVE  InterruptsRestore
    BY DEF InterruptsRestore
  <2>1. task.name = "call" /\ status = "stopped" /\ reg.pc = 33 /\ CallPoint /\ task \in Tasks
    BY DEF Ended, CallInv, CpuTypeOK
  <2>2. Restored
    BY <2>1 DEF CallPoint
  <2>3. task.registers \in Registers /\ reg \in Registers
    BY <2>1, CallCode DEF SavesRegisters, CpuTypeOK
  <2>4. reg = [task.registers EXCEPT !.pc = Start + 1]
    BY <2>1, <2>2, <2>3 DEF Registers, Restored, Start
  <2> QED BY <2>1, <2>4 DEF InterruptsRestore
<1>4. CpuSpec => []CpuTypeOK
  BY CpuTypeCorrect
<1> QED BY <1>1, <1>2, <1>3, <1>4, PTL DEF CpuSpec

-----------------------------------------------------------------------------
(* The program that copies bytes.                                          *)

CopyProgram == 16 .. 19 \cup 32 .. 49 \cup 54 .. 55

CopiesBytes(t) == t \in CopyTasks(Word)

LEMMA CopyCode ==
  ASSUME NEW t, CopiesBytes(t)
  PROVE  /\ t.branch \in 1 .. 4 /\ t.registers = PowerUp
         /\ CopyProgram \subseteq DOMAIN t.memory
         /\ \A addr \in 24 .. 29 : addr \notin DOMAIN t.memory
         /\ t.memory[32] = 206 /\ t.memory[33] = 0 /\ t.memory[34] = 16
         /\ t.memory[35] = 166 /\ t.memory[36] = 0 /\ t.memory[37] = 167 /\ t.memory[38] = 8
         /\ t.memory[39] = 8 /\ t.memory[40] = 140 /\ t.memory[41] = 0
         /\ t.memory[42] = 16 + t.branch
         /\ t.memory[43] = 38 /\ t.memory[44] = 246 /\ t.memory[45] = 223 /\ t.memory[46] = 28
         /\ t.memory[47] = 126 /\ t.memory[48] = 0 /\ t.memory[49] = 54
         /\ t.memory[54] = 32 /\ t.memory[55] = 254
<1> DEFINE code(n) == <<206, 0, 16, 166, 0, 167, 8, 8, 140, 0, 16 + n, 38, 246,
                        223, 28, 126, 0, 54>>
<1>1. PICK l \in Word, r \in Word, n \in 1 .. 4 : t = CopyTask(l, r, n)
  BY DEF CopiesBytes, CopyTasks
<1>2. t.branch = n /\ t.registers = PowerUp
      /\ t.memory = Over(Task("copy", l, r, code(n)).memory, At(54, Halt))
  BY <1>1 DEF CopyTask, Task
<1> DEFINE low == Task("copy", l, r, code(n)).memory
<1>3. DOMAIN low = 16 .. 19 \cup 32 .. 51
  BY DEF Task, Over, At, Start, Halt, Bytes16
<1>4. /\ low[32] = 206 /\ low[33] = 0 /\ low[34] = 16 /\ low[35] = 166 /\ low[36] = 0
      /\ low[37] = 167 /\ low[38] = 8 /\ low[39] = 8 /\ low[40] = 140 /\ low[41] = 0
  BY DEF Task, Over, At, Start, Halt, Bytes16
<1>7. /\ low[42] = 16 + n /\ low[43] = 38 /\ low[44] = 246 /\ low[45] = 223 /\ low[46] = 28
      /\ low[47] = 126 /\ low[48] = 0 /\ low[49] = 54
  BY DEF Task, Over, At, Start, Halt, Bytes16
<1> HIDE DEF low
<1>5. DOMAIN At(54, Halt) = 54 .. 55 /\ At(54, Halt)[54] = 32 /\ At(54, Halt)[55] = 254
  BY DEF At, Halt
<1>6. /\ DOMAIN t.memory = 16 .. 19 \cup 32 .. 51 \cup 54 .. 55
      /\ \A addr \in 32 .. 49 : t.memory[addr] = low[addr]
      /\ t.memory[54] = 32 /\ t.memory[55] = 254
  BY <1>2, <1>3, <1>5 DEF Over, low
<1> QED BY <1>2, <1>4, <1>6, <1>7 DEF CopyProgram

\* As many bytes as k are copied, and no more.
Copied(k) == \A i \in 0 .. 3 : memory[24 + i] = IF i < k THEN memory[16 + i] ELSE 0

CopyPoint ==
  LET n == task.branch IN
    \/ reg.pc = 32 /\ Copied(0)
    \/ reg.pc \in {35, 37} /\ reg.x \in 16 .. 15 + n /\ Copied(reg.x - 16)
       /\ (reg.pc = 37 => reg.a = memory[reg.x])
    \/ reg.pc = 39 /\ reg.x \in 16 .. 15 + n /\ Copied(reg.x - 15)
    \/ reg.pc \in {40, 43} /\ reg.x \in 17 .. 16 + n /\ Copied(reg.x - 16)
       /\ (reg.pc = 43 => (reg.cc.z <=> reg.x = 16 + n))
    \/ reg.pc = 45 /\ reg.x = 16 + n /\ Copied(n)
    \/ reg.pc \in {47, 54} /\ Copied(n) /\ WordAt(28) = 16 + n

CopyInv ==
  task.name = "copy" =>
    /\ \A addr \in CopyProgram : memory[addr] = task.memory[addr]
    /\ CopyPoint
    /\ status \in {"running", "stopped"}
    /\ (reg.pc = lastpc \/ status = "stopped") => reg.pc = 54

CopyBytes ==
  /\ task.branch \in 1 .. 4
  /\ memory[32] = 206 /\ memory[33] = 0 /\ memory[34] = 16 /\ memory[35] = 166 /\ memory[36] = 0
  /\ memory[37] = 167 /\ memory[38] = 8 /\ memory[39] = 8 /\ memory[40] = 140
  /\ memory[41] = 0 /\ memory[42] = 16 + task.branch /\ memory[43] = 38 /\ memory[44] = 246
  /\ memory[45] = 223 /\ memory[46] = 28 /\ memory[47] = 126 /\ memory[48] = 0
  /\ memory[49] = 54 /\ memory[54] = 32 /\ memory[55] = 254

CopyRuns ==
  /\ ProgramCellsExist /\ CpuTypeOK /\ CopyInv /\ task.name = "copy" /\ CopyBytes
  /\ CpuNext /\ Runs

LEMMA CopyFacts ==
  ASSUME CopyRuns
  PROVE  /\ CopyBytes /\ reg.cc \in Flags /\ reg.a \in Byte /\ reg.x \in Word
         /\ \A addr \in 0 .. 127 : memory[addr] \in Byte /\ addr \in Cells
         /\ DOMAIN memory = Cells
         /\ reg.pc \in 0 .. 120 => At120(reg.pc)
<1>1. reg.cc \in Flags /\ reg.a \in Byte /\ reg.x \in Word
  BY DEF CopyRuns, CpuTypeOK, Registers
<1>2. DOMAIN memory = Cells /\ \A addr \in 0 .. 127 : memory[addr] \in Byte /\ addr \in Cells
  BY DEF CopyRuns, CpuTypeOK, MemoryOK, ProgramCellsExist
<1>3. reg.pc \in 0 .. 120 => At120(reg.pc)
  BY DEF CopyRuns, At120
<1> QED BY <1>1, <1>2, <1>3 DEF CopyRuns

LEMMA CopyArrives ==
  ASSUME CopyRuns, Proceeds(reg'.pc), reg'.pc \in 33 .. 54, reg'.pc # reg.pc \/ reg'.pc = 54,
         \A addr \in CopyProgram : memory'[addr] = memory[addr],
         CopyPoint'
  PROVE  CopyInv'
BY DEF CopyRuns, CopyInv, Proceeds

LEMMA CopyMoves ==
  ASSUME CopyRuns, CopyPoint, reg.pc \in {32, 35, 37}
  PROVE  CopyInv'
<1> DEFINE n == task.branch
<1>1. CASE reg.pc = 32
  <2>1. /\ Proceeds(35) /\ memory' = memory /\ reg'.x = 16
    <3>1. 16 = (256 * memory[33]) + memory[34]
      BY CopyFacts DEF CopyBytes
    <3> QED BY <1>1, <3>1, CopyFacts, LoadWordStep DEF CopyBytes
  <2>2. Copied(0)
    BY <1>1 DEF CopyPoint
  <2>3. CopyPoint'
    BY <2>1, <2>2, CopyFacts DEF CopyPoint, Proceeds, Copied, CopyBytes
  <2> QED BY <1>1, <2>1, <2>3, CopyArrives DEF Proceeds
<1>2. CASE reg.pc = 35
  <2>1. reg.x \in 16 .. 15 + n /\ n \in 1 .. 4 /\ Copied(reg.x - 16)
    BY <1>2, CopyFacts DEF CopyPoint, CopyBytes
  <2>2. /\ Proceeds(37) /\ memory' = memory /\ reg'.x = reg.x
        /\ reg'.a = Arithmetic("lda", reg.a, memory[reg.x]).out
    <3>1. reg.x \in Places /\ reg.x = reg.x + memory[36]
      BY <2>1, CopyFacts DEF CopyBytes, Places
    <3> QED BY <1>2, <3>1, CopyFacts, IndexedStep DEF CopyBytes
  <2>3. Arithmetic("lda", reg.a, memory[reg.x]).out = memory[reg.x]
    <3>1. memory[reg.x] \in Byte
      BY <2>1, CopyFacts
    <3> QED BY <3>1, CopyFacts, LogicFlags DEF Arithmetic
  <2>4. CopyPoint'
    BY <2>1, <2>2, <2>3 DEF CopyPoint, Proceeds, Copied
  <2> QED BY <1>2, <2>2, <2>4, CopyArrives DEF Proceeds
<1>3. CASE reg.pc = 37
  <2>1. reg.x \in 16 .. 15 + n /\ n \in 1 .. 4 /\ Copied(reg.x - 16) /\ reg.a = memory[reg.x]
    BY <1>3, CopyFacts DEF CopyPoint, CopyBytes
  <2>2. Proceeds(39) /\ memory' = [memory EXCEPT ![reg.x + 8] = reg.a] /\ reg'.x = reg.x
    <3>1. reg.x + 8 \in Places /\ reg.x + 8 = reg.x + memory[38]
      BY <2>1, CopyFacts DEF CopyBytes, Places
    <3> QED BY <1>3, <3>1, CopyFacts, StoreByteStep DEF CopyBytes
  <2>3. \A addr \in 0 .. 120 : memory'[addr] = IF addr = reg.x + 8 THEN reg.a ELSE memory[addr]
    BY <2>1, <2>2, CopyFacts
  <2>4. reg.x + 8 \in 24 .. 27 /\ \A addr \in CopyProgram : memory'[addr] = memory[addr]
    BY <2>1, <2>3 DEF CopyProgram
  <2>5. \A i \in 0 .. 3 : memory'[24 + i] = IF i < reg.x - 15 THEN memory[16 + i] ELSE 0
    BY <2>1, <2>3 DEF Copied
  <2>6. Copied(reg.x - 15)'
    BY <2>2, <2>4, <2>5 DEF Copied, CopyProgram
  <2>7. CopyPoint'
    BY <2>1, <2>2, <2>6 DEF CopyPoint, Proceeds
  <2> QED BY <1>3, <2>2, <2>4, <2>7, CopyArrives DEF Proceeds
<1> QED BY <1>1, <1>2, <1>3

LEMMA CopyCounts ==
  ASSUME CopyRuns, CopyPoint, reg.pc \in {39, 40, 43}
  PROVE  CopyInv'
<1> DEFINE n == task.branch
<1>1. n \in 1 .. 4
  BY CopyFacts DEF CopyBytes
<1>2. CASE reg.pc = 39
  <2>1. reg.x \in 16 .. 15 + n /\ Copied(reg.x - 15)
    BY <1>2 DEF CopyPoint
  <2>2. Proceeds(40) /\ memory' = memory /\ reg'.x = reg.x + 1
    <3>1. Add16(reg.x, 1) = reg.x + 1
      BY <1>1, <2>1 DEF Add16
    <3> QED BY <1>2, <3>1, CopyFacts, IncrementXStep DEF CopyBytes
  <2>3. Copied(reg.x - 16)' /\ reg'.x \in 17 .. 16 + n
    BY <1>1, <2>1, <2>2 DEF Copied
  <2>4. CopyPoint'
    BY <2>2, <2>3 DEF CopyPoint, Proceeds
  <2> QED BY <1>2, <2>2, <2>4, CopyArrives DEF Proceeds
<1>3. CASE reg.pc = 40
  <2>1. reg.x \in 17 .. 16 + n /\ Copied(reg.x - 16)
    BY <1>3 DEF CopyPoint
  <2>2. /\ Proceeds(43) /\ memory' = memory /\ reg'.x = reg.x
        /\ reg'.cc = CompareX(reg.cc, reg.x, 16 + n)
    <3>1. (256 * memory[40 + 1]) + memory[40 + 2] = 16 + n
      BY <1>1, CopyFacts DEF CopyBytes
    <3>2. At120(40) /\ memory[40] = 140
      BY <1>3, CopyFacts DEF CopyBytes
    <3> QED BY <3>1, <3>2, CompareXStep
  <2>3. CompareX(reg.cc, reg.x, 16 + n).z <=> reg.x = 16 + n
    BY CopyFacts DEF CompareX, Flags
  <2>4. Copied(reg.x - 16)'
    BY <2>1, <2>2 DEF Copied
  <2>5. CopyPoint'
    BY <2>1, <2>2, <2>3, <2>4 DEF CopyPoint, Proceeds
  <2> QED BY <1>3, <2>2, <2>5, CopyArrives DEF Proceeds
<1>4. CASE reg.pc = 43
  <2>1. reg.x \in 17 .. 16 + n /\ Copied(reg.x - 16) /\ (reg.cc.z <=> reg.x = 16 + n)
    BY <1>4 DEF CopyPoint
  <2>2. /\ memory' = memory /\ reg'.x = reg.x
        /\ ~reg.cc.z => Proceeds(35)
        /\ reg.cc.z => Proceeds(45)
    <3>1. Taken(reg.cc, RowOfBranches[memory[43] - 31]) <=> ~reg.cc.z
      <4>1. RowOfBranches[38 - 31] = "bne" /\ memory[43] = 38
        BY CopyFacts DEF RowOfBranches, CopyBytes
      <4>2. Taken(reg.cc, "bne") <=> ~reg.cc.z
        BY DEF Taken
      <4> QED BY <4>1, <4>2
    <3> DEFINE p == 43
               to == 35
    <3>2. to - p - 2 \in -256 .. 255 /\ to - p - 2 = 0 - 10 /\ p + 2 = 45
      OBVIOUS
    <3>3. At120(p) /\ memory[p] = 38 /\ memory[p + 1] = 246 /\ to \in 0 .. 120
      BY <1>4, CopyFacts DEF CopyBytes
    <3> HIDE DEF p, to
    <3>4. memory[p + 1] = (to - p - 2) % 256
      BY <3>2, <3>3, ByteDifference
    <3>5. /\ memory' = memory /\ reg'.x = reg.x
          /\ Taken(reg.cc, RowOfBranches[memory[p] - 31]) => Proceeds(to)
          /\ ~Taken(reg.cc, RowOfBranches[memory[p] - 31]) => Proceeds(p + 2)
      <4>1. memory[p] \in 32 .. 47 /\ memory[p] # 33
        BY <3>3
      <4> QED BY <3>3, <3>4, <4>1, BranchStep, ZenonT(60)
    <3> QED BY <3>1, <3>2, <3>5 DEF p, to
  <2>3. Copied(reg.x - 16)'
    BY <2>1, <2>2, CopyFacts DEF Copied
  <2>4. CASE reg.cc.z
    <3>1. Copied(n)' /\ reg'.x = 16 + n
      BY <1>1, <2>1, <2>2, <2>4 DEF Copied, Proceeds
    <3>2. CopyPoint'
      BY <2>2, <2>4, <3>1 DEF CopyPoint, Proceeds
    <3> QED BY <1>4, <2>2, <2>4, <3>2, CopyArrives DEF Proceeds
  <2>5. CASE ~reg.cc.z
    <3>1. reg'.x \in 16 .. 15 + n
      BY <1>1, <2>1, <2>2, <2>5
    <3>2. CopyPoint'
      BY <2>2, <2>3, <2>5, <3>1 DEF CopyPoint, Proceeds
    <3> QED BY <1>4, <2>2, <2>5, <3>2, CopyArrives DEF Proceeds
  <2> QED BY <2>4, <2>5
<1> QED BY <1>2, <1>3, <1>4

LEMMA CopyFinishes ==
  ASSUME CopyRuns, CopyPoint, reg.pc \in {45, 47, 54}
  PROVE  CopyInv'
<1> DEFINE n == task.branch
<1>1. n \in 1 .. 4
  BY CopyFacts DEF CopyBytes
<1>2. CASE reg.pc = 45
  <2>1. reg.x = 16 + n /\ Copied(n)
    BY <1>2 DEF CopyPoint
  <2>2. Proceeds(47) /\ memory' = [memory EXCEPT ![28] = reg.x \div 256, ![28 + 1] = reg.x % 256]
    <3>1. 28 \in Places /\ 28 = memory[46]
      BY CopyFacts DEF CopyBytes, Places
    <3> QED BY <1>2, <3>1, CopyFacts, StoreWordStep DEF CopyBytes
  <2>3. reg.x \div 256 = 0 /\ reg.x % 256 = 16 + n
    BY <1>1, <2>1
  <2>4. memory'[28] = 0 /\ memory'[29] = 16 + n
        /\ \A addr \in 0 .. 27 \cup 30 .. 120 : memory'[addr] = memory[addr]
    BY <2>2, <2>3, CopyFacts
  <2>5. \A addr \in CopyProgram : memory'[addr] = memory[addr]
    BY <2>4 DEF CopyProgram
  <2>6. Copied(n)' /\ WordAt(28)' = 16 + n
    <3>1. task' = task
      BY <2>2 DEF Proceeds
    <3>2. \A i \in 0 .. 3 : memory'[24 + i] = memory[24 + i] /\ memory'[16 + i] = memory[16 + i]
      BY <2>4
    <3>3. WordAt(28)' = 16 + n
      BY <1>1, <2>4 DEF WordAt
    <3> QED BY <2>1, <3>1, <3>2, <3>3 DEF Copied
  <2>7. CopyPoint'
    BY <2>2, <2>6 DEF CopyPoint, Proceeds
  <2>8. Proceeds(47)
    BY <2>2
  <2> QED BY <1>2, <2>5, <2>7, <2>8, CopyArrives DEF Proceeds
<1>3. CASE reg.pc \in {47, 54}
  <2>1. Copied(n) /\ WordAt(28) = 16 + n
    BY <1>3 DEF CopyPoint
  <2>2. Proceeds(54) /\ memory' = memory
    <3>1. CASE reg.pc = 47
      <4>1. (256 * memory[47 + 1]) + memory[47 + 2] = 54
        BY CopyFacts DEF CopyBytes
      <4>2. At120(47) /\ memory[47] = 126
        BY <3>1, CopyFacts DEF CopyBytes
      <4> QED BY <4>1, <4>2, JumpStep
    <3>2. CASE reg.pc = 54
      BY <3>2, CopyFacts, HaltStep DEF CopyBytes
    <3> QED BY <1>3, <3>1, <3>2
  <2>3. Copied(n)' /\ WordAt(28)' = 16 + n
    BY <2>1, <2>2 DEF Copied, WordAt, Proceeds
  <2>4. CopyPoint'
    BY <2>2, <2>3 DEF CopyPoint, Proceeds
  <2> QED BY <1>3, <2>2, <2>4, CopyArrives DEF Proceeds
<1> QED BY <1>2, <1>3

LEMMA CopyStays ==
  ASSUME CopyPoint, UNCHANGED <<reg, memory, task>>
  PROVE  CopyPoint'
<1>1. /\ \A k : Copied(k) => Copied(k)'
      /\ WordAt(28)' = WordAt(28)
  BY DEF Copied, WordAt
<1>2. /\ Copied(reg.x - 16) => Copied(reg.x - 16)'
      /\ Copied(reg.x - 15) => Copied(reg.x - 15)'
      /\ Copied(task.branch) => Copied(task.branch)'
  BY DEF Copied
<1> QED BY <1>1, <1>2 DEF CopyPoint

LEMMA CopyStep ==
  ASSUME ProgramCellsExist, CpuTypeOK, CopyInv, task.name = "copy", CopiesBytes(task), CpuNext
  PROVE  CopyInv'
<1>1. CASE StopsInLoop
  <2>1. CopyPoint /\ UNCHANGED <<reg, memory, lastpc, task>> /\ reg.pc = lastpc
    BY <1>1 DEF StopsInLoop, CopyInv
  <2>2. CopyPoint'
    BY <2>1, CopyStays
  <2> QED BY <1>1, <2>1, <2>2 DEF StopsInLoop, CopyInv
<1>2. CASE Runs
  <2>1. CopyBytes
    BY CopyCode DEF CopyInv, CopyProgram, CopyBytes
  <2>2. CopyRuns /\ CopyPoint
    BY <1>2, <2>1 DEF CopyRuns, CopyInv
  <2>3. reg.pc \in {32, 35, 37} \/ reg.pc \in {39, 40, 43} \/ reg.pc \in {45, 47, 54}
    BY <2>2 DEF CopyPoint
  <2> QED BY <2>2, <2>3, CopyMoves, CopyCounts, CopyFinishes
<1> QED BY <1>1, <1>2, RunsOrStops

\* The copy loop moves the bytes of any two words, as many as it was told to, and no
\* others: indexed addressing, op_cpx and a branch backwards.
THEOREM LoopsCopyBytes ==
  ASSUME ProgramCellsExist, \A t \in Tasks : t.name = "copy" => CopiesBytes(t)
  PROVE  CpuSpec => []LoopsCopy
<1>1. CpuInit => CopyInv
  <2> SUFFICES ASSUME CpuInit, task.name = "copy"
               PROVE  CopyInv
    BY DEF CopyInv
  <2>1. CopiesBytes(task)
    BY DEF CpuInit
  <2>2. task.registers = PowerUp /\ CopyProgram \subseteq DOMAIN task.memory
    BY <2>1, CopyCode
  <2>3. CopyProgram \subseteq Cells
    BY DEF ProgramCellsExist, CopyProgram
  <2>4. Copied(0)
    <3>1. \A addr \in 24 .. 27 : memory[addr] = 0
      BY <2>1, CopyCode DEF CpuInit, ProgramCellsExist
    <3> QED BY <3>1 DEF Copied
  <2> HIDE DEF CpuInit
  <2>5. /\ \A addr \in CopyProgram : memory[addr] = task.memory[addr]
        /\ reg.pc = 32 /\ lastpc # 32 /\ status = "running"
    BY <2>2, <2>3, TaskStarts
  <2> QED BY <2>4, <2>5 DEF CopyInv, CopyPoint
<1>2. CpuTypeOK /\ CopyInv /\ [CpuNext]_cpuVars => CopyInv'
  <2> SUFFICES ASSUME CpuTypeOK, CopyInv, [CpuNext]_cpuVars
               PROVE  CopyInv'
    OBVIOUS
  <2>1. CASE CpuNext /\ task.name = "copy"
    <3>1. CopiesBytes(task)
      BY <2>1 DEF CpuTypeOK
    <3> QED BY <2>1, <3>1, CopyStep
  <2>2. CASE CpuNext /\ task.name # "copy"
    BY <2>2, TaskStays DEF CopyInv
  <2>3. CASE UNCHANGED cpuVars
    <3>1. UNCHANGED <<reg, memory, lastpc, status, task>>
      BY <2>3 DEF cpuVars
    <3> QED BY <3>1, CopyStays DEF CopyInv
  <2> QED BY <2>1, <2>2, <2>3
<1>3. CpuTypeOK /\ CopyInv => LoopsCopy
  <2> SUFFICES ASSUME CpuTypeOK, CopyInv, Ended("copy")
               PROVE  LoopsCopy
    BY DEF LoopsCopy
  <2>1. task.name = "copy" /\ status = "stopped" /\ reg.pc = 54 /\ CopyPoint
    BY DEF Ended, CopyInv
  <2>2. Copied(task.branch) /\ WordAt(28) = 16 + task.branch
    BY <2>1 DEF CopyPoint
  <2> QED BY <2>1, <2>2 DEF LoopsCopy, Copied
<1>4. CpuSpec => []CpuTypeOK
  BY CpuTypeCorrect
<1> QED BY <1>1, <1>2, <1>3, <1>4, PTL DEF CpuSpec

-----------------------------------------------------------------------------
(* The program that shifts words.                                          *)

ShiftProgram == 32 .. 59

ShiftsWords(t) == t \in ShiftTasks(Word)

LEMMA ShiftCode ==
  ASSUME NEW t, ShiftsWords(t)
  PROVE  /\ t.l \in Word /\ t.registers = PowerUp
         /\ 16 .. 19 \cup ShiftProgram \subseteq DOMAIN t.memory
         /\ t.memory[16] = t.l \div 256 /\ t.memory[17] = t.l % 256
         /\ t.memory[18] = t.l \div 256 /\ t.memory[19] = t.l % 256
         /\ t.memory[32] = 158 /\ t.memory[33] = 16 /\ t.memory[34] = 159 /\ t.memory[35] = 20
         /\ t.memory[36] = 116 /\ t.memory[37] = 0 /\ t.memory[38] = 20 /\ t.memory[39] = 118
         /\ t.memory[40] = 0 /\ t.memory[41] = 21 /\ t.memory[42] = 119 /\ t.memory[43] = 0
         /\ t.memory[44] = 16 /\ t.memory[45] = 118 /\ t.memory[46] = 0 /\ t.memory[47] = 17
         /\ t.memory[48] = 7 /\ t.memory[49] = 151 /\ t.memory[50] = 24 /\ t.memory[51] = 206
         /\ t.memory[52] = 0 /\ t.memory[53] = 2 /\ t.memory[54] = 104 /\ t.memory[55] = 17
         /\ t.memory[56] = 105 /\ t.memory[57] = 16 /\ t.memory[58] = 32 /\ t.memory[59] = 254
<1>1. PICK l \in Word :
        t = Task("shift", l, l, <<158, 16, 159, 20, 116, 0, 20, 118, 0, 21, 119, 0, 16,
                                  118, 0, 17, 7, 151, 24, 206, 0, 2, 104, 17, 105, 16>>)
  BY DEF ShiftsWords, ShiftTasks
<1>2. t.l = l /\ t.registers = PowerUp
  BY <1>1 DEF Task
<1>3. /\ t.memory[16] = l \div 256 /\ t.memory[17] = l % 256
      /\ t.memory[18] = l \div 256 /\ t.memory[19] = l % 256
  BY <1>1 DEF Task, Over, At, Start, Halt, Bytes16
<1>4. 16 .. 19 \cup ShiftProgram \subseteq DOMAIN t.memory
  BY <1>1 DEF Task, Over, At, Start, Halt, Bytes16, ShiftProgram
<1>5. /\ t.memory[32] = 158 /\ t.memory[33] = 16 /\ t.memory[34] = 159 /\ t.memory[35] = 20
      /\ t.memory[36] = 116 /\ t.memory[37] = 0 /\ t.memory[38] = 20 /\ t.memory[39] = 118
      /\ t.memory[40] = 0 /\ t.memory[41] = 21
  BY <1>1 DEF Task, Over, At, Start, Halt, Bytes16
<1>6. /\ t.memory[42] = 119 /\ t.memory[43] = 0
      /\ t.memory[44] = 16 /\ t.memory[45] = 118 /\ t.memory[46] = 0 /\ t.memory[47] = 17
      /\ t.memory[48] = 7 /\ t.memory[49] = 151 /\ t.memory[50] = 24
  BY <1>1 DEF Task, Over, At, Start, Halt, Bytes16
<1>7. /\ t.memory[51] = 206
      /\ t.memory[52] = 0 /\ t.memory[53] = 2 /\ t.memory[54] = 104 /\ t.memory[55] = 17
      /\ t.memory[56] = 105 /\ t.memory[57] = 16 /\ t.memory[58] = 32 /\ t.memory[59] = 254
  BY <1>1 DEF Task, Over, At, Start, Halt, Bytes16
<1> QED BY <1>2, <1>3, <1>4, <1>5, <1>6, <1>7

\* The bytes of the word that is shifted.
High == task.l \div 256
Low == task.l % 256

\* The word is halved at $14; then, as a signed word, at $10; and doubled at $12.
ShiftPoint ==
  LET carry == Bit(reg.cc.c)
      holds(addr, high, low) == memory[addr] = high /\ memory[addr + 1] = low
      halved == holds(20, High \div 2, (Low \div 2) + (128 * (High % 2)))
      signed == holds(16, (High \div 2) + (128 * (High \div 128)),
                      (Low \div 2) + (128 * (High % 2)))
      kept == Bit(FromByte(memory[24]).c) = Low % 2 IN
    \/ /\ holds(18, High, Low)
       /\ \/ /\ holds(16, High, Low)
             /\ \/ reg.pc = 32
                \/ reg.pc = 34 /\ reg.sp = task.l
                \/ reg.pc = 36 /\ holds(20, High, Low)
                \/ reg.pc = 39 /\ holds(20, High \div 2, Low) /\ carry = High % 2
                \/ reg.pc = 42 /\ halved
          \/ /\ reg.pc = 45 /\ halved /\ carry = High % 2
             /\ holds(16, (High \div 2) + (128 * (High \div 128)), Low)
          \/ /\ halved /\ signed
             /\ \/ reg.pc = 48 /\ carry = Low % 2
                \/ reg.pc = 49 /\ Bit(FromByte(reg.a).c) = Low % 2
                \/ reg.pc = 51 /\ kept
                \/ reg.pc = 54 /\ kept /\ reg.x = 2
    \/ /\ halved /\ signed /\ kept
       /\ \/ /\ reg.pc = 56 /\ reg.x = 2 /\ carry = Low \div 128
             /\ holds(18, High, (2 * Low) % 256)
          \/ /\ reg.pc = 58 /\ carry = High \div 128
             /\ holds(18, ((2 * High) + (Low \div 128)) % 256, (2 * Low) % 256)

ShiftInv ==
  task.name = "shift" =>
    /\ \A addr \in ShiftProgram : memory[addr] = task.memory[addr]
    /\ ShiftPoint
    /\ status \in {"running", "stopped"}
    /\ (reg.pc = lastpc \/ status = "stopped") => reg.pc = 58

ShiftBytes ==
  /\ memory[32] = 158 /\ memory[33] = 16 /\ memory[34] = 159 /\ memory[35] = 20
  /\ memory[36] = 116 /\ memory[37] = 0 /\ memory[38] = 20 /\ memory[39] = 118
  /\ memory[40] = 0 /\ memory[41] = 21 /\ memory[42] = 119 /\ memory[43] = 0
  /\ memory[44] = 16 /\ memory[45] = 118 /\ memory[46] = 0 /\ memory[47] = 17
  /\ memory[48] = 7 /\ memory[49] = 151 /\ memory[50] = 24 /\ memory[51] = 206
  /\ memory[52] = 0 /\ memory[53] = 2 /\ memory[54] = 104 /\ memory[55] = 17
  /\ memory[56] = 105 /\ memory[57] = 16 /\ memory[58] = 32 /\ memory[59] = 254

ShiftRuns ==
  /\ ProgramCellsExist /\ CpuTypeOK /\ ShiftInv /\ task.name = "shift" /\ ShiftBytes
  /\ task.l \in Word /\ CpuNext /\ Runs

LEMMA ShiftFacts ==
  ASSUME ShiftRuns
  PROVE  /\ ShiftBytes /\ reg.cc \in Flags /\ reg.a \in Byte
         /\ High \in Byte /\ Low \in Byte /\ task.l = (256 * High) + Low
         /\ \A addr \in 0 .. 127 : memory[addr] \in Byte /\ addr \in Cells
         /\ DOMAIN memory = Cells
         /\ reg.pc \in 0 .. 120 => At120(reg.pc)
<1>1. reg.cc \in Flags /\ reg.a \in Byte
  BY DEF ShiftRuns, CpuTypeOK, Registers
<1>2. DOMAIN memory = Cells /\ \A addr \in 0 .. 127 : memory[addr] \in Byte /\ addr \in Cells
  BY DEF ShiftRuns, CpuTypeOK, MemoryOK, ProgramCellsExist
<1>3. reg.pc \in 0 .. 120 => At120(reg.pc)
  BY DEF ShiftRuns, At120
<1>4. High \in Byte /\ Low \in Byte /\ task.l = (256 * High) + Low
  BY BytesOfWord DEF ShiftRuns, High, Low
<1> QED BY <1>1, <1>2, <1>3, <1>4 DEF ShiftRuns

LEMMA ShiftArrives ==
  ASSUME ShiftRuns, Proceeds(reg'.pc), reg'.pc \in 33 .. 58, reg'.pc # reg.pc \/ reg'.pc = 58,
         \A addr \in ShiftProgram : memory'[addr] = memory[addr],
         ShiftPoint'
  PROVE  ShiftInv'
BY DEF ShiftRuns, ShiftInv, Proceeds

\* What a shift leaves, and carries out.
LEMMA Shifts ==
  ASSUME reg.cc \in Flags, NEW value \in Byte
  PROVE  /\ UnaryResult("lsr", value).out = value \div 2
         /\ UnaryResult("ror", value).out = (value \div 2) + (128 * Bit(reg.cc.c))
         /\ UnaryResult("asr", value).out = (value \div 2) + (128 * (value \div 128))
         /\ UnaryResult("asl", value).out = (2 * value) % 256
         /\ UnaryResult("rol", value).out = ((2 * value) + Bit(reg.cc.c)) % 256
         /\ \A name \in {"lsr", "ror", "asr"} : Bit(UnaryResult(name, value).cc.c) = value % 2
         /\ \A name \in {"asl", "rol"} : Bit(UnaryResult(name, value).cc.c) = value \div 128
<1>1. /\ UnaryResult("lsr", value) = Shifted(reg.cc, value \div 2, value % 2 = 1)
      /\ UnaryResult("ror", value)
           = Shifted(reg.cc, (value \div 2) + (128 * Bit(reg.cc.c)), value % 2 = 1)
      /\ UnaryResult("asr", value)
           = Shifted(reg.cc, (value \div 2) + (128 * Bit(Negative(value))), value % 2 = 1)
      /\ UnaryResult("asl", value) = Shifted(reg.cc, (2 * value) % 256, Negative(value))
      /\ UnaryResult("rol", value)
           = Shifted(reg.cc, ((2 * value) + Bit(reg.cc.c)) % 256, Negative(value))
  BY DEF UnaryResult, Shift8
<1>2. ASSUME NEW out, NEW carry
      PROVE  Shifted(reg.cc, out, carry).out = out /\ Shifted(reg.cc, out, carry).cc.c = carry
  BY DEF Shifted, Result, SetNz8, Flags
<1>3. Bit(Negative(value)) = value \div 128
  BY DEF Bit, Negative, Byte
<1>4. Bit(value % 2 = 1) = value % 2
  BY DEF Bit, Byte
<1> QED BY <1>1, <1>2, <1>3, <1>4

\* A byte of low memory is written.
Writes(addr, value) ==
  /\ task' = task
  /\ \A a \in 0 .. 127 : memory'[a] = IF a = addr THEN value ELSE memory[a]

\* A byte of the data is written, and the rest stays.
LEMMA ShiftWrites ==
  ASSUME ShiftRuns, NEW addr \in 16 .. 31, NEW value, Writes(addr, value)
  PROVE  /\ memory'[addr] = value
         /\ \A a \in 16 .. 31 : a # addr => memory'[a] = memory[a]
         /\ \A a \in ShiftProgram : memory'[a] = memory[a]
         /\ High' = High /\ Low' = Low /\ task.l' = task.l
<1>1. \A a \in ShiftProgram : a # addr /\ a \in 0 .. 127
  BY DEF ShiftProgram
<1> QED BY <1>1 DEF High, Low, Writes

LEMMA ShiftKeeps ==
  ASSUME ShiftRuns, NEW to, memory' = memory, Proceeds(to)
  PROVE  High' = High /\ Low' = Low /\ task.l' = task.l
BY DEF High, Low, Proceeds

LEMMA ShiftCopies ==
  ASSUME ShiftRuns, ShiftPoint, reg.pc \in {32, 34}
  PROVE  ShiftInv'
<1>1. CASE reg.pc = 32
  <2>1. /\ memory[16] = High /\ memory[17] = Low /\ memory[18] = High /\ memory[19] = Low
    BY <1>1 DEF ShiftPoint
  <2>2. Proceeds(34) /\ memory' = memory /\ reg'.sp = task.l
    <3>1. /\ memory[32] = 158 /\ 34 = 32 + 2 /\ memory[32 + 1] \in Places
          /\ task.l = (256 * memory[memory[32 + 1]]) + memory[memory[32 + 1] + 1]
      BY <2>1, ShiftFacts DEF ShiftBytes, Places
    <3>2. At120(32)
      BY <1>1, ShiftFacts
    <3> QED BY <3>1, <3>2, LoadWordStep
  <2>3. ShiftPoint'
    BY <2>1, <2>2, ShiftKeeps DEF ShiftPoint, Proceeds
  <2> QED BY <1>1, <2>2, <2>3, ShiftArrives DEF Proceeds
<1>2. CASE reg.pc = 34
  <2>1. /\ memory[16] = High /\ memory[17] = Low /\ memory[18] = High /\ memory[19] = Low
        /\ reg.sp = task.l
    BY <1>2 DEF ShiftPoint
  <2>2. Proceeds(36) /\ memory' = [memory EXCEPT ![20] = reg.sp \div 256, ![20 + 1] = reg.sp % 256]
    <3>1. 20 \in Places /\ 20 = memory[35]
      BY ShiftFacts DEF ShiftBytes, Places
    <3> QED BY <1>2, <3>1, ShiftFacts, StoreWordStep DEF ShiftBytes
  <2>3. /\ memory'[20] = High /\ memory'[21] = Low
        /\ \A a \in 0 .. 127 : a # 20 /\ a # 21 => memory'[a] = memory[a]
    BY <2>1, <2>2, ShiftFacts DEF High, Low
  <2>4. /\ \A a \in ShiftProgram : memory'[a] = memory[a]
        /\ High' = High /\ Low' = Low /\ task.l' = task.l
    BY <2>2, <2>3 DEF ShiftProgram, High, Low, Proceeds
  <2>5. ShiftPoint'
    BY <2>1, <2>2, <2>3, <2>4 DEF ShiftPoint, Proceeds
  <2>6. Proceeds(36)
    BY <2>2
  <2> QED BY <1>2, <2>4, <2>5, <2>6, ShiftArrives DEF Proceeds
<1> QED BY <1>1, <1>2

LEMMA ShiftHalves ==
  ASSUME ShiftRuns, ShiftPoint, reg.pc \in {36, 39}
  PROVE  ShiftInv'
<1>1. /\ memory[16] = High /\ memory[17] = Low /\ memory[18] = High /\ memory[19] = Low
      /\ High \in Byte /\ Low \in Byte
  BY ShiftFacts DEF ShiftPoint
<1>2. CASE reg.pc = 36
  <2>1. memory[20] = High /\ memory[21] = Low
    BY <1>2 DEF ShiftPoint
  <2>2. /\ Proceeds(39) /\ memory' = [memory EXCEPT ![20] = UnaryResult("lsr", memory[20]).out]
        /\ reg'.cc = UnaryResult("lsr", memory[20]).cc
    <3>1. /\ 20 \in Places /\ 20 = (256 * memory[36 + 1]) + memory[36 + 2] /\ 39 = 36 + 3
          /\ memory[36] = 116 /\ At120(36)
      BY <1>2, ShiftFacts DEF ShiftBytes, Places
    <3> QED BY <3>1, UnaryMemoryStep
  <2>3. UnaryResult("lsr", memory[20]).out = High \div 2 /\ Bit(reg'.cc.c) = High % 2
    BY <1>1, <2>1, <2>2, ShiftFacts, Shifts
  <2>4. /\ memory'[20] = High \div 2 /\ \A a \in 16 .. 31 : a # 20 => memory'[a] = memory[a]
        /\ \A a \in ShiftProgram : memory'[a] = memory[a]
        /\ High' = High /\ Low' = Low
    <3>1. Writes(20, UnaryResult("lsr", memory[20]).out)
      BY <2>2, ShiftFacts DEF Proceeds, Writes
    <3>2. 20 \in 16 .. 31
      OBVIOUS
    <3> QED BY <2>3, <3>1, <3>2, ShiftWrites
  <2>5. ShiftPoint'
    BY <1>1, <2>1, <2>2, <2>3, <2>4 DEF ShiftPoint, Proceeds
  <2>6. Proceeds(39)
    BY <2>2
  <2> QED BY <1>2, <2>4, <2>5, <2>6, ShiftArrives DEF Proceeds
<1>3. CASE reg.pc = 39
  <2>1. memory[20] = High \div 2 /\ memory[21] = Low /\ Bit(reg.cc.c) = High % 2
    BY <1>3 DEF ShiftPoint
  <2>2. /\ Proceeds(42) /\ memory' = [memory EXCEPT ![21] = UnaryResult("ror", memory[21]).out]
    <3>1. 21 \in Places /\ 21 = (256 * memory[40]) + memory[41]
      BY ShiftFacts DEF ShiftBytes, Places
    <3> QED BY <1>3, <3>1, ShiftFacts, UnaryMemoryStep DEF ShiftBytes
  <2>3. UnaryResult("ror", memory[21]).out = (Low \div 2) + (128 * (High % 2))
    BY <1>1, <2>1, ShiftFacts, Shifts
  <2>4. /\ memory'[21] = (Low \div 2) + (128 * (High % 2))
        /\ \A a \in 16 .. 31 : a # 21 => memory'[a] = memory[a]
        /\ \A a \in ShiftProgram : memory'[a] = memory[a]
        /\ High' = High /\ Low' = Low
    <3>1. Writes(21, UnaryResult("ror", memory[21]).out)
      BY <2>2, ShiftFacts DEF Proceeds, Writes
    <3>2. 21 \in 16 .. 31
      OBVIOUS
    <3> QED BY <2>3, <3>1, <3>2, ShiftWrites
  <2>5. ShiftPoint'
    BY <1>1, <2>1, <2>2, <2>4 DEF ShiftPoint, Proceeds
  <2>6. Proceeds(42)
    BY <2>2
  <2> QED BY <1>3, <2>4, <2>5, <2>6, ShiftArrives DEF Proceeds
<1> QED BY <1>2, <1>3

LEMMA ShiftHalvesSigned ==
  ASSUME ShiftRuns, ShiftPoint, reg.pc \in {42, 45}
  PROVE  ShiftInv'
<1>1. /\ memory[17] = Low /\ memory[18] = High /\ memory[19] = Low
      /\ memory[20] = High \div 2 /\ memory[21] = (Low \div 2) + (128 * (High % 2))
      /\ High \in Byte /\ Low \in Byte
  BY ShiftFacts DEF ShiftPoint
<1>2. CASE reg.pc = 42
  <2>1. memory[16] = High
    BY <1>2 DEF ShiftPoint
  <2>2. /\ Proceeds(45) /\ memory' = [memory EXCEPT ![16] = UnaryResult("asr", memory[16]).out]
        /\ reg'.cc = UnaryResult("asr", memory[16]).cc
    <3>1. 16 \in Places /\ 16 = (256 * memory[43]) + memory[44]
      BY ShiftFacts DEF ShiftBytes, Places
    <3> QED BY <1>2, <3>1, ShiftFacts, UnaryMemoryStep DEF ShiftBytes
  <2>3. /\ UnaryResult("asr", memory[16]).out = (High \div 2) + (128 * (High \div 128))
        /\ Bit(reg'.cc.c) = High % 2
    BY <1>1, <2>1, <2>2, ShiftFacts, Shifts
  <2>4. /\ memory'[16] = (High \div 2) + (128 * (High \div 128))
        /\ \A a \in 16 .. 31 : a # 16 => memory'[a] = memory[a]
        /\ \A a \in ShiftProgram : memory'[a] = memory[a]
        /\ High' = High /\ Low' = Low
    <3>1. Writes(16, UnaryResult("asr", memory[16]).out)
      BY <2>2, ShiftFacts DEF Proceeds, Writes
    <3>2. 16 \in 16 .. 31
      OBVIOUS
    <3> QED BY <2>3, <3>1, <3>2, ShiftWrites
  <2>5. ShiftPoint'
    BY <1>1, <2>1, <2>2, <2>3, <2>4 DEF ShiftPoint, Proceeds
  <2>6. Proceeds(45)
    BY <2>2
  <2> QED BY <1>2, <2>4, <2>5, <2>6, ShiftArrives DEF Proceeds
<1>3. CASE reg.pc = 45
  <2>1. memory[16] = (High \div 2) + (128 * (High \div 128)) /\ Bit(reg.cc.c) = High % 2
    BY <1>3 DEF ShiftPoint
  <2>2. /\ Proceeds(48) /\ memory' = [memory EXCEPT ![17] = UnaryResult("ror", memory[17]).out]
        /\ reg'.cc = UnaryResult("ror", memory[17]).cc
    <3>1. 17 \in Places /\ 17 = (256 * memory[46]) + memory[47]
      BY ShiftFacts DEF ShiftBytes, Places
    <3> QED BY <1>3, <3>1, ShiftFacts, UnaryMemoryStep DEF ShiftBytes
  <2>3. /\ UnaryResult("ror", memory[17]).out = (Low \div 2) + (128 * (High % 2))
        /\ Bit(reg'.cc.c) = Low % 2
    BY <1>1, <2>1, <2>2, ShiftFacts, Shifts
  <2>4. /\ memory'[17] = (Low \div 2) + (128 * (High % 2))
        /\ \A a \in 16 .. 31 : a # 17 => memory'[a] = memory[a]
        /\ \A a \in ShiftProgram : memory'[a] = memory[a]
        /\ High' = High /\ Low' = Low
    <3>1. Writes(17, UnaryResult("ror", memory[17]).out)
      BY <2>2, ShiftFacts DEF Proceeds, Writes
    <3>2. 17 \in 16 .. 31
      OBVIOUS
    <3> QED BY <2>3, <3>1, <3>2, ShiftWrites
  <2>5. ShiftPoint'
    BY <1>1, <2>1, <2>2, <2>3, <2>4 DEF ShiftPoint, Proceeds
  <2>6. Proceeds(48)
    BY <2>2
  <2> QED BY <1>3, <2>4, <2>5, <2>6, ShiftArrives DEF Proceeds
<1> QED BY <1>2, <1>3

LEMMA ShiftKeepsCarry ==
  ASSUME ShiftRuns, ShiftPoint, reg.pc \in {48, 49, 51}
  PROVE  ShiftInv'
<1> DEFINE halves ==
             /\ memory[16] = (High \div 2) + (128 * (High \div 128))
             /\ memory[17] = (Low \div 2) + (128 * (High % 2))
             /\ memory[18] = High /\ memory[19] = Low
             /\ memory[20] = High \div 2 /\ memory[21] = (Low \div 2) + (128 * (High % 2))
<1>1. halves
  BY DEF ShiftPoint
<1>2. CASE reg.pc = 48
  <2>1. Bit(reg.cc.c) = Low % 2
    BY <1>2 DEF ShiftPoint
  <2>2. Proceeds(49) /\ memory' = memory /\ reg'.a = ConditionCodes(reg.cc)
    BY <1>2, ShiftFacts, FlagsStep DEF ShiftBytes
  <2>3. FromByte(reg'.a) = reg.cc
    BY <2>2, ShiftFacts, FlagsRestored
  <2>4. ShiftPoint'
    BY <1>1, <2>1, <2>2, <2>3, ShiftKeeps DEF ShiftPoint, Proceeds
  <2> QED BY <1>2, <2>2, <2>4, ShiftArrives DEF Proceeds
<1>3. CASE reg.pc = 49
  <2>1. Bit(FromByte(reg.a).c) = Low % 2
    BY <1>3 DEF ShiftPoint
  <2>2. Proceeds(51) /\ memory' = [memory EXCEPT ![24] = reg.a]
    <3>1. 24 \in Places /\ 24 = memory[50]
      BY ShiftFacts DEF ShiftBytes, Places
    <3> QED BY <1>3, <3>1, ShiftFacts, StoreByteStep DEF ShiftBytes
  <2>3. /\ memory'[24] = reg.a /\ \A a \in 16 .. 31 : a # 24 => memory'[a] = memory[a]
        /\ \A a \in ShiftProgram : memory'[a] = memory[a]
        /\ High' = High /\ Low' = Low
    <3>1. Writes(24, reg.a)
      BY <2>2, ShiftFacts DEF Proceeds, Writes
    <3>2. 24 \in 16 .. 31
      OBVIOUS
    <3> QED BY <3>1, <3>2, ShiftWrites
  <2>4. ShiftPoint'
    BY <1>1, <2>1, <2>2, <2>3 DEF ShiftPoint, Proceeds
  <2>5. Proceeds(51)
    BY <2>2
  <2> QED BY <1>3, <2>3, <2>4, <2>5, ShiftArrives DEF Proceeds
<1>4. CASE reg.pc = 51
  <2>1. Bit(FromByte(memory[24]).c) = Low % 2
    BY <1>4 DEF ShiftPoint
  <2>2. Proceeds(54) /\ memory' = memory /\ reg'.x = 2
    <3>1. 2 = (256 * memory[52]) + memory[53]
      BY ShiftFacts DEF ShiftBytes
    <3> QED BY <1>4, <3>1, ShiftFacts, LoadWordStep DEF ShiftBytes
  <2>3. ShiftPoint'
    BY <1>1, <2>1, <2>2, ShiftKeeps DEF ShiftPoint, Proceeds
  <2> QED BY <1>4, <2>2, <2>3, ShiftArrives DEF Proceeds
<1> QED BY <1>2, <1>3, <1>4

LEMMA ShiftDoubles ==
  ASSUME ShiftRuns, ShiftPoint, reg.pc \in {54, 56, 58}
  PROVE  ShiftInv'
<1> DEFINE halves ==
             /\ memory[16] = (High \div 2) + (128 * (High \div 128))
             /\ memory[17] = (Low \div 2) + (128 * (High % 2))
             /\ memory[20] = High \div 2 /\ memory[21] = (Low \div 2) + (128 * (High % 2))
             /\ Bit(FromByte(memory[24]).c) = Low % 2
<1>1. halves /\ High \in Byte /\ Low \in Byte
  BY ShiftFacts DEF ShiftPoint
<1>2. CASE reg.pc = 54
  <2>1. memory[18] = High /\ memory[19] = Low /\ reg.x = 2
    BY <1>2 DEF ShiftPoint
  <2>2. /\ Proceeds(56) /\ memory' = [memory EXCEPT ![19] = UnaryResult("asl", memory[19]).out]
        /\ reg'.cc = UnaryResult("asl", memory[19]).cc /\ reg'.x = reg.x
    <3>1. /\ 19 \in Places /\ 19 = reg.x + memory[54 + 1] /\ 56 = 54 + 2
          /\ memory[54] = 104 /\ At120(54)
      BY <1>2, <2>1, ShiftFacts DEF ShiftBytes, Places
    <3> QED BY <3>1, UnaryMemoryStep
  <2>3. UnaryResult("asl", memory[19]).out = (2 * Low) % 256 /\ Bit(reg'.cc.c) = Low \div 128
    BY <1>1, <2>1, <2>2, ShiftFacts, Shifts
  <2>4. /\ memory'[19] = (2 * Low) % 256
        /\ \A a \in 16 .. 31 : a # 19 => memory'[a] = memory[a]
        /\ \A a \in ShiftProgram : memory'[a] = memory[a]
        /\ High' = High /\ Low' = Low
    <3>1. Writes(19, UnaryResult("asl", memory[19]).out)
      BY <2>2, ShiftFacts DEF Proceeds, Writes
    <3>2. 19 \in 16 .. 31
      OBVIOUS
    <3> QED BY <2>3, <3>1, <3>2, ShiftWrites
  <2>5. ShiftPoint'
    BY <1>1, <2>1, <2>2, <2>3, <2>4 DEF ShiftPoint, Proceeds
  <2>6. Proceeds(56)
    BY <2>2
  <2> QED BY <1>2, <2>4, <2>5, <2>6, ShiftArrives DEF Proceeds
<1>3. CASE reg.pc = 56
  <2>1. /\ memory[18] = High /\ memory[19] = (2 * Low) % 256 /\ reg.x = 2
        /\ Bit(reg.cc.c) = Low \div 128
    BY <1>3 DEF ShiftPoint
  <2>2. /\ Proceeds(58) /\ memory' = [memory EXCEPT ![18] = UnaryResult("rol", memory[18]).out]
        /\ reg'.cc = UnaryResult("rol", memory[18]).cc
    <3>1. /\ 18 \in Places /\ 18 = reg.x + memory[56 + 1] /\ 58 = 56 + 2
          /\ memory[56] = 105 /\ At120(56)
      BY <1>3, <2>1, ShiftFacts DEF ShiftBytes, Places
    <3> QED BY <3>1, UnaryMemoryStep
  <2>3. /\ UnaryResult("rol", memory[18]).out = ((2 * High) + (Low \div 128)) % 256
        /\ Bit(reg'.cc.c) = High \div 128
    BY <1>1, <2>1, <2>2, ShiftFacts, Shifts
  <2>4. /\ memory'[18] = ((2 * High) + (Low \div 128)) % 256
        /\ \A a \in 16 .. 31 : a # 18 => memory'[a] = memory[a]
        /\ \A a \in ShiftProgram : memory'[a] = memory[a]
        /\ High' = High /\ Low' = Low
    <3>1. Writes(18, UnaryResult("rol", memory[18]).out)
      BY <2>2, ShiftFacts DEF Proceeds, Writes
    <3>2. 18 \in 16 .. 31
      OBVIOUS
    <3> QED BY <2>3, <3>1, <3>2, ShiftWrites
  <2>5. ShiftPoint'
    BY <1>1, <2>1, <2>2, <2>3, <2>4 DEF ShiftPoint, Proceeds
  <2>6. Proceeds(58)
    BY <2>2
  <2> QED BY <1>3, <2>4, <2>5, <2>6, ShiftArrives DEF Proceeds
<1>4. CASE reg.pc = 58
  <2>1. Proceeds(58) /\ memory' = memory /\ reg'.cc = reg.cc
    BY <1>4, ShiftFacts, HaltStep DEF ShiftBytes
  <2>2. /\ Bit(reg.cc.c) = High \div 128
        /\ memory[18] = ((2 * High) + (Low \div 128)) % 256 /\ memory[19] = (2 * Low) % 256
    BY <1>4 DEF ShiftPoint
  <2>3. ShiftPoint'
    BY <1>1, <2>1, <2>2, ShiftKeeps DEF ShiftPoint, Proceeds
  <2> QED BY <1>4, <2>1, <2>3, ShiftArrives DEF Proceeds
<1> QED BY <1>2, <1>3, <1>4

LEMMA ShiftStays ==
  ASSUME ShiftPoint, UNCHANGED <<reg, memory, task>>
  PROVE  ShiftPoint'
<1>1. High' = High /\ Low' = Low /\ task.l' = task.l
  BY DEF High, Low
<1> QED BY <1>1 DEF ShiftPoint

LEMMA ShiftStep ==
  ASSUME ProgramCellsExist, CpuTypeOK, ShiftInv, task.name = "shift", ShiftsWords(task), CpuNext
  PROVE  ShiftInv'
<1>1. CASE StopsInLoop
  <2>1. ShiftPoint /\ UNCHANGED <<reg, memory, lastpc, task>> /\ reg.pc = lastpc
    BY <1>1 DEF StopsInLoop, ShiftInv
  <2>2. ShiftPoint'
    BY <2>1, ShiftStays
  <2> QED BY <1>1, <2>1, <2>2 DEF StopsInLoop, ShiftInv
<1>2. CASE Runs
  <2>1. ShiftBytes
    BY ShiftCode DEF ShiftInv, ShiftProgram, ShiftBytes
  <2>2. ShiftRuns /\ ShiftPoint
    BY <1>2, <2>1, ShiftCode DEF ShiftRuns, ShiftInv
  <2>3. \/ reg.pc \in {32, 34} \/ reg.pc \in {36, 39} \/ reg.pc \in {42, 45}
        \/ reg.pc \in {48, 49, 51} \/ reg.pc \in {54, 56, 58}
    BY <2>2 DEF ShiftPoint
  <2> QED BY <2>2, <2>3, ShiftCopies, ShiftHalves, ShiftHalvesSigned, ShiftKeepsCarry, ShiftDoubles
<1> QED BY <1>1, <1>2, RunsOrStops

\* What the bytes of a word become is what the word becomes.
LEMMA ShiftResults ==
  ASSUME NEW h \in Byte, NEW m \in Byte, NEW w, w = (256 * h) + m
  PROVE  /\ (256 * (h \div 2)) + ((m \div 2) + (128 * (h % 2))) = w \div 2
         /\ (256 * ((h \div 2) + (128 * (h \div 128)))) + ((m \div 2) + (128 * (h % 2)))
              = (Signed16(w) \div 2) % 65536
         /\ (256 * (((2 * h) + (m \div 128)) % 256)) + ((2 * m) % 256) = (2 * w) % 65536
         /\ m % 2 = w % 2
         /\ h \div 128 = IF w >= 32768 THEN 1 ELSE 0
<1>1. /\ (256 * (h \div 2)) + ((m \div 2) + (128 * (h % 2))) = w \div 2
      /\ m % 2 = w % 2
  BY DEF Byte
<1>2. h \div 128 = IF w >= 32768 THEN 1 ELSE 0
  BY DEF Byte
<1>3. (256 * ((h \div 2) + (128 * (h \div 128)))) + ((m \div 2) + (128 * (h % 2)))
        = (Signed16(w) \div 2) % 65536
  <2> DEFINE half == Signed16(w) \div 2
             d == (256 * (h \div 2)) + ((m \div 2) + (128 * (h % 2)))
             top == h \div 128
  <2>1. /\ half \in Int /\ -65536 <= half /\ half < 131072
        /\ half = IF w >= 32768 THEN d - 32768 ELSE d
        /\ (w >= 32768 => half < 0) /\ (w < 32768 => 0 <= half /\ half < 65536)
    BY DEF Byte, Signed16
  <2>2. w \in Int /\ d \in Int
    BY DEF Byte
  <2>3. d + (32768 * top) = IF w >= 32768 THEN d + 32768 ELSE d
    BY <1>2, <2>2
  <2>4. (256 * ((h \div 2) + (128 * top))) + ((m \div 2) + (128 * (h % 2))) = d + (32768 * top)
    BY DEF Byte
  <2> HIDE DEF half, d
  <2>5. half % 65536 = IF half < 0 THEN half + 65536
                         ELSE IF half >= 65536 THEN half - 65536 ELSE half
    BY <2>1, ModuloWord
  <2>6. half % 65536 = IF w >= 32768 THEN d + 32768 ELSE d
    BY <2>1, <2>2, <2>5
  <2> HIDE DEF top
  <2> QED BY <2>3, <2>4, <2>6 DEF half, top
<1>4. (256 * (((2 * h) + (m \div 128)) % 256)) + ((2 * m) % 256) = (2 * w) % 65536
  <2> DEFINE d == 2 * w
  <2>1. d \in Int /\ -65536 <= d /\ d < 131072 /\ d = (512 * h) + (2 * m)
    BY DEF Byte
  <2> HIDE DEF d
  <2>2. d % 65536 = IF d < 0 THEN d + 65536 ELSE IF d >= 65536 THEN d - 65536 ELSE d
    BY <2>1, ModuloWord
  <2>3. (2 * m) % 256 = (2 * m) - (256 * (m \div 128))
    BY DEF Byte
  <2>4. ((2 * h) + (m \div 128)) % 256 = (2 * h) + (m \div 128) - (256 * (h \div 128))
    BY DEF Byte
  <2>5. h \div 128 = IF d >= 65536 THEN 1 ELSE 0
    BY <2>1 DEF Byte
  <2> QED BY <2>1, <2>2, <2>3, <2>4, <2>5 DEF d, Byte
<1> QED BY <1>1, <1>2, <1>3, <1>4

LEMMA ShiftEnds ==
  ASSUME ProgramCellsExist, CpuTypeOK, ShiftInv, \A t \in Tasks : t.name = "shift" => ShiftsWords(t)
  PROVE  WordsShift
<1> SUFFICES ASSUME Ended("shift")
             PROVE  WordsShift
  BY DEF WordsShift
<1> DEFINE kept == FromByte(memory[24]).c
           carry == reg.cc.c
           w == task.l
<1>1. status = "stopped" /\ task.name = "shift" /\ task \in Tasks /\ reg.pc = 58 /\ ShiftPoint
  BY DEF Ended, ShiftInv, CpuTypeOK
<1>2. w \in Word /\ High \in Byte /\ Low \in Byte /\ w = (256 * High) + Low
  BY <1>1, ShiftCode, BytesOfWord DEF High, Low
<1>3. /\ memory[16] = (High \div 2) + (128 * (High \div 128))
      /\ memory[17] = (Low \div 2) + (128 * (High % 2))
      /\ memory[20] = High \div 2 /\ memory[21] = (Low \div 2) + (128 * (High % 2))
      /\ memory[18] = ((2 * High) + (Low \div 128)) % 256 /\ memory[19] = (2 * Low) % 256
      /\ Bit(kept) = Low % 2 /\ Bit(carry) = High \div 128
  BY <1>1 DEF ShiftPoint
<1>4. kept \in BOOLEAN /\ carry \in BOOLEAN
  BY DEF CpuTypeOK, Registers, Flags, FromByte
<1>5. /\ WordAt(20) = w \div 2 /\ WordAt(16) = (Signed16(w) \div 2) % 65536
      /\ WordAt(18) = (2 * w) % 65536
      /\ Low % 2 = w % 2 /\ High \div 128 = IF w >= 32768 THEN 1 ELSE 0
  BY <1>2, <1>3, ShiftResults DEF WordAt
<1> HIDE DEF kept, carry, w
<1>6. (kept <=> w % 2 = 1) /\ (carry <=> w >= 32768)
  BY <1>3, <1>4, <1>5 DEF Bit
<1>7. kept = (w % 2 = 1) /\ carry = (w >= 32768)
  <2>1. (w % 2 = 1) \in BOOLEAN /\ (w >= 32768) \in BOOLEAN
    BY <1>2, WordBounds
  <2> QED BY <1>4, <1>6, <2>1, SameTruth
<1> QED BY <1>1, <1>5, <1>7 DEF WordsShift, kept, carry, w

\* A shift and a rotate through the carry halve any word, halve it as a signed word
\* and double it: do_shift8, do_rol8 and do_ror8.
THEOREM ShiftsCompute ==
  ASSUME ProgramCellsExist, \A t \in Tasks : t.name = "shift" => ShiftsWords(t)
  PROVE  CpuSpec => []WordsShift
<1>1. CpuInit => ShiftInv
  <2> SUFFICES ASSUME CpuInit, task.name = "shift"
               PROVE  ShiftInv
    BY DEF ShiftInv
  <2>1. ShiftsWords(task)
    BY DEF CpuInit
  <2> DEFINE frame == 16 .. 19 \cup ShiftProgram
  <2>2. task.registers = PowerUp /\ frame \subseteq DOMAIN task.memory
    BY <2>1, ShiftCode
  <2>3. frame \subseteq Cells
    BY DEF ProgramCellsExist, ShiftProgram
  <2>4. 16 \in frame /\ 17 \in frame /\ 18 \in frame /\ 19 \in frame
    OBVIOUS
  <2> HIDE DEF CpuInit, frame
  <2>5. /\ \A addr \in frame : memory[addr] = task.memory[addr]
        /\ reg.pc = 32 /\ lastpc # 32 /\ status = "running"
    BY <2>2, <2>3, TaskStarts
  <2>6. ShiftPoint
    BY <2>1, <2>4, <2>5, ShiftCode DEF ShiftPoint, High, Low
  <2> QED BY <2>5, <2>6 DEF ShiftInv, frame
<1>2. CpuTypeOK /\ ShiftInv /\ [CpuNext]_cpuVars => ShiftInv'
  <2> SUFFICES ASSUME CpuTypeOK, ShiftInv, [CpuNext]_cpuVars
               PROVE  ShiftInv'
    OBVIOUS
  <2>1. CASE CpuNext /\ task.name = "shift"
    <3>1. ShiftsWords(task)
      BY <2>1 DEF CpuTypeOK
    <3> QED BY <2>1, <3>1, ShiftStep
  <2>2. CASE CpuNext /\ task.name # "shift"
    BY <2>2, TaskStays DEF ShiftInv
  <2>3. CASE UNCHANGED cpuVars
    <3>1. UNCHANGED <<reg, memory, lastpc, status, task>>
      BY <2>3 DEF cpuVars
    <3> QED BY <3>1, ShiftStays DEF ShiftInv
  <2> QED BY <2>1, <2>2, <2>3
<1>3. CpuTypeOK /\ ShiftInv => WordsShift
  BY ShiftEnds
<1>4. CpuSpec => []CpuTypeOK
  BY CpuTypeCorrect
<1> QED BY <1>1, <1>2, <1>3, <1>4, PTL DEF CpuSpec

-----------------------------------------------------------------------------
(* The program that adds decimal numbers.                                  *)

\* The bytes of two decimal digits, and what they stand for.
DecimalDigits == {(16 * u) + v : u \in 0 .. 9, v \in 0 .. 9}
Digits(byte) == (10 * (byte \div 16)) + (byte % 16)

AddsDecimals(t) == t \in DecimalTasks(DecimalDigits)

DecimalProgram == 16 .. 19 \cup 32 .. 47

LEMMA DigitsOf ==
  ASSUME NEW byte \in DecimalDigits
  PROVE  /\ byte \in Byte /\ byte \div 16 \in 0 .. 9 /\ byte % 16 \in 0 .. 9
         /\ byte = (16 * (byte \div 16)) + (byte % 16)
         /\ Digits(byte) \in 0 .. 99
<1>1. PICK u \in 0 .. 9, v \in 0 .. 9 : byte = (16 * u) + v
  BY DEF DecimalDigits
<1>2. byte \div 16 = u /\ byte % 16 = v
  BY <1>1
<1> QED BY <1>1, <1>2 DEF Byte, Digits

LEMMA DecimalCode ==
  ASSUME NEW t, AddsDecimals(t)
  PROVE  /\ t.registers = PowerUp
         /\ DecimalProgram \subseteq DOMAIN t.memory
         /\ t.l = (256 * t.memory[16]) + t.memory[17]
         /\ t.r = (256 * t.memory[18]) + t.memory[19]
         /\ t.memory[16] \in DecimalDigits /\ t.memory[17] \in DecimalDigits
         /\ t.memory[18] \in DecimalDigits /\ t.memory[19] \in DecimalDigits
         /\ t.memory[32] = 150 /\ t.memory[33] = 17 /\ t.memory[34] = 155 /\ t.memory[35] = 19
         /\ t.memory[36] = 25 /\ t.memory[37] = 151 /\ t.memory[38] = 21
         /\ t.memory[39] = 150 /\ t.memory[40] = 16 /\ t.memory[41] = 153 /\ t.memory[42] = 18
         /\ t.memory[43] = 25 /\ t.memory[44] = 151 /\ t.memory[45] = 20
         /\ t.memory[46] = 32 /\ t.memory[47] = 254
<1>1. PICK h \in DecimalDigits, l \in DecimalDigits, k \in DecimalDigits, m \in DecimalDigits :
        t = Task("decimal", (256 * h) + l, (256 * k) + m,
                 <<150, 17, 155, 19, 25, 151, 21, 150, 16, 153, 18, 25, 151, 20>>)
  BY DEF AddsDecimals, DecimalTasks
<1>2. /\ h \in Byte /\ l \in Byte /\ k \in Byte /\ m \in Byte
  BY DigitsOf
<1>3. /\ t.l = (256 * h) + l /\ t.r = (256 * k) + m /\ t.registers = PowerUp
  BY <1>1 DEF Task
<1>4. /\ t.memory[16] = ((256 * h) + l) \div 256 /\ t.memory[17] = ((256 * h) + l) % 256
      /\ t.memory[18] = ((256 * k) + m) \div 256 /\ t.memory[19] = ((256 * k) + m) % 256
  BY <1>1 DEF Task, Over, At, Start, Halt, Bytes16
<1>5. /\ t.memory[16] = h /\ t.memory[17] = l /\ t.memory[18] = k /\ t.memory[19] = m
  BY <1>2, <1>4 DEF Byte
<1>6. DecimalProgram \subseteq DOMAIN t.memory
  BY <1>1 DEF Task, Over, At, Start, Halt, Bytes16, DecimalProgram
<1>7. /\ t.memory[32] = 150 /\ t.memory[33] = 17 /\ t.memory[34] = 155 /\ t.memory[35] = 19
      /\ t.memory[36] = 25 /\ t.memory[37] = 151 /\ t.memory[38] = 21
      /\ t.memory[39] = 150
  BY <1>1 DEF Task, Over, At, Start, Halt, Bytes16
<1>8. /\ t.memory[40] = 16 /\ t.memory[41] = 153 /\ t.memory[42] = 18
      /\ t.memory[43] = 25 /\ t.memory[44] = 151 /\ t.memory[45] = 20
      /\ t.memory[46] = 32 /\ t.memory[47] = 254
  BY <1>1 DEF Task, Over, At, Start, Halt, Bytes16
<1> QED BY <1>3, <1>5, <1>6, <1>7, <1>8

\* A byte, its carry and its half-carry after l, r and a carry were added;
\* and the digits and their carry after DAA.
Added(cc, byte, l, r, carry) ==
  /\ (256 * Bit(cc.c)) + byte = l + r + carry
  /\ cc.h <=> (l % 16) + (r % 16) + carry > 15
Adjusted(out, over, l, r, carry) ==
  /\ out \in DecimalDigits
  /\ (100 * over) + Digits(out) = Digits(l) + Digits(r) + carry

\* What DAA makes of the sum of two decimal bytes and a carry.
LEMMA Adjusts ==
  ASSUME NEW cc \in Flags, NEW byte \in Byte, NEW l \in DecimalDigits, NEW r \in DecimalDigits,
         NEW carry \in 0 .. 1, Added(cc, byte, l, r, carry)
  PROVE  Adjusted(DecimalAdjust(cc, byte).out, Bit(DecimalAdjust(cc, byte).cc.c), l, r, carry)
<1> DEFINE u == l \div 16
           v == l % 16
           p == r \div 16
           q == r % 16
           units == v + q + carry
           unitsOver == IF units > 9 THEN 1 ELSE 0
           tens == u + p + unitsOver
           tensOver == IF tens > 9 THEN 1 ELSE 0
           low == IF byte % 16 > 9 \/ cc.h THEN 6 ELSE 0
           high == IF byte > 153 \/ cc.c THEN 96 ELSE 0
           sum == byte + low + high
<1>1. /\ u \in 0 .. 9 /\ v \in 0 .. 9 /\ p \in 0 .. 9 /\ q \in 0 .. 9
      /\ l = (16 * u) + v /\ r = (16 * p) + q
      /\ Digits(l) = (10 * u) + v /\ Digits(r) = (10 * p) + q
  BY DigitsOf DEF Digits
<1>2. cc.c \in BOOLEAN /\ cc.h \in BOOLEAN
  BY DEF Flags
<1>3. /\ (256 * Bit(cc.c)) + byte = (16 * (u + p)) + units
      /\ cc.h <=> units > 15
  <2>1. /\ (256 * Bit(cc.c)) + byte = l + r + carry
        /\ cc.h <=> v + q + carry > 15
    BY DEF Added
  <2> HIDE DEF u, v, p, q
  <2>2. l + r + carry = (16 * (u + p)) + units
    BY <1>1
  <2> QED BY <2>1, <2>2
<1>4. /\ DecimalAdjust(cc, byte).out = sum % 256
      /\ DecimalAdjust(cc, byte).cc.c = (cc.c \/ sum > 255)
  BY DEF DecimalAdjust, Result, SetNz8, Flags
<1> HIDE DEF u, v, p, q
<1>5. units \in 0 .. 19 /\ unitsOver \in 0 .. 1 /\ tens \in 0 .. 19 /\ tensOver \in 0 .. 1
  BY <1>1
<1>6. byte % 16 = units % 16
  BY <1>1, <1>2, <1>3 DEF Byte, Bit
<1>7. low = 6 * unitsOver
  BY <1>1, <1>3, <1>6
<1>8. (byte > 153 \/ cc.c) <=> tens > 9
  BY <1>1, <1>2, <1>3 DEF Byte, Bit
<1>9. high = 96 * tensOver
  BY <1>8
<1>10. /\ sum % 256 = (16 * (tens - (10 * tensOver))) + (units - (10 * unitsOver))
       /\ (cc.c \/ sum > 255) <=> tensOver = 1
  <2> DEFINE out == (16 * (tens - (10 * tensOver))) + (units - (10 * unitsOver))
             c == Bit(cc.c)
  <2>1. out \in Byte
    BY <1>5 DEF Byte
  <2>2. sum = out + (256 * (tensOver - c))
    BY <1>1, <1>2, <1>3, <1>5, <1>7, <1>9 DEF Byte, Bit
  <2>3. c \in 0 .. 1 /\ (c = 1 <=> cc.c)
    BY <1>2 DEF Bit
  <2>4. c = 1 => tensOver = 1
    BY <1>2, <1>8 DEF Bit
  <2> HIDE DEF out, sum, tensOver, c
  <2> QED BY <1>5, <2>1, <2>2, <2>3, <2>4 DEF Byte, out
<1>11. tens - (10 * tensOver) \in 0 .. 9 /\ units - (10 * unitsOver) \in 0 .. 9
  BY <1>5
<1>12. /\ sum % 256 \in DecimalDigits
       /\ Digits(sum % 256) = (10 * (tens - (10 * tensOver))) + (units - (10 * unitsOver))
  BY <1>10, <1>11 DEF DecimalDigits, Digits
<1>13. Bit(DecimalAdjust(cc, byte).cc.c) = tensOver
  BY <1>2, <1>4, <1>5, <1>10 DEF Bit
<1> QED BY <1>1, <1>4, <1>5, <1>12, <1>13 DEF Adjusted

LEMMA AddsDigits ==
  ASSUME NEW cc \in Flags, NEW l \in Byte, NEW r \in Byte, NEW carry \in BOOLEAN
  PROVE  Added(Add8(cc, l, r, carry).cc, Add8(cc, l, r, carry).out, l, r, Bit(carry))
<1>1. Add8(cc, l, r, carry).cc.h <=> (l % 16) + (r % 16) + Bit(carry) > 15
  BY DEF Add8, Result, SetNz8, Flags
<1> QED BY <1>1, AddCarries DEF Added

LEMMA AddsDigitsFirst ==
  ASSUME NEW cc \in Flags, NEW l \in Byte, NEW r \in Byte
  PROVE  Added(Add8(cc, l, r, FALSE).cc, Add8(cc, l, r, FALSE).out, l, r, 0)
<1> DEFINE no == FALSE
           zero == Bit(no)
<1>1. no \in BOOLEAN /\ zero = 0
  BY DEF Bit
<1> HIDE DEF no, zero
<1>2. Added(Add8(cc, l, r, no).cc, Add8(cc, l, r, no).out, l, r, zero)
  BY <1>1, AddsDigits DEF zero
<1> QED BY <1>1, <1>2, Zenon DEF no

\* What holds at each instruction of the program that adds decimal numbers.
DecimalPoint ==
  LET carry == Bit(reg.cc.c)
      units(over) == Adjusted(memory[21], over, memory[17], memory[19], 0) IN
    \/ reg.pc = 32
    \/ reg.pc = 34 /\ reg.a = memory[17]
    \/ reg.pc = 36 /\ Added(reg.cc, reg.a, memory[17], memory[19], 0)
    \/ reg.pc = 37 /\ Adjusted(reg.a, carry, memory[17], memory[19], 0)
    \/ reg.pc = 39 /\ units(carry)
    \/ reg.pc = 41 /\ units(carry) /\ reg.a = memory[16]
    \/ \E between \in 0 .. 1 :
         /\ units(between)
         /\ \/ reg.pc = 43 /\ Added(reg.cc, reg.a, memory[16], memory[18], between)
            \/ reg.pc = 44 /\ Adjusted(reg.a, carry, memory[16], memory[18], between)
            \/ reg.pc = 46 /\ Adjusted(memory[20], carry, memory[16], memory[18], between)

DecimalInv ==
  task.name = "decimal" =>
    /\ \A addr \in DecimalProgram : memory[addr] = task.memory[addr]
    /\ DecimalPoint
    /\ status \in {"running", "stopped"}
    /\ (reg.pc = lastpc \/ status = "stopped") => reg.pc = 46

DecimalBytesThere ==
  /\ memory[16] \in DecimalDigits /\ memory[17] \in DecimalDigits
  /\ memory[18] \in DecimalDigits /\ memory[19] \in DecimalDigits
  /\ memory[32] = 150 /\ memory[33] = 17 /\ memory[34] = 155 /\ memory[35] = 19
  /\ memory[36] = 25 /\ memory[37] = 151 /\ memory[38] = 21
  /\ memory[39] = 150 /\ memory[40] = 16 /\ memory[41] = 153 /\ memory[42] = 18
  /\ memory[43] = 25 /\ memory[44] = 151 /\ memory[45] = 20
  /\ memory[46] = 32 /\ memory[47] = 254

DecimalRuns ==
  /\ ProgramCellsExist /\ CpuTypeOK /\ DecimalInv /\ task.name = "decimal" /\ DecimalBytesThere
  /\ CpuNext /\ Runs

LEMMA DecimalFacts ==
  ASSUME DecimalRuns
  PROVE  /\ DecimalBytesThere /\ reg.cc \in Flags /\ reg.a \in Byte /\ reg.cc.c \in BOOLEAN
         /\ memory[16] \in Byte /\ memory[17] \in Byte /\ memory[18] \in Byte /\ memory[19] \in Byte
         /\ \A addr \in 0 .. 127 : addr \in Cells
         /\ DOMAIN memory = Cells
         /\ reg.pc \in 0 .. 120 => At120(reg.pc)
<1>1. reg.cc \in Flags /\ reg.a \in Byte
  BY DEF DecimalRuns, CpuTypeOK, Registers
<1>2. reg.cc.c \in BOOLEAN
  BY <1>1 DEF Flags
<1>3. DOMAIN memory = Cells /\ \A addr \in 0 .. 127 : addr \in Cells
  BY DEF DecimalRuns, CpuTypeOK, MemoryOK, ProgramCellsExist
<1>4. reg.pc \in 0 .. 120 => At120(reg.pc)
  BY DEF DecimalRuns, At120
<1>5. memory[16] \in Byte /\ memory[17] \in Byte /\ memory[18] \in Byte /\ memory[19] \in Byte
  BY DigitsOf DEF DecimalRuns, DecimalBytesThere
<1> QED BY <1>1, <1>2, <1>3, <1>4, <1>5 DEF DecimalRuns

LEMMA DecimalArrives ==
  ASSUME DecimalRuns, Proceeds(reg'.pc), reg'.pc \in 33 .. 46, reg'.pc # reg.pc \/ reg'.pc = 46,
         \A addr \in DecimalProgram : memory'[addr] = memory[addr],
         DecimalPoint'
  PROVE  DecimalInv'
BY DEF DecimalRuns, DecimalInv, Proceeds

LEMMA DecimalAddsUnits ==
  ASSUME DecimalRuns, DecimalPoint, reg.pc \in {32, 34, 36, 37}
  PROVE  DecimalInv'
<1>1. CASE reg.pc = 32
  <2>1. /\ Proceeds(34) /\ memory' = memory
        /\ reg'.a = Arithmetic("lda", reg.a, memory[17]).out
    <3>1. At120(32) /\ memory[32] = 150 /\ memory[32 + 1] = 17 /\ 34 = 32 + 2
      BY <1>1, DecimalFacts DEF DecimalBytesThere
    <3> QED BY <3>1, DirectStep
  <2>2. Arithmetic("lda", reg.a, memory[17]).out = memory[17]
    BY DecimalFacts, LogicFlags DEF Arithmetic
  <2>3. DecimalPoint'
    BY <1>1, <2>1, <2>2 DEF DecimalPoint, Proceeds
  <2> QED BY <1>1, <2>1, <2>3, DecimalArrives DEF Proceeds
<1>2. CASE reg.pc = 34
  <2>1. /\ Proceeds(36) /\ memory' = memory
        /\ reg'.a = Arithmetic("add", reg.a, memory[19]).out
        /\ reg'.cc = Arithmetic("add", reg.a, memory[19]).cc
    <3>1. At120(34) /\ memory[34] = 155 /\ memory[34 + 1] = 19 /\ 36 = 34 + 2
      BY <1>2, DecimalFacts DEF DecimalBytesThere
    <3> QED BY <3>1, DirectStep
  <2>2. reg.a = memory[17]
    BY <1>2 DEF DecimalPoint
  <2>3. Arithmetic("add", reg.a, memory[19]) = Add8(reg.cc, reg.a, memory[19], FALSE)
    BY Zenon DEF Arithmetic
  <2>4. Added(reg'.cc, reg'.a, memory[17], memory[19], 0)
    <3>1. reg.cc \in Flags /\ memory[17] \in Byte /\ memory[19] \in Byte
      BY DecimalFacts DEF DecimalBytes
    <3> QED BY <2>1, <2>2, <2>3, <3>1, AddsDigitsFirst, Zenon
  <2>5. DecimalPoint'
    BY <2>1, <2>4 DEF DecimalPoint, Proceeds
  <2> QED BY <1>2, <2>1, <2>5, DecimalArrives DEF Proceeds
<1>3. CASE reg.pc = 36
  <2>1. /\ Proceeds(37) /\ memory' = memory
        /\ reg'.a = DecimalAdjust(reg.cc, reg.a).out
        /\ reg'.cc = DecimalAdjust(reg.cc, reg.a).cc
    <3>1. At120(36) /\ memory[36] = 25 /\ 37 = 36 + 1
      BY <1>3, DecimalFacts DEF DecimalBytesThere
    <3> QED BY <3>1, BetweenStep
  <2>2. Added(reg.cc, reg.a, memory[17], memory[19], 0)
    BY <1>3 DEF DecimalPoint
  <2>3. Adjusted(reg'.a, Bit(reg'.cc.c), memory[17], memory[19], 0)
    BY <2>1, <2>2, DecimalFacts, Adjusts DEF DecimalBytesThere
  <2>4. DecimalPoint'
    BY <2>1, <2>3 DEF DecimalPoint, Proceeds
  <2> QED BY <1>3, <2>1, <2>4, DecimalArrives DEF Proceeds
<1>4. CASE reg.pc = 37
  <2>1. /\ Proceeds(39) /\ memory' = [memory EXCEPT ![21] = reg.a]
        /\ reg'.cc = Logic8(reg.cc, reg.a).cc
    <3>1. At120(37) /\ memory[37] = 151 /\ memory[37 + 1] = 21 /\ 21 \in Places /\ 39 = 37 + 2
      BY <1>4, DecimalFacts DEF DecimalBytesThere, Places
    <3> QED BY <3>1, StoreByteStep
  <2>2. reg'.cc.c = reg.cc.c
    BY <2>1, DecimalFacts, LogicFlags
  <2>3. memory'[21] = reg.a /\ \A addr \in DecimalProgram : memory'[addr] = memory[addr]
    BY <2>1, DecimalFacts DEF DecimalProgram
  <2>4. memory'[17] = memory[17] /\ memory'[19] = memory[19]
    BY <2>3 DEF DecimalProgram
  <2>5. Adjusted(reg.a, Bit(reg.cc.c), memory[17], memory[19], 0)
    BY <1>4 DEF DecimalPoint
  <2>6. DecimalPoint'
    BY <2>1, <2>2, <2>3, <2>4, <2>5 DEF DecimalPoint, Proceeds
  <2> QED BY <1>4, <2>1, <2>3, <2>6, DecimalArrives DEF Proceeds
<1> QED BY <1>1, <1>2, <1>3, <1>4

LEMMA DecimalAddsHundreds ==
  ASSUME DecimalRuns, DecimalPoint, reg.pc \in {39, 41}
  PROVE  DecimalInv'
<1> DEFINE carry == Bit(reg.cc.c)
<1>1. Adjusted(memory[21], carry, memory[17], memory[19], 0)
  BY DEF DecimalPoint
<1>2. CASE reg.pc = 39
  <2>1. /\ Proceeds(41) /\ memory' = memory
        /\ reg'.a = Arithmetic("lda", reg.a, memory[16]).out
        /\ reg'.cc = Arithmetic("lda", reg.a, memory[16]).cc
    <3>1. At120(39) /\ memory[39] = 150 /\ memory[39 + 1] = 16 /\ 41 = 39 + 2
      BY <1>2, DecimalFacts DEF DecimalBytesThere
    <3> QED BY <3>1, DirectStep
  <2>2. Arithmetic("lda", reg.a, memory[16]) = Logic8(reg.cc, memory[16])
    BY Zenon DEF Arithmetic
  <2>3. reg'.a = memory[16] /\ reg'.cc.c = reg.cc.c
    BY <2>1, <2>2, DecimalFacts, LogicFlags
  <2>4. DecimalPoint'
    BY <1>1, <2>1, <2>3 DEF DecimalPoint, Proceeds
  <2> QED BY <1>2, <2>1, <2>4, DecimalArrives DEF Proceeds
<1>3. CASE reg.pc = 41
  <2>1. /\ Proceeds(43) /\ memory' = memory
        /\ reg'.a = Arithmetic("adc", reg.a, memory[18]).out
        /\ reg'.cc = Arithmetic("adc", reg.a, memory[18]).cc
    <3>1. At120(41) /\ memory[41] = 153 /\ memory[41 + 1] = 18 /\ 43 = 41 + 2
      BY <1>3, DecimalFacts DEF DecimalBytesThere
    <3> QED BY <3>1, DirectStep
  <2>2. reg.a = memory[16]
    BY <1>3 DEF DecimalPoint
  <2>3. Arithmetic("adc", reg.a, memory[18]) = Add8(reg.cc, reg.a, memory[18], reg.cc.c)
    BY Zenon DEF Arithmetic
  <2>4. Added(reg'.cc, reg'.a, memory[16], memory[18], carry)
    BY <2>1, <2>2, <2>3, DecimalFacts, AddsDigits
  <2>5. carry \in 0 .. 1
    BY DecimalFacts, Bits
  <2>6. DecimalPoint'
    <3> HIDE DEF carry
    <3> QED BY <1>1, <2>1, <2>4, <2>5 DEF DecimalPoint, Proceeds
  <2> QED BY <1>3, <2>1, <2>6, DecimalArrives DEF Proceeds
<1> QED BY <1>2, <1>3

LEMMA DecimalEndsAddition ==
  ASSUME DecimalRuns, DecimalPoint, reg.pc \in {43, 44, 46}
  PROVE  DecimalInv'
<1>1. PICK between \in 0 .. 1 :
        /\ Adjusted(memory[21], between, memory[17], memory[19], 0)
        /\ \/ reg.pc = 43 /\ Added(reg.cc, reg.a, memory[16], memory[18], between)
           \/ reg.pc = 44 /\ Adjusted(reg.a, Bit(reg.cc.c), memory[16], memory[18], between)
           \/ reg.pc = 46 /\ Adjusted(memory[20], Bit(reg.cc.c), memory[16], memory[18], between)
  BY DEF DecimalPoint
<1>2. CASE reg.pc = 43
  <2>1. /\ Proceeds(44) /\ memory' = memory
        /\ reg'.a = DecimalAdjust(reg.cc, reg.a).out
        /\ reg'.cc = DecimalAdjust(reg.cc, reg.a).cc
    <3>1. At120(43) /\ memory[43] = 25 /\ 44 = 43 + 1
      BY <1>2, DecimalFacts DEF DecimalBytesThere
    <3> QED BY <3>1, BetweenStep
  <2>2. Adjusted(reg'.a, Bit(reg'.cc.c), memory[16], memory[18], between)
    BY <1>1, <1>2, <2>1, DecimalFacts, Adjusts DEF DecimalBytesThere
  <2>3. DecimalPoint'
    BY <1>1, <2>1, <2>2 DEF DecimalPoint, Proceeds
  <2> QED BY <1>2, <2>1, <2>3, DecimalArrives DEF Proceeds
<1>3. CASE reg.pc = 44
  <2>1. /\ Proceeds(46) /\ memory' = [memory EXCEPT ![20] = reg.a]
        /\ reg'.cc = Logic8(reg.cc, reg.a).cc
    <3>1. At120(44) /\ memory[44] = 151 /\ memory[44 + 1] = 20 /\ 20 \in Places /\ 46 = 44 + 2
      BY <1>3, DecimalFacts DEF DecimalBytesThere, Places
    <3> QED BY <3>1, StoreByteStep
  <2>2. reg'.cc.c = reg.cc.c
    BY <2>1, DecimalFacts, LogicFlags
  <2>3. /\ memory'[20] = reg.a /\ memory'[21] = memory[21]
        /\ \A addr \in DecimalProgram : memory'[addr] = memory[addr]
    BY <2>1, DecimalFacts DEF DecimalProgram
  <2>4. /\ memory'[16] = memory[16] /\ memory'[17] = memory[17]
        /\ memory'[18] = memory[18] /\ memory'[19] = memory[19]
    BY <2>3 DEF DecimalProgram
  <2>5. DecimalPoint'
    BY <1>1, <1>3, <2>1, <2>2, <2>3, <2>4 DEF DecimalPoint, Proceeds
  <2> QED BY <1>3, <2>1, <2>3, <2>5, DecimalArrives DEF Proceeds
<1>4. CASE reg.pc = 46
  <2>1. Proceeds(46) /\ memory' = memory /\ reg'.cc = reg.cc
    BY <1>4, DecimalFacts, HaltStep DEF DecimalBytesThere
  <2>2. DecimalPoint'
    BY <1>1, <1>4, <2>1 DEF DecimalPoint, Proceeds
  <2> QED BY <1>4, <2>1, <2>2, DecimalArrives DEF Proceeds
<1> QED BY <1>2, <1>3, <1>4

LEMMA DecimalStep ==
  ASSUME ProgramCellsExist, CpuTypeOK, DecimalInv, task.name = "decimal", AddsDecimals(task),
         CpuNext
  PROVE  DecimalInv'
<1>1. CASE StopsInLoop
  <2>1. DecimalPoint /\ UNCHANGED <<reg, memory, lastpc, task>> /\ reg.pc = lastpc
    BY <1>1 DEF StopsInLoop, DecimalInv
  <2>2. DecimalPoint'
    BY <2>1 DEF DecimalPoint
  <2> QED BY <1>1, <2>1, <2>2 DEF StopsInLoop, DecimalInv
<1>2. CASE Runs
  <2>1. DecimalBytesThere
    BY DecimalCode DEF DecimalInv, DecimalProgram, DecimalBytesThere
  <2>2. DecimalRuns /\ DecimalPoint
    BY <1>2, <2>1 DEF DecimalRuns, DecimalInv
  <2>3. \/ reg.pc \in {32, 34, 36, 37} \/ reg.pc \in {39, 41} \/ reg.pc \in {43, 44, 46}
    BY <2>2 DEF DecimalPoint
  <2> QED BY <2>2, <2>3, DecimalAddsUnits, DecimalAddsHundreds, DecimalEndsAddition
<1> QED BY <1>1, <1>2, RunsOrStops

LEMMA DecimalOfBytes ==
  ASSUME NEW h \in DecimalDigits, NEW l \in DecimalDigits
  PROVE  Decimal((256 * h) + l) = (100 * Digits(h)) + Digits(l)
<1> DEFINE u == h \div 16
           v == h % 16
           p == l \div 16
           q == l % 16
           w == (256 * h) + l
<1>1. /\ u \in 0 .. 9 /\ v \in 0 .. 9 /\ p \in 0 .. 9 /\ q \in 0 .. 9
      /\ h = (16 * u) + v /\ l = (16 * p) + q
  BY DigitsOf
<1> HIDE DEF u, v, p, q
<1>2. /\ w \div 4096 = u /\ (w \div 256) % 16 = v /\ (w \div 16) % 16 = p /\ w % 16 = q
  BY <1>1
<1>3. Digits(h) = (10 * u) + v /\ Digits(l) = (10 * p) + q
  BY DEF Digits, u, v, p, q
<1>4. Decimal(w) = (1000 * u) + (100 * v) + (10 * p) + q
  BY <1>2 DEF Decimal
<1> QED BY <1>1, <1>3, <1>4

LEMMA DecimalEnds ==
  ASSUME ProgramCellsExist, CpuTypeOK, DecimalInv,
         \A t \in Tasks : t.name = "decimal" => AddsDecimals(t)
  PROVE  DecimalsAdd
<1> SUFFICES ASSUME Ended("decimal")
             PROVE  DecimalsAdd
  BY DEF DecimalsAdd
<1> DEFINE carry == reg.cc.c
           l == Decimal(task.l)
           r == Decimal(task.r)
           sum == Decimal(WordAt(20))
<1>1. /\ status = "stopped" /\ task.name = "decimal" /\ task \in Tasks /\ reg.pc = 46
      /\ DecimalPoint /\ \A addr \in DecimalProgram : memory[addr] = task.memory[addr]
  BY DEF Ended, DecimalInv, CpuTypeOK
<1>2. /\ memory[16] \in DecimalDigits /\ memory[17] \in DecimalDigits
      /\ memory[18] \in DecimalDigits /\ memory[19] \in DecimalDigits
      /\ task.l = (256 * memory[16]) + memory[17] /\ task.r = (256 * memory[18]) + memory[19]
  BY <1>1, DecimalCode DEF DecimalProgram
<1>3. PICK between \in 0 .. 1 :
        /\ Adjusted(memory[21], between, memory[17], memory[19], 0)
        /\ Adjusted(memory[20], Bit(carry), memory[16], memory[18], between)
  BY <1>1 DEF DecimalPoint
<1>4. carry \in BOOLEAN
  BY DEF CpuTypeOK, Registers, Flags
<1>5. /\ l = (100 * Digits(memory[16])) + Digits(memory[17])
      /\ r = (100 * Digits(memory[18])) + Digits(memory[19])
  BY <1>2, DecimalOfBytes
<1>6. sum = (100 * Digits(memory[20])) + Digits(memory[21])
  BY <1>3, DecimalOfBytes DEF Adjusted, WordAt
<1>7. /\ Digits(memory[16]) \in 0 .. 99 /\ Digits(memory[17]) \in 0 .. 99
      /\ Digits(memory[18]) \in 0 .. 99 /\ Digits(memory[19]) \in 0 .. 99
      /\ Digits(memory[20]) \in 0 .. 99 /\ Digits(memory[21]) \in 0 .. 99
  BY <1>2, <1>3, DigitsOf DEF Adjusted
<1>8. /\ (100 * between) + Digits(memory[21]) = Digits(memory[17]) + Digits(memory[19])
      /\ (100 * Bit(carry)) + Digits(memory[20])
           = Digits(memory[16]) + Digits(memory[18]) + between
  BY <1>3, <1>7 DEF Adjusted
<1>9. Bit(carry) \in 0 .. 1 /\ (Bit(carry) = 1 <=> carry)
  BY <1>4 DEF Bit
<1> HIDE DEF carry
<1>10. l + r \in Int /\ sum = (l + r) % 10000 /\ (carry <=> l + r >= 10000)
  <2> DEFINE both == ((100 * Digits(memory[16])) + Digits(memory[17]))
                       + ((100 * Digits(memory[18])) + Digits(memory[19]))
             digits == (100 * Digits(memory[20])) + Digits(memory[21])
  <2>1. both \in Int /\ digits = both % 10000 /\ (Bit(carry) = 1 <=> both >= 10000)
    <3> DEFINE h == Digits(memory[16])
               m == Digits(memory[17])
               k == Digits(memory[18])
               n == Digits(memory[19])
               x == Digits(memory[20])
               y == Digits(memory[21])
               over == Bit(carry)
    <3>1. /\ h \in 0 .. 99 /\ m \in 0 .. 99 /\ k \in 0 .. 99 /\ n \in 0 .. 99
          /\ x \in 0 .. 99 /\ y \in 0 .. 99 /\ over \in 0 .. 1 /\ between \in 0 .. 1
          /\ (100 * between) + y = m + n /\ (100 * over) + x = h + k + between
      BY <1>3, <1>7, <1>8, <1>9
    <3> HIDE DEF h, m, k, n, x, y, over
    <3> DEFINE a == ((100 * h) + m) + ((100 * k) + n)
               w == (100 * x) + y
    <3>2. w \in Int /\ 0 <= w /\ w < 10000 /\ a \in Int /\ a = w + (10000 * over)
      BY <3>1
    <3> HIDE DEF a, w
    <3>3. CASE over = 0
      <4>1. a = w
        BY <3>2, <3>3
      <4>2. a \in Int /\ w = a % 10000 /\ (over = 1 <=> a >= 10000)
        BY <3>2, <3>3, <4>1
      <4> QED BY <4>2 DEF a, w, h, m, k, n, x, y, over
    <3>4. CASE over = 1
      <4>1. a \in Int /\ w = a % 10000 /\ (over = 1 <=> a >= 10000)
        BY <3>2, <3>4
      <4> QED BY <4>1 DEF a, w, h, m, k, n, x, y, over
    <3> QED BY <3>1, <3>3, <3>4
  <2>2. l + r = both /\ sum = digits
    BY <1>5, <1>6
  <2> HIDE DEF both, digits
  <2> QED BY <1>9, <2>1, <2>2
<1> HIDE DEF l, r, sum
<1>11. carry = (l + r >= 10000)
  <2>1. (l + r >= 10000) \in BOOLEAN
    BY <1>9
  <2> QED BY <1>4, <1>10, <2>1, SameTruth
<1> QED BY <1>1, <1>10, <1>11 DEF DecimalsAdd, carry, l, r, sum

\* ADD and ADC, each followed by op_daa, add any two numbers of four decimal digits:
\* the half-carry and the carry of the byte below are not lost.
THEOREM DecimalsCompute ==
  ASSUME ProgramCellsExist, \A t \in Tasks : t.name = "decimal" => AddsDecimals(t)
  PROVE  CpuSpec => []DecimalsAdd
<1>1. CpuInit => DecimalInv
  <2> SUFFICES ASSUME CpuInit, task.name = "decimal"
               PROVE  DecimalInv
    BY DEF DecimalInv
  <2>1. AddsDecimals(task)
    BY DEF CpuInit
  <2>2. task.registers = PowerUp /\ DecimalProgram \subseteq DOMAIN task.memory
    BY <2>1, DecimalCode
  <2>3. DecimalProgram \subseteq Cells
    BY DEF ProgramCellsExist, DecimalProgram
  <2> HIDE DEF CpuInit
  <2>4. /\ \A addr \in DecimalProgram : memory[addr] = task.memory[addr]
        /\ reg.pc = 32 /\ lastpc # 32 /\ status = "running"
    BY <2>2, <2>3, TaskStarts
  <2> QED BY <2>4 DEF DecimalInv, DecimalPoint
<1>2. CpuTypeOK /\ DecimalInv /\ [CpuNext]_cpuVars => DecimalInv'
  <2> SUFFICES ASSUME CpuTypeOK, DecimalInv, [CpuNext]_cpuVars
               PROVE  DecimalInv'
    OBVIOUS
  <2>1. CASE CpuNext /\ task.name = "decimal"
    <3>1. AddsDecimals(task)
      BY <2>1 DEF CpuTypeOK
    <3> QED BY <2>1, <3>1, DecimalStep
  <2>2. CASE CpuNext /\ task.name # "decimal"
    BY <2>2, TaskStays DEF DecimalInv
  <2>3. CASE UNCHANGED cpuVars
    <3>1. DecimalPoint => DecimalPoint'
      BY <2>3 DEF DecimalPoint, cpuVars
    <3> QED BY <2>3, <3>1 DEF DecimalInv, cpuVars
  <2> QED BY <2>1, <2>2, <2>3
<1>3. CpuTypeOK /\ DecimalInv => DecimalsAdd
  BY DecimalEnds
<1>4. CpuSpec => []CpuTypeOK
  BY CpuTypeCorrect
<1> QED BY <1>1, <1>2, <1>3, <1>4, PTL DEF CpuSpec

-----------------------------------------------------------------------------
(* The program of the logical operations.                                  *)

LogicProgram == 16 .. 19 \cup 32 .. 66

DoesLogic(t) == t \in LogicTasks(Byte)

\* The bits of a byte, by their weights.
BitOf(value, weight) == IF (value \div weight) % 2 = 1 THEN weight ELSE 0

LEMMA ByteFromBits ==
  ASSUME NEW value \in Byte
  PROVE  value = BitOf(value, 1) + BitOf(value, 2) + BitOf(value, 4) + BitOf(value, 8)
                   + BitOf(value, 16) + BitOf(value, 32) + BitOf(value, 64) + BitOf(value, 128)
<1> DEFINE a == value \div 2
           b == value \div 4
           c == value \div 8
           d == value \div 16
           e == value \div 32
           f == value \div 64
           g == value \div 128
<1>1. /\ a \in Int /\ b \in Int /\ c \in Int /\ d \in Int /\ e \in Int /\ f \in Int /\ g \in 0 .. 1
      /\ value \in Int /\ value \div 1 = value
      /\ value = (2 * a) + (value % 2) /\ a = (2 * b) + (a % 2) /\ b = (2 * c) + (b % 2)
      /\ c = (2 * d) + (c % 2) /\ d = (2 * e) + (d % 2) /\ e = (2 * f) + (e % 2)
      /\ f = (2 * g) + (f % 2)
  BY DEF Byte
<1> HIDE DEF a, b, c, d, e, f, g
<1>2. /\ BitOf(value, 1) = value % 2 /\ BitOf(value, 2) = 2 * (a % 2)
      /\ BitOf(value, 4) = 4 * (b % 2) /\ BitOf(value, 8) = 8 * (c % 2)
      /\ BitOf(value, 16) = 16 * (d % 2) /\ BitOf(value, 32) = 32 * (e % 2)
      /\ BitOf(value, 64) = 64 * (f % 2) /\ BitOf(value, 128) = 128 * g
  <2>1. \A n \in Int : n % 2 \in {0, 1}
    OBVIOUS
  <2> QED BY <1>1, <2>1 DEF BitOf, a, b, c, d, e, f, g
<1>3. /\ value % 2 \in Int /\ a % 2 \in Int /\ b % 2 \in Int /\ c % 2 \in Int
      /\ d % 2 \in Int /\ e % 2 \in Int /\ f % 2 \in Int
  BY <1>1
<1> QED BY <1>1, <1>2, <1>3

\* One bit of a conjunction, a disjunction and a difference.
LEMMA BitsAgree ==
  ASSUME NEW l \in Byte, NEW r \in Byte
  PROVE  And8(l, r) + Or8(l, r) = l + r /\ Or8(l, r) - And8(l, r) = Xor8(l, r)
<1> DEFINE weights == {1, 2, 4, 8, 16, 32, 64, 128}
           on(value, weight) == (value \div weight) % 2 = 1
           and(weight) == IF on(l, weight) /\ on(r, weight) THEN weight ELSE 0
           or(weight) == IF on(l, weight) \/ on(r, weight) THEN weight ELSE 0
           xor(weight) == IF on(l, weight) # on(r, weight) THEN weight ELSE 0
<1> DEFINE agree(w) == /\ and(w) \in Int /\ or(w) \in Int /\ xor(w) \in Int
                       /\ BitOf(l, w) \in Int /\ BitOf(r, w) \in Int
                       /\ and(w) + or(w) = BitOf(l, w) + BitOf(r, w)
                       /\ or(w) - and(w) = xor(w)
<1>1. And8(l, r) = and(1) + and(2) + and(4) + and(8) + and(16) + and(32) + and(64) + and(128)
  BY DEF And8, ByBits
<1>2. Or8(l, r) = or(1) + or(2) + or(4) + or(8) + or(16) + or(32) + or(64) + or(128)
  BY DEF Or8, ByBits
<1>3. Xor8(l, r) = xor(1) + xor(2) + xor(4) + xor(8) + xor(16) + xor(32) + xor(64) + xor(128)
  BY DEF Xor8, ByBits
<1>4. ASSUME NEW w \in weights
      PROVE  agree(w)
  BY DEF BitOf
<1>5. /\ l = BitOf(l, 1) + BitOf(l, 2) + BitOf(l, 4) + BitOf(l, 8)
                + BitOf(l, 16) + BitOf(l, 32) + BitOf(l, 64) + BitOf(l, 128)
      /\ r = BitOf(r, 1) + BitOf(r, 2) + BitOf(r, 4) + BitOf(r, 8)
                + BitOf(r, 16) + BitOf(r, 32) + BitOf(r, 64) + BitOf(r, 128)
  BY ByteFromBits
<1>6. /\ 1 \in weights /\ 2 \in weights /\ 4 \in weights /\ 8 \in weights
      /\ 16 \in weights /\ 32 \in weights /\ 64 \in weights /\ 128 \in weights
  OBVIOUS
<1> HIDE DEF and, or, xor, weights
<1>7. /\ agree(1) /\ agree(2) /\ agree(4) /\ agree(8)
      /\ agree(16) /\ agree(32) /\ agree(64) /\ agree(128)
  <2> HIDE DEF agree
  <2> QED BY <1>4, <1>6
<1> QED BY <1>1, <1>2, <1>3, <1>5, <1>7

LEMMA LogicCode ==
  ASSUME NEW t, DoesLogic(t)
  PROVE  /\ t.registers = PowerUp
         /\ LogicProgram \subseteq DOMAIN t.memory
         /\ t.l \in Byte /\ t.memory[17] = t.l /\ t.r \in Byte /\ t.memory[19] = t.r
         /\ t.memory[32] = 150 /\ t.memory[33] = 17 /\ t.memory[34] = 148 /\ t.memory[35] = 19
         /\ t.memory[36] = 151 /\ t.memory[37] = 20 /\ t.memory[38] = 150 /\ t.memory[39] = 17
         /\ t.memory[40] = 154 /\ t.memory[41] = 19 /\ t.memory[42] = 151 /\ t.memory[43] = 21
         /\ t.memory[44] = 150 /\ t.memory[45] = 17 /\ t.memory[46] = 152 /\ t.memory[47] = 19
         /\ t.memory[48] = 151 /\ t.memory[49] = 22 /\ t.memory[50] = 214 /\ t.memory[51] = 17
         /\ t.memory[52] = 23 /\ t.memory[53] = 67 /\ t.memory[54] = 76 /\ t.memory[55] = 80
         /\ t.memory[56] = 17 /\ t.memory[57] = 39 /\ t.memory[58] = 3 /\ t.memory[59] = 127
         /\ t.memory[60] = 0 /\ t.memory[61] = 23 /\ t.memory[62] = 27 /\ t.memory[63] = 151
         /\ t.memory[64] = 24 /\ t.memory[65] = 32 /\ t.memory[66] = 254
<1>1. PICK l \in Byte, r \in Byte :
        t = Task("logic", l, r, <<150, 17, 148, 19, 151, 20, 150, 17, 154, 19, 151, 21,
                                  150, 17, 152, 19, 151, 22, 214, 17, 23, 67, 76, 80, 17,
                                  39, 3, 127, 0, 23, 27, 151, 24>>)
  BY DEF DoesLogic, LogicTasks
<1>2. t.l = l /\ t.r = r /\ t.registers = PowerUp
  BY <1>1 DEF Task
<1>3. t.memory[17] = l % 256 /\ t.memory[19] = r % 256
  BY <1>1 DEF Task, Over, At, Start, Halt, Bytes16
<1>4. t.memory[17] = l /\ t.memory[19] = r
  BY <1>3 DEF Byte
<1>5. LogicProgram \subseteq DOMAIN t.memory
  BY <1>1 DEF Task, Over, At, Start, Halt, Bytes16, LogicProgram
<1>6. /\ t.memory[32] = 150 /\ t.memory[33] = 17 /\ t.memory[34] = 148 /\ t.memory[35] = 19
      /\ t.memory[36] = 151 /\ t.memory[37] = 20 /\ t.memory[38] = 150 /\ t.memory[39] = 17
      /\ t.memory[40] = 154
  BY <1>1 DEF Task, Over, At, Start, Halt, Bytes16
<1>7. /\ t.memory[41] = 19 /\ t.memory[42] = 151 /\ t.memory[43] = 21 /\ t.memory[44] = 150
      /\ t.memory[45] = 17 /\ t.memory[46] = 152 /\ t.memory[47] = 19 /\ t.memory[48] = 151
      /\ t.memory[49] = 22
  BY <1>1 DEF Task, Over, At, Start, Halt, Bytes16
<1>8. /\ t.memory[50] = 214 /\ t.memory[51] = 17 /\ t.memory[52] = 23 /\ t.memory[53] = 67
      /\ t.memory[54] = 76 /\ t.memory[55] = 80 /\ t.memory[56] = 17 /\ t.memory[57] = 39
      /\ t.memory[58] = 3
  BY <1>1 DEF Task, Over, At, Start, Halt, Bytes16
<1>9. /\ t.memory[59] = 127 /\ t.memory[60] = 0 /\ t.memory[61] = 23 /\ t.memory[62] = 27
      /\ t.memory[63] = 151 /\ t.memory[64] = 24 /\ t.memory[65] = 32 /\ t.memory[66] = 254
  BY <1>1 DEF Task, Over, At, Start, Halt, Bytes16
<1> QED BY <1>2, <1>4, <1>5, <1>6, <1>7, <1>8, <1>9

\* What holds at each instruction: at $14 and after it lie the results so far.
LogicPoint ==
  LET l == memory[17]  r == memory[19]  negated == (0 - l) % 256 IN
    \/ reg.pc = 32
    \/ reg.pc = 34 /\ reg.a = l
    \/ reg.pc = 36 /\ reg.a = And8(l, r)
    \/ /\ memory[20] = And8(l, r)
       /\ \/ reg.pc = 38
          \/ reg.pc = 40 /\ reg.a = l
          \/ reg.pc = 42 /\ reg.a = Or8(l, r)
          \/ /\ memory[21] = Or8(l, r)
             /\ \/ reg.pc = 44
                \/ reg.pc = 46 /\ reg.a = l
                \/ reg.pc = 48 /\ reg.a = Xor8(l, r)
                \/ /\ memory[22] = Xor8(l, r)
                   /\ \/ reg.pc = 50
                      \/ reg.pc = 52 /\ reg.b = l
                      \/ reg.pc = 53 /\ reg.b = l /\ reg.a = l
                      \/ reg.pc = 54 /\ reg.b = l /\ reg.a = 255 - l
                      \/ reg.pc = 55 /\ reg.b = l /\ reg.a = negated
                      \/ reg.pc = 56 /\ reg.b = negated /\ reg.a = negated
                      \/ reg.pc = 57 /\ reg.b = negated /\ reg.a = negated /\ reg.cc.z
                      \/ reg.pc = 62 /\ reg.b = negated /\ reg.a = negated
                      \/ reg.pc = 63 /\ reg.a = (-2 * l) % 256
                      \/ reg.pc = 65 /\ memory[24] = (-2 * l) % 256

LogicInv ==
  task.name = "logic" =>
    /\ \A addr \in LogicProgram : memory[addr] = task.memory[addr]
    /\ LogicPoint
    /\ status \in {"running", "stopped"}
    /\ (reg.pc = lastpc \/ status = "stopped") => reg.pc = 65

LogicBytes ==
  /\ memory[17] \in Byte /\ memory[19] \in Byte
  /\ memory[32] = 150 /\ memory[33] = 17 /\ memory[34] = 148 /\ memory[35] = 19
  /\ memory[36] = 151 /\ memory[37] = 20 /\ memory[38] = 150 /\ memory[39] = 17
  /\ memory[40] = 154 /\ memory[41] = 19 /\ memory[42] = 151 /\ memory[43] = 21
  /\ memory[44] = 150 /\ memory[45] = 17 /\ memory[46] = 152 /\ memory[47] = 19
  /\ memory[48] = 151 /\ memory[49] = 22 /\ memory[50] = 214 /\ memory[51] = 17
  /\ memory[52] = 23 /\ memory[53] = 67 /\ memory[54] = 76 /\ memory[55] = 80
  /\ memory[56] = 17 /\ memory[57] = 39 /\ memory[58] = 3 /\ memory[59] = 127
  /\ memory[60] = 0 /\ memory[61] = 23 /\ memory[62] = 27 /\ memory[63] = 151
  /\ memory[64] = 24 /\ memory[65] = 32 /\ memory[66] = 254

LogicRuns ==
  /\ ProgramCellsExist /\ CpuTypeOK /\ LogicInv /\ task.name = "logic" /\ LogicBytes
  /\ CpuNext /\ Runs

LEMMA LogicFacts ==
  ASSUME LogicRuns
  PROVE  /\ LogicBytes /\ reg.cc \in Flags /\ reg.a \in Byte /\ reg.b \in Byte
         /\ \A addr \in 0 .. 127 : addr \in Cells
         /\ DOMAIN memory = Cells
         /\ reg.pc \in 0 .. 120 => At120(reg.pc)
<1>1. reg.cc \in Flags /\ reg.a \in Byte /\ reg.b \in Byte
  BY DEF LogicRuns, CpuTypeOK, Registers
<1>2. DOMAIN memory = Cells /\ \A addr \in 0 .. 127 : addr \in Cells
  BY DEF LogicRuns, CpuTypeOK, MemoryOK, ProgramCellsExist
<1>3. reg.pc \in 0 .. 120 => At120(reg.pc)
  BY DEF LogicRuns, At120
<1> QED BY <1>1, <1>2, <1>3 DEF LogicRuns

LEMMA LogicArrives ==
  ASSUME LogicRuns, Proceeds(reg'.pc), reg'.pc \in 33 .. 65, reg'.pc # reg.pc \/ reg'.pc = 65,
         \A addr \in LogicProgram : memory'[addr] = memory[addr],
         LogicPoint'
  PROVE  LogicInv'
BY DEF LogicRuns, LogicInv, Proceeds

LEMMA LogicAnds ==
  ASSUME LogicRuns, LogicPoint, reg.pc \in {32, 34, 36}
  PROVE  LogicInv'
<1>1. CASE reg.pc = 32
  <2>1. /\ Proceeds(34) /\ memory' = memory
        /\ reg'.a = Arithmetic("lda", reg.a, memory[17]).out
    <3>1. At120(32) /\ memory[32] = 150 /\ memory[32 + 1] = 17 /\ 34 = 32 + 2
      BY <1>1, LogicFacts DEF LogicBytes
    <3> QED BY <3>1, DirectStep
  <2>2. Arithmetic("lda", reg.a, memory[17]) = Logic8(reg.cc, memory[17])
    BY Zenon DEF Arithmetic
  <2>3. reg'.a = memory[17]
    BY <2>1, <2>2, LogicFacts, LogicFlags DEF LogicBytes
  <2>4. LogicPoint'
    BY <1>1, <2>1, <2>3 DEF LogicPoint, Proceeds
  <2> QED BY <1>1, <2>1, <2>4, LogicArrives DEF Proceeds
<1>2. CASE reg.pc = 34
  <2>1. /\ Proceeds(36) /\ memory' = memory
        /\ reg'.a = Arithmetic("and", reg.a, memory[19]).out
    <3>1. At120(34) /\ memory[34] = 148 /\ memory[34 + 1] = 19 /\ 36 = 34 + 2
      BY <1>2, LogicFacts DEF LogicBytes
    <3> QED BY <3>1, DirectStep
  <2>2. /\ reg.a = memory[17]
        /\ Arithmetic("and", reg.a, memory[19]) = Logic8(reg.cc, And8(reg.a, memory[19]))
    <3>1. reg.a = memory[17]
      BY <1>2 DEF LogicPoint
    <3>2. Arithmetic("and", reg.a, memory[19]) = Logic8(reg.cc, And8(reg.a, memory[19]))
      BY Zenon DEF Arithmetic
    <3> QED BY <3>1, <3>2
  <2>3. reg'.a = And8(memory[17], memory[19])
    <3>1. And8(memory[17], memory[19]) \in Byte
      BY LogicFacts, BitsTypes DEF LogicBytes
    <3> QED BY <2>1, <2>2, <3>1, LogicFacts, LogicFlags
  <2>4. LogicPoint'
    BY <1>2, <2>1, <2>3 DEF LogicPoint, Proceeds
  <2> QED BY <1>2, <2>1, <2>4, LogicArrives DEF Proceeds
<1>3. CASE reg.pc = 36
  <2>1. Proceeds(38) /\ memory' = [memory EXCEPT ![20] = reg.a]
    <3>1. At120(36) /\ memory[36] = 151 /\ 20 = memory[36 + 1] /\ 20 \in Places /\ 38 = 36 + 2
      BY <1>3, LogicFacts DEF LogicBytes, Places
    <3> QED BY <3>1, StoreByteStep
  <2>2. /\ memory'[20] = reg.a /\ \A addr \in LogicProgram : memory'[addr] = memory[addr]
        /\ \A addr \in 20 .. 24 : addr # 20 => memory'[addr] = memory[addr]
    BY <2>1, LogicFacts DEF LogicProgram
  <2>3. memory'[17] = memory[17] /\ memory'[19] = memory[19]
    BY <2>2 DEF LogicProgram
  <2>4. LogicPoint'
    BY <1>3, <2>1, <2>2, <2>3 DEF LogicPoint, Proceeds
  <2>5. Proceeds(38)
    BY <2>1
  <2> QED BY <1>3, <2>2, <2>4, <2>5, LogicArrives DEF Proceeds
<1> QED BY <1>1, <1>2, <1>3

LEMMA LogicOrs ==
  ASSUME LogicRuns, LogicPoint, reg.pc \in {38, 40, 42}
  PROVE  LogicInv'
<1>1. CASE reg.pc = 38
  <2>1. /\ Proceeds(40) /\ memory' = memory
        /\ reg'.a = Arithmetic("lda", reg.a, memory[17]).out
    <3>1. At120(38) /\ memory[38] = 150 /\ memory[38 + 1] = 17 /\ 40 = 38 + 2
      BY <1>1, LogicFacts DEF LogicBytes
    <3> QED BY <3>1, DirectStep
  <2>2. Arithmetic("lda", reg.a, memory[17]) = Logic8(reg.cc, memory[17])
    BY Zenon DEF Arithmetic
  <2>3. reg'.a = memory[17]
    BY <2>1, <2>2, LogicFacts, LogicFlags DEF LogicBytes
  <2>4. LogicPoint'
    BY <1>1, <2>1, <2>3 DEF LogicPoint, Proceeds
  <2> QED BY <1>1, <2>1, <2>4, LogicArrives DEF Proceeds
<1>2. CASE reg.pc = 40
  <2>1. /\ Proceeds(42) /\ memory' = memory
        /\ reg'.a = Arithmetic("ora", reg.a, memory[19]).out
    <3>1. At120(40) /\ memory[40] = 154 /\ memory[40 + 1] = 19 /\ 42 = 40 + 2
      BY <1>2, LogicFacts DEF LogicBytes
    <3> QED BY <3>1, DirectStep
  <2>2. /\ reg.a = memory[17]
        /\ Arithmetic("ora", reg.a, memory[19]) = Logic8(reg.cc, Or8(reg.a, memory[19]))
    <3>1. reg.a = memory[17]
      BY <1>2 DEF LogicPoint
    <3>2. Arithmetic("ora", reg.a, memory[19]) = Logic8(reg.cc, Or8(reg.a, memory[19]))
      BY Zenon DEF Arithmetic
    <3> QED BY <3>1, <3>2
  <2>3. reg'.a = Or8(memory[17], memory[19])
    <3>1. Or8(memory[17], memory[19]) \in Byte
      BY LogicFacts, BitsTypes DEF LogicBytes
    <3> QED BY <2>1, <2>2, <3>1, LogicFacts, LogicFlags
  <2>4. LogicPoint'
    BY <1>2, <2>1, <2>3 DEF LogicPoint, Proceeds
  <2> QED BY <1>2, <2>1, <2>4, LogicArrives DEF Proceeds
<1>3. CASE reg.pc = 42
  <2>1. Proceeds(44) /\ memory' = [memory EXCEPT ![21] = reg.a]
    <3>1. At120(42) /\ memory[42] = 151 /\ 21 = memory[42 + 1] /\ 21 \in Places /\ 44 = 42 + 2
      BY <1>3, LogicFacts DEF LogicBytes, Places
    <3> QED BY <3>1, StoreByteStep
  <2>2. /\ memory'[21] = reg.a /\ \A addr \in LogicProgram : memory'[addr] = memory[addr]
        /\ \A addr \in 20 .. 24 : addr # 21 => memory'[addr] = memory[addr]
    BY <2>1, LogicFacts DEF LogicProgram
  <2>3. memory'[17] = memory[17] /\ memory'[19] = memory[19]
    BY <2>2 DEF LogicProgram
  <2>4. LogicPoint'
    BY <1>3, <2>1, <2>2, <2>3 DEF LogicPoint, Proceeds
  <2>5. Proceeds(44)
    BY <2>1
  <2> QED BY <1>3, <2>2, <2>4, <2>5, LogicArrives DEF Proceeds
<1> QED BY <1>1, <1>2, <1>3

LEMMA LogicXors ==
  ASSUME LogicRuns, LogicPoint, reg.pc \in {44, 46, 48}
  PROVE  LogicInv'
<1>1. CASE reg.pc = 44
  <2>1. /\ Proceeds(46) /\ memory' = memory
        /\ reg'.a = Arithmetic("lda", reg.a, memory[17]).out
    <3>1. At120(44) /\ memory[44] = 150 /\ memory[44 + 1] = 17 /\ 46 = 44 + 2
      BY <1>1, LogicFacts DEF LogicBytes
    <3> QED BY <3>1, DirectStep
  <2>2. Arithmetic("lda", reg.a, memory[17]) = Logic8(reg.cc, memory[17])
    BY Zenon DEF Arithmetic
  <2>3. reg'.a = memory[17]
    BY <2>1, <2>2, LogicFacts, LogicFlags DEF LogicBytes
  <2>4. LogicPoint'
    BY <1>1, <2>1, <2>3 DEF LogicPoint, Proceeds
  <2> QED BY <1>1, <2>1, <2>4, LogicArrives DEF Proceeds
<1>2. CASE reg.pc = 46
  <2>1. /\ Proceeds(48) /\ memory' = memory
        /\ reg'.a = Arithmetic("eor", reg.a, memory[19]).out
    <3>1. At120(46) /\ memory[46] = 152 /\ memory[46 + 1] = 19 /\ 48 = 46 + 2
      BY <1>2, LogicFacts DEF LogicBytes
    <3> QED BY <3>1, DirectStep
  <2>2. /\ reg.a = memory[17]
        /\ Arithmetic("eor", reg.a, memory[19]) = Logic8(reg.cc, Xor8(reg.a, memory[19]))
    <3>1. reg.a = memory[17]
      BY <1>2 DEF LogicPoint
    <3>2. Arithmetic("eor", reg.a, memory[19]) = Logic8(reg.cc, Xor8(reg.a, memory[19]))
      BY Zenon DEF Arithmetic
    <3> QED BY <3>1, <3>2
  <2>3. reg'.a = Xor8(memory[17], memory[19])
    <3>1. Xor8(memory[17], memory[19]) \in Byte
      BY LogicFacts, BitsTypes DEF LogicBytes
    <3> QED BY <2>1, <2>2, <3>1, LogicFacts, LogicFlags
  <2>4. LogicPoint'
    BY <1>2, <2>1, <2>3 DEF LogicPoint, Proceeds
  <2> QED BY <1>2, <2>1, <2>4, LogicArrives DEF Proceeds
<1>3. CASE reg.pc = 48
  <2>1. Proceeds(50) /\ memory' = [memory EXCEPT ![22] = reg.a]
    <3>1. At120(48) /\ memory[48] = 151 /\ 22 = memory[48 + 1] /\ 22 \in Places /\ 50 = 48 + 2
      BY <1>3, LogicFacts DEF LogicBytes, Places
    <3> QED BY <3>1, StoreByteStep
  <2>2. /\ memory'[22] = reg.a /\ \A addr \in LogicProgram : memory'[addr] = memory[addr]
        /\ \A addr \in 20 .. 24 : addr # 22 => memory'[addr] = memory[addr]
    BY <2>1, LogicFacts DEF LogicProgram
  <2>3. memory'[17] = memory[17] /\ memory'[19] = memory[19]
    BY <2>2 DEF LogicProgram
  <2>4. LogicPoint'
    BY <1>3, <2>1, <2>2, <2>3 DEF LogicPoint, Proceeds
  <2>5. Proceeds(50)
    BY <2>1
  <2> QED BY <1>3, <2>2, <2>4, <2>5, LogicArrives DEF Proceeds
<1> QED BY <1>1, <1>2, <1>3

\* COM then INC is NEG, and what is added to itself is doubled.
LEMMA Negations ==
  ASSUME NEW cc \in Flags, NEW value \in Byte
  PROVE  /\ Com8(cc, value).out = 255 - value /\ 255 - value \in Byte
         /\ Inc8(cc, 255 - value).out = (0 - value) % 256
         /\ Neg8(cc, value).out = (0 - value) % 256 /\ (0 - value) % 256 \in Byte
<1>1. /\ Com8(cc, value).out = 255 - value /\ 255 - value \in Byte
  BY DEF Com8, Result, Byte
<1>2. Neg8(cc, value).out = (0 - value) % 256
  BY DEF Neg8, Result
<1>3. Inc8(cc, 255 - value).out = ((255 - value) + 1) % 256
  BY DEF Inc8, Result
<1>4. ((255 - value) + 1) % 256 = (0 - value) % 256 /\ (0 - value) % 256 \in Byte
  BY DEF Byte
<1> QED BY <1>1, <1>2, <1>3, <1>4

LEMMA Doubles ==
  ASSUME NEW cc, NEW value \in Byte, NEW n, n = (0 - value) % 256, NEW no \in BOOLEAN, ~no
  PROVE  Add8(cc, n, n, no).out = (-2 * value) % 256
<1>1. Add8(cc, n, n, no).out = (n + n + Bit(no)) % 256 /\ Bit(no) = 0
  BY DEF Add8, Result, Bit
<1>2. n = IF value = 0 THEN 0 ELSE 256 - value
  BY DEF Byte
<1>3. n \in Int /\ n + n + 0 = IF value = 0 THEN 0 ELSE 512 - (2 * value)
  BY <1>2 DEF Byte
<1>4. (-2 * value) % 256 = (IF value = 0 THEN 0 ELSE 512 - (2 * value)) % 256
  BY DEF Byte
<1> QED BY <1>1, <1>3, <1>4

LEMMA ComparesEqual ==
  ASSUME NEW cc \in Flags, NEW value \in Byte
  PROVE  Sub8(cc, value, value, FALSE).cc.z
<1>1. (value - value) % 256 = 0
  BY DEF Byte
<1> QED BY <1>1, Sub8Flags

LEMMA LogicNegates ==
  ASSUME LogicRuns, LogicPoint, reg.pc \in {50, 52, 53, 54, 55}
  PROVE  LogicInv'
<1>1. CASE reg.pc = 50
  <2>1. /\ Proceeds(52) /\ memory' = memory
        /\ reg'.b = Arithmetic("lda", reg.b, memory[17]).out
    <3>1. At120(50) /\ memory[50] = 214 /\ memory[50 + 1] = 17 /\ 52 = 50 + 2
      BY <1>1, LogicFacts DEF LogicBytes
    <3> QED BY <3>1, DirectStep
  <2>2. Arithmetic("lda", reg.b, memory[17]) = Logic8(reg.cc, memory[17])
    BY Zenon DEF Arithmetic
  <2>3. reg'.b = memory[17]
    BY <2>1, <2>2, LogicFacts, LogicFlags DEF LogicBytes
  <2>4. LogicPoint'
    BY <1>1, <2>1, <2>3 DEF LogicPoint, Proceeds
  <2> QED BY <1>1, <2>1, <2>4, LogicArrives DEF Proceeds
<1>2. CASE reg.pc = 52
  <2>1. /\ Proceeds(53) /\ memory' = memory /\ reg'.b = reg.b
        /\ reg'.a = Logic8(reg.cc, reg.b).out
    <3>1. At120(52) /\ memory[52] = 23 /\ 53 = 52 + 1
      BY <1>2, LogicFacts DEF LogicBytes
    <3> QED BY <3>1, BetweenStep
  <2>2. reg'.a = reg.b
    BY <2>1, LogicFacts, LogicFlags
  <2>3. LogicPoint'
    BY <1>2, <2>1, <2>2 DEF LogicPoint, Proceeds
  <2> QED BY <1>2, <2>1, <2>3, LogicArrives DEF Proceeds
<1>3. CASE reg.pc = 53
  <2>1. /\ Proceeds(54) /\ memory' = memory /\ reg'.b = reg.b
        /\ reg'.a = UnaryResult("com", reg.a).out
    <3>1. At120(53) /\ memory[53] = 67 /\ 54 = 53 + 1
      BY <1>3, LogicFacts DEF LogicBytes
    <3> QED BY <3>1, UnaryRegisterStep
  <2>2. UnaryResult("com", reg.a) = Com8(reg.cc, reg.a)
    BY DEF UnaryResult
  <2>3. reg'.a = 255 - reg.a
    BY <2>1, <2>2, LogicFacts, Negations
  <2>4. LogicPoint'
    BY <1>3, <2>1, <2>3 DEF LogicPoint, Proceeds
  <2> QED BY <1>3, <2>1, <2>4, LogicArrives DEF Proceeds
<1>4. CASE reg.pc = 54
  <2>1. /\ Proceeds(55) /\ memory' = memory /\ reg'.b = reg.b
        /\ reg'.a = UnaryResult("inc", reg.a).out
    <3>1. At120(54) /\ memory[54] = 76 /\ 55 = 54 + 1
      BY <1>4, LogicFacts DEF LogicBytes
    <3> QED BY <3>1, UnaryRegisterStep
  <2>2. UnaryResult("inc", reg.a) = Inc8(reg.cc, reg.a)
    BY DEF UnaryResult
  <2>3. reg.a = 255 - memory[17] /\ memory[17] \in Byte
    BY <1>4, LogicFacts DEF LogicPoint, LogicBytes
  <2>4. reg'.a = (0 - memory[17]) % 256
    BY <2>1, <2>2, <2>3, LogicFacts, Negations
  <2>5. LogicPoint'
    BY <1>4, <2>1, <2>4 DEF LogicPoint, Proceeds
  <2> QED BY <1>4, <2>1, <2>5, LogicArrives DEF Proceeds
<1>5. CASE reg.pc = 55
  <2>1. /\ Proceeds(56) /\ memory' = memory /\ reg'.a = reg.a
        /\ reg'.b = UnaryResult("neg", reg.b).out
    <3>1. At120(55) /\ memory[55] = 80 /\ 56 = 55 + 1
      BY <1>5, LogicFacts DEF LogicBytes
    <3> QED BY <3>1, UnaryRegisterStep
  <2>2. UnaryResult("neg", reg.b) = Neg8(reg.cc, reg.b)
    BY DEF UnaryResult
  <2>3. reg'.b = (0 - reg.b) % 256
    BY <2>1, <2>2, LogicFacts, Negations
  <2>4. LogicPoint'
    BY <1>5, <2>1, <2>3 DEF LogicPoint, Proceeds
  <2> QED BY <1>5, <2>1, <2>4, LogicArrives DEF Proceeds
<1> QED BY <1>1, <1>2, <1>3, <1>4, <1>5

LEMMA LogicDoubles ==
  ASSUME LogicRuns, LogicPoint, reg.pc \in {56, 57, 62}
  PROVE  LogicInv'
<1> DEFINE n == (0 - memory[17]) % 256
<1>1. reg.b = n /\ reg.a = n /\ n \in Byte
  <2>1. reg.b = n /\ reg.a = n
    BY DEF LogicPoint
  <2> QED BY <2>1, LogicFacts
<1>0. /\ memory[20] = And8(memory[17], memory[19]) /\ memory[21] = Or8(memory[17], memory[19])
      /\ memory[22] = Xor8(memory[17], memory[19])
  BY DEF LogicPoint
<1>2. CASE reg.pc = 56
  <2>1. /\ Proceeds(57) /\ memory' = memory /\ reg'.b = reg.b /\ reg'.a = reg.a
        /\ reg'.cc = Sub8(reg.cc, reg.a, reg.b, FALSE).cc
    <3>1. At120(56) /\ memory[56] = 17 /\ 57 = 56 + 1
      BY <1>2, LogicFacts DEF LogicBytes
    <3> QED BY <3>1, BetweenStep
  <2>2. reg'.cc.z
    <3>1. reg.cc \in Flags /\ n \in Byte
      BY <1>1, LogicFacts
    <3> HIDE DEF n
    <3> QED BY <1>1, <2>1, <3>1, ComparesEqual, Zenon
  <2>3. LogicPoint'
    <3>1. reg'.b = n /\ reg'.a = n /\ reg'.pc = 57
      BY <1>1, <2>1 DEF Proceeds
    <3> QED BY <1>0, <2>1, <2>2, <3>1 DEF LogicPoint
  <2> QED BY <1>2, <2>1, <2>3, LogicArrives DEF Proceeds
<1>3. CASE reg.pc = 57
  <2>1. reg.cc.z
    BY <1>3 DEF LogicPoint
  <2>2. /\ Proceeds(62) /\ memory' = memory /\ reg'.b = reg.b /\ reg'.a = reg.a
    <3>1. At120(57) /\ memory[57] = 39 /\ memory[57 + 1] = 3
      BY <1>3, LogicFacts DEF LogicBytes
    <3>2. Taken(reg.cc, RowOfBranches[memory[57] - 31])
      BY <2>1, <3>1 DEF Taken, RowOfBranches
    <3>3. 62 \in 0 .. 120 /\ (62 - 57 - 2) % 256 = 3 /\ memory[57] \in 32 .. 47 /\ memory[57] # 33
      BY <3>1
    <3> QED BY <3>1, <3>2, <3>3, BranchStep
  <2>3. LogicPoint'
    BY <1>3, <2>2 DEF LogicPoint, Proceeds
  <2> QED BY <1>3, <2>2, <2>3, LogicArrives DEF Proceeds
<1>4. CASE reg.pc = 62
  <2>1. /\ Proceeds(63) /\ memory' = memory
        /\ reg'.a = Add8(reg.cc, reg.a, reg.b, FALSE).out
    <3>1. At120(62) /\ memory[62] = 27 /\ 63 = 62 + 1
      BY <1>4, LogicFacts DEF LogicBytes
    <3> QED BY <3>1, BetweenStep
  <2>2. memory[17] \in Byte /\ reg.cc \in Flags
    BY LogicFacts DEF LogicBytes
  <2> DEFINE no == FALSE
  <2>3. reg'.a = Add8(reg.cc, n, n, no).out /\ no \in BOOLEAN /\ ~no
    <3> HIDE DEF n
    <3> QED BY <1>1, <2>1
  <2>4. reg'.a = (-2 * memory[17]) % 256
    <3>1. n = (0 - memory[17]) % 256
      OBVIOUS
    <3> HIDE DEF n, no
    <3> QED BY <2>2, <2>3, <3>1, Doubles
  <2>5. LogicPoint'
    BY <1>0, <2>1, <2>4 DEF LogicPoint, Proceeds
  <2> QED BY <1>4, <2>1, <2>5, LogicArrives DEF Proceeds
<1> QED BY <1>2, <1>3, <1>4

LEMMA LogicHalts ==
  ASSUME LogicRuns, LogicPoint, reg.pc \in {63, 65}
  PROVE  LogicInv'
<1>1. CASE reg.pc = 63
  <2>1. Proceeds(65) /\ memory' = [memory EXCEPT ![24] = reg.a]
    <3>1. At120(63) /\ memory[63] = 151 /\ 24 = memory[63 + 1] /\ 24 \in Places /\ 65 = 63 + 2
      BY <1>1, LogicFacts DEF LogicBytes, Places
    <3> QED BY <3>1, StoreByteStep
  <2>2. /\ memory'[24] = reg.a /\ \A addr \in LogicProgram : memory'[addr] = memory[addr]
        /\ \A addr \in 20 .. 24 : addr # 24 => memory'[addr] = memory[addr]
    BY <2>1, LogicFacts DEF LogicProgram
  <2>3. memory'[17] = memory[17] /\ memory'[19] = memory[19]
    BY <2>2 DEF LogicProgram
  <2>4. LogicPoint'
    BY <1>1, <2>1, <2>2, <2>3 DEF LogicPoint, Proceeds
  <2>5. Proceeds(65)
    BY <2>1
  <2> QED BY <1>1, <2>2, <2>4, <2>5, LogicArrives DEF Proceeds
<1>2. CASE reg.pc = 65
  <2>1. Proceeds(65) /\ memory' = memory
    <3>1. At120(65) /\ memory[65] = 32 /\ memory[65 + 1] = 254
      BY <1>2, LogicFacts DEF LogicBytes
    <3> QED BY <3>1, HaltStep
  <2>2. LogicPoint'
    BY <1>2, <2>1 DEF LogicPoint, Proceeds
  <2> QED BY <1>2, <2>1, <2>2, LogicArrives DEF Proceeds
<1> QED BY <1>1, <1>2

LEMMA LogicStep ==
  ASSUME ProgramCellsExist, CpuTypeOK, LogicInv, task.name = "logic", DoesLogic(task), CpuNext
  PROVE  LogicInv'
<1>1. CASE StopsInLoop
  <2>1. LogicPoint /\ UNCHANGED <<reg, memory, lastpc, task>> /\ reg.pc = lastpc
    BY <1>1 DEF StopsInLoop, LogicInv
  <2>2. LogicPoint'
    BY <2>1 DEF LogicPoint
  <2> QED BY <1>1, <2>1, <2>2 DEF StopsInLoop, LogicInv
<1>2. CASE Runs
  <2>1. LogicBytes
    BY LogicCode DEF LogicInv, LogicProgram, LogicBytes
  <2>2. LogicRuns /\ LogicPoint
    BY <1>2, <2>1 DEF LogicRuns, LogicInv
  <2>3. \/ reg.pc \in {32, 34, 36} \/ reg.pc \in {38, 40, 42} \/ reg.pc \in {44, 46, 48}
        \/ reg.pc \in {50, 52, 53, 54, 55} \/ reg.pc \in {56, 57, 62} \/ reg.pc \in {63, 65}
    BY <2>2 DEF LogicPoint
  <2> QED BY <2>2, <2>3, LogicAnds, LogicOrs, LogicXors, LogicNegates, LogicDoubles, LogicHalts
<1> QED BY <1>1, <1>2, RunsOrStops

LEMMA LogicEnds ==
  ASSUME CpuTypeOK, LogicInv, \A t \in Tasks : t.name = "logic" => DoesLogic(t)
  PROVE  LogicIsConsistent
<1> SUFFICES ASSUME Ended("logic")
             PROVE  LogicIsConsistent
  BY DEF LogicIsConsistent
<1>1. /\ status = "stopped" /\ task.name = "logic" /\ task \in Tasks /\ reg.pc = 65
      /\ LogicPoint /\ \A addr \in LogicProgram : memory[addr] = task.memory[addr]
  BY DEF Ended, LogicInv, CpuTypeOK
<1>2. /\ memory[17] = task.l /\ memory[19] = task.r /\ task.l \in Byte /\ task.r \in Byte
  BY <1>1, LogicCode DEF LogicProgram
<1>3. /\ memory[20] = And8(task.l, task.r) /\ memory[21] = Or8(task.l, task.r)
      /\ memory[22] = Xor8(task.l, task.r) /\ memory[24] = (-2 * task.l) % 256
  BY <1>1, <1>2 DEF LogicPoint
<1> QED BY <1>1, <1>2, <1>3, BitsAgree DEF LogicIsConsistent

\* AND, OR and EOR of any two bytes agree with each other and with addition, and COM
\* then INC is NEG: the branch over CLR is always taken.
THEOREM LogicComputes ==
  ASSUME ProgramCellsExist, \A t \in Tasks : t.name = "logic" => DoesLogic(t)
  PROVE  CpuSpec => []LogicIsConsistent
<1>1. CpuInit => LogicInv
  <2> SUFFICES ASSUME CpuInit, task.name = "logic"
               PROVE  LogicInv
    BY DEF LogicInv
  <2>1. DoesLogic(task)
    BY DEF CpuInit
  <2>2. task.registers = PowerUp /\ LogicProgram \subseteq DOMAIN task.memory
    BY <2>1, LogicCode
  <2>3. LogicProgram \subseteq Cells
    BY DEF ProgramCellsExist, LogicProgram
  <2> HIDE DEF CpuInit
  <2>4. /\ \A addr \in LogicProgram : memory[addr] = task.memory[addr]
        /\ reg.pc = 32 /\ lastpc # 32 /\ status = "running"
    BY <2>2, <2>3, TaskStarts
  <2> QED BY <2>4 DEF LogicInv, LogicPoint
<1>2. CpuTypeOK /\ LogicInv /\ [CpuNext]_cpuVars => LogicInv'
  <2> SUFFICES ASSUME CpuTypeOK, LogicInv, [CpuNext]_cpuVars
               PROVE  LogicInv'
    OBVIOUS
  <2>1. CASE CpuNext /\ task.name = "logic"
    <3>1. DoesLogic(task)
      BY <2>1 DEF CpuTypeOK
    <3> QED BY <2>1, <3>1, LogicStep
  <2>2. CASE CpuNext /\ task.name # "logic"
    BY <2>2, TaskStays DEF LogicInv
  <2>3. CASE UNCHANGED cpuVars
    <3>1. LogicPoint => LogicPoint'
      BY <2>3 DEF LogicPoint, cpuVars
    <3> QED BY <2>3, <3>1 DEF LogicInv, cpuVars
  <2> QED BY <2>1, <2>2, <2>3
<1>3. CpuTypeOK /\ LogicInv => LogicIsConsistent
  BY LogicEnds
<1>4. CpuSpec => []CpuTypeOK
  BY CpuTypeCorrect
<1> QED BY <1>1, <1>2, <1>3, <1>4, PTL DEF CpuSpec

-----------------------------------------------------------------------------
(* The programs together.                                                  *)

\* The programs that compute are those of Cpu6800Programs, with any operands.
TasksAsWritten ==
  \A t \in Tasks :
    /\ t.name = "word" => AddsWords(t)
    /\ t.name = "decimal" => AddsDecimals(t)
    /\ t.name = "shift" => ShiftsWords(t)
    /\ t.name = "logic" => DoesLogic(t)
    /\ t.name = "copy" => CopiesBytes(t)

\* The five programs that compute do so for every operand, whatever other programs
\* Tasks holds: words, decimal numbers, shifts, logical operations and copies.
THEOREM EveryProgramComputes ==
  ASSUME ProgramCellsExist, TasksAsWritten
  PROVE  CpuSpec => []ProgramsCompute
<1>1. CpuSpec => []WordsAddAndSubtract
  BY WordsCompute DEF TasksAsWritten
<1>2. CpuSpec => []DecimalsAdd
  BY DecimalsCompute DEF TasksAsWritten
<1>3. CpuSpec => []WordsShift
  BY ShiftsCompute DEF TasksAsWritten
<1>4. CpuSpec => []LogicIsConsistent
  BY LogicComputes DEF TasksAsWritten
<1>5. CpuSpec => []LoopsCopy
  BY LoopsCopyBytes DEF TasksAsWritten
<1>6. WordsAddAndSubtract /\ DecimalsAdd /\ WordsShift /\ LogicIsConsistent /\ LoopsCopy
        => ProgramsCompute
  BY DEF ProgramsCompute
<1> QED BY <1>1, <1>2, <1>3, <1>4, <1>5, <1>6, PTL
=============================================================================
