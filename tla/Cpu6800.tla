------------------------------- MODULE Cpu6800 -------------------------------
(***************************************************************************)
(* The emulated 6800 (cpu/*.cpp, gen/cpu_operations.csv): fetch, decode,   *)
(* addressing modes, every instruction, and the loop detection of run()    *)
(* that ends a program.  The bus is a set of memory cells; other addresses *)
(* read $FF and ignore stores, as Machine does where nothing answers.      *)
(***************************************************************************)
EXTENDS Cpu6800Alu, Sequences

CONSTANTS Cells,  \* the addresses that hold a byte
          Tasks   \* programs: what the cells and the registers hold at the start

ASSUME CpuAssumption == Cells \subseteq Word

VARIABLES reg,      \* Cpu::State
          memory,   \* the cells
          lastpc,   \* of run()
          status,   \* "running", "stopped" by a loop, "failed" by unimplemented()
          task      \* history: what was started

cpuVars == <<reg, memory, lastpc, status, task>>

Registers == [a : Byte, b : Byte, x : Word, sp : Word, pc : Word, cc : Flags]

ASSUME TasksAssumption ==
  \A t \in Tasks : /\ t.registers \in Registers
                   /\ \A addr \in DOMAIN t.memory : t.memory[addr] \in Byte

\* Cpu::reset() with the registers the task starts from.
CpuInit ==
  /\ task \in Tasks
  /\ reg = task.registers
  /\ memory = [addr \in Cells |-> IF addr \in DOMAIN task.memory THEN task.memory[addr] ELSE 0]
  /\ lastpc = 65535
  /\ status = "running"

-----------------------------------------------------------------------------
(* The bus and the fetch.                                                  *)

Add16(addr, n) == (addr + n) % 65536

ReadFrom(cells, addr) == IF addr \in Cells THEN cells[addr] ELSE 255
Read8(addr) == ReadFrom(memory, addr)
Read16(addr) == (256 * Read8(addr)) + Read8(Add16(addr, 1))

Write8(cells, addr, value) == IF addr \in Cells THEN [cells EXCEPT ![addr] = value] ELSE cells
Write16(cells, addr, value) ==
  Write8(Write8(cells, addr, value \div 256), Add16(addr, 1), value % 256)

Opcode == Read8(reg.pc)
Row == Opcode \div 16
Column == Opcode % 16
Argument8 == Read8(Add16(reg.pc, 1))
Argument16 == Read16(Add16(reg.pc, 1))

\* Where the next instruction is.
After(mode) == Add16(reg.pc, CASE mode = "inh" -> 1
                                [] mode \in {"imb", "dir", "idx", "rel"} -> 2
                                [] mode \in {"imw", "ext"} -> 3)

\* resolve_operand_addr
Address(mode) ==
  CASE mode = "dir" -> Argument8
    [] mode = "idx" -> Add16(reg.x, Argument8)
    [] mode = "ext" -> Argument16

Operand8(mode) == IF mode = "imb" THEN Argument8 ELSE Read8(Address(mode))
Operand16(mode) == IF mode = "imw" THEN Argument16 ELSE Read16(Address(mode))

\* The modes of the rows 8 to F, for bytes and for words.
ByteMode == <<"imb", "dir", "idx", "ext">>[(Row % 4) + 1]
WordMode == <<"imw", "dir", "idx", "ext">>[(Row % 4) + 1]
UnaryMode == <<"inha", "inhb", "idx", "ext">>[(Row % 4) + 1]

\* A stack of bytes below SP, which wraps.  Pushed(cells, sp, <<b1, .., bn>>)
\* holds b1 on top.
Pushed(cells, sp, bytes) ==
  [addr \in Cells |->
     LET depth == Add16(addr, -Add16(sp, -Len(bytes))) IN
       IF depth \in 1 .. Len(bytes) THEN bytes[depth] ELSE cells[addr]]

Popped(n) == Read8(Add16(reg.sp, n))
Popped16(n) == (256 * Popped(n)) + Popped(n + 1)
Bytes16(value) == <<value \div 256, value % 256>>

-----------------------------------------------------------------------------
(* The instructions.                                                       *)

\* run() steps the CPU unless the last instruction branched to itself.
Runs == status = "running" /\ reg.pc # lastpc

Executes(registers, cells) ==
  /\ Runs
  /\ reg' = registers
  /\ memory' = cells
  /\ lastpc' = reg.pc
  /\ UNCHANGED <<status, task>>

AccumulatorNames ==
  [column \in {0, 1, 2, 4, 5, 6, 8, 9, 10, 11} |->
     CASE column = 0 -> "sub" [] column = 1 -> "cmp" [] column = 2 -> "sbc"
       [] column = 4 -> "and" [] column = 5 -> "bit" [] column = 6 -> "lda"
       [] column = 8 -> "eor" [] column = 9 -> "adc" [] column = 10 -> "ora"
       [] column = 11 -> "add"]

Accumulator == IF Row < 12 THEN "a" ELSE "b"

\* Mutant: SBC takes no borrow.
ArithmeticNoBorrow(name, lhs, rhs) ==
  CASE name = "add" -> Add8(reg.cc, lhs, rhs, FALSE)
    [] name = "adc" -> Add8(reg.cc, lhs, rhs, reg.cc.c)
    [] name \in {"sub", "cmp", "sbc"} -> Sub8(reg.cc, lhs, rhs, FALSE)
    [] name \in {"and", "bit"} -> Logic8(reg.cc, And8(lhs, rhs))
    [] name = "ora" -> Logic8(reg.cc, Or8(lhs, rhs))
    [] name = "eor" -> Logic8(reg.cc, Xor8(lhs, rhs))
    [] name = "lda" -> Logic8(reg.cc, rhs)

Arithmetic(name, lhs, rhs) ==
  CASE name = "add" -> Add8(reg.cc, lhs, rhs, FALSE)
    [] name = "adc" -> Add8(reg.cc, lhs, rhs, reg.cc.c)
    [] name \in {"sub", "cmp"} -> Sub8(reg.cc, lhs, rhs, FALSE)
    [] name = "sbc" -> Sub8(reg.cc, lhs, rhs, reg.cc.c)
    [] name \in {"and", "bit"} -> Logic8(reg.cc, And8(lhs, rhs))
    [] name = "ora" -> Logic8(reg.cc, Or8(lhs, rhs))
    [] name = "eor" -> Logic8(reg.cc, Xor8(lhs, rhs))
    [] name = "lda" -> Logic8(reg.cc, rhs)

AccumulatorOp ==
  /\ Row >= 8 /\ Column \in DOMAIN AccumulatorNames
  /\ LET name == AccumulatorNames[Column]
         r == Arithmetic(name, reg[Accumulator], Operand8(ByteMode)) IN
       Executes([reg EXCEPT ![Accumulator] = IF name \in {"cmp", "bit"} THEN @ ELSE r.out,
                            !.cc = r.cc, !.pc = After(ByteMode)], memory)

\* op_staa, op_stab
StoreByte ==
  /\ Row \in {9, 10, 11, 13, 14, 15} /\ Column = 7
  /\ Executes([reg EXCEPT !.cc = Logic8(reg.cc, reg[Accumulator]).cc, !.pc = After(ByteMode)],
              Write8(memory, Address(ByteMode), reg[Accumulator]))

WordRegister == IF Row < 12 THEN "sp" ELSE "x"

LoadWord ==
  /\ Row >= 8 /\ Column = 14
  /\ LET r == Logic16(reg.cc, Operand16(WordMode)) IN
       Executes([reg EXCEPT ![WordRegister] = r.out, !.cc = r.cc, !.pc = After(WordMode)], memory)

StoreWord ==
  /\ Row \in {9, 10, 11, 13, 14, 15} /\ Column = 15
  /\ Executes([reg EXCEPT !.cc = Logic16(reg.cc, reg[WordRegister]).cc, !.pc = After(WordMode)],
              Write16(memory, Address(WordMode), reg[WordRegister]))

ComparesX ==
  /\ Row \in 8 .. 11 /\ Column = 12
  /\ Executes([reg EXCEPT !.cc = CompareX(reg.cc, reg.x, Operand16(WordMode)),
                          !.pc = After(WordMode)], memory)

UnaryNames ==
  [column \in {0, 3, 4, 6, 7, 8, 9, 10, 12, 13, 15} |->
     CASE column = 0 -> "neg" [] column = 3 -> "com" [] column = 4 -> "lsr"
       [] column = 6 -> "ror" [] column = 7 -> "asr" [] column = 8 -> "asl"
       [] column = 9 -> "rol" [] column = 10 -> "dec" [] column = 12 -> "inc"
       [] column = 13 -> "tst" [] column = 15 -> "clr"]

UnaryResult(name, value) ==
  CASE name = "neg" -> Neg8(reg.cc, value) [] name = "com" -> Com8(reg.cc, value)
    [] name = "dec" -> Dec8(reg.cc, value) [] name = "inc" -> Inc8(reg.cc, value)
    [] name = "tst" -> Test8(reg.cc, value) [] name = "clr" -> Clear8(reg.cc)
    [] name \in {"lsr", "ror", "asr", "asl", "rol"} -> Shift8(reg.cc, value, name)

UnaryRegister ==
  /\ Row \in {4, 5} /\ Column \in DOMAIN UnaryNames
  /\ LET acc == IF Row = 4 THEN "a" ELSE "b"
         r == UnaryResult(UnaryNames[Column], reg[acc]) IN
       Executes([reg EXCEPT ![acc] = r.out, !.cc = r.cc, !.pc = After("inh")], memory)

UnaryMemory ==
  /\ Row \in {6, 7} /\ Column \in DOMAIN UnaryNames
  /\ LET r == UnaryResult(UnaryNames[Column], Read8(Address(UnaryMode))) IN
       Executes([reg EXCEPT !.cc = r.cc, !.pc = After(UnaryMode)],
                IF UnaryNames[Column] = "tst" THEN memory
                  ELSE Write8(memory, Address(UnaryMode), r.out))

\* The branches of row 2 in the order of their opcodes; $21 is none.
RowOfBranches == <<"bra", "none", "bhi", "bls", "bcc", "bcs", "bne", "beq",
                   "bvc", "bvs", "bpl", "bmi", "bge", "blt", "bgt", "ble">>

\* Mutant: the offset counts from the branch.
TargetFromOpcode == Add16(reg.pc, Signed(Argument8))

RelativeTarget == Add16(After("rel"), Signed(Argument8))

Branches ==
  /\ Row = 2 /\ RowOfBranches[Column + 1] # "none"
  /\ Executes([reg EXCEPT !.pc = IF Taken(reg.cc, RowOfBranches[Column + 1])
                                   THEN RelativeTarget ELSE After("rel")], memory)

Jumps ==
  /\ Opcode \in {110, 126}
  /\ Executes([reg EXCEPT !.pc = Address(UnaryMode)], memory)

\* op_bsr, and do_jump(mode, true)
Calls ==
  /\ Opcode \in {141, 173, 189}
  /\ LET mode == IF Opcode = 141 THEN "rel" ELSE WordMode
         target == IF Opcode = 141 THEN RelativeTarget ELSE Address(mode) IN
       Executes([reg EXCEPT !.pc = target, !.sp = Add16(@, -2)],
                Pushed(memory, reg.sp, Bytes16(After(mode))))

ReturnsFromCall ==
  /\ Opcode = 57
  /\ Executes([reg EXCEPT !.pc = Popped16(1), !.sp = Add16(@, 2)], memory)

SwiVector == 65530

SoftwareInterrupt ==
  /\ Opcode = 63
  /\ LET cells == Pushed(memory, reg.sp,
                         <<ConditionCodes(reg.cc), reg.b, reg.a, reg.x \div 256, reg.x % 256,
                           After("inh") \div 256, After("inh") % 256>>) IN
       Executes([reg EXCEPT !.sp = Add16(@, -7), !.cc.i = TRUE,
                           !.pc = (256 * ReadFrom(cells, SwiVector))
                                    + ReadFrom(cells, SwiVector + 1)], cells)

\* Mutant: the accumulators come back in the order they were pushed.
InterruptReturnsSwapped ==
  /\ Opcode = 59
  /\ Executes([cc |-> FromByte(Popped(1)), b |-> Popped(3), a |-> Popped(2),
               x |-> Popped16(4), pc |-> Popped16(6), sp |-> Add16(reg.sp, 7)], memory)

ReturnsFromInterrupt ==
  /\ Opcode = 59
  /\ Executes([cc |-> FromByte(Popped(1)), b |-> Popped(2), a |-> Popped(3),
               x |-> Popped16(4), pc |-> Popped16(6), sp |-> Add16(reg.sp, 7)], memory)

Pushes ==
  /\ Opcode \in {54, 55}
  /\ Executes([reg EXCEPT !.sp = Add16(@, -1), !.pc = After("inh")],
              Pushed(memory, reg.sp, <<reg[IF Opcode = 54 THEN "a" ELSE "b"]>>))

Pulls ==
  /\ Opcode \in {50, 51}
  /\ Executes([reg EXCEPT ![IF Opcode = 50 THEN "a" ELSE "b"] = Popped(1),
                          !.sp = Add16(@, 1), !.pc = After("inh")], memory)

\* INX, DEX, TSX, TXS, INS and DES; only the first two set a flag.
IndexAndStack ==
  /\ Opcode \in {8, 9, 48, 49, 52, 53}
  /\ LET x == CASE Opcode = 8 -> Add16(reg.x, 1) [] Opcode = 9 -> Add16(reg.x, -1)
                [] Opcode = 48 -> Add16(reg.sp, 1) [] OTHER -> reg.x
         sp == CASE Opcode = 49 -> Add16(reg.sp, 1) [] Opcode = 52 -> Add16(reg.sp, -1)
                 [] Opcode = 53 -> Add16(reg.x, -1) [] OTHER -> reg.sp IN
       Executes([reg EXCEPT !.x = x, !.sp = sp, !.pc = After("inh"),
                            !.cc.z = IF Opcode \in {8, 9} THEN x = 0 ELSE @], memory)

\* SBA, CBA, TAB, TBA, DAA and ABA.
BetweenAccumulators ==
  /\ Opcode \in {16, 17, 22, 23, 25, 27}
  /\ LET r == CASE Opcode \in {16, 17} -> Sub8(reg.cc, reg.a, reg.b, FALSE)
                [] Opcode = 22 -> Logic8(reg.cc, reg.a)
                [] Opcode = 23 -> Logic8(reg.cc, reg.b)
                [] Opcode = 25 -> DecimalAdjust(reg.cc, reg.a)
                [] Opcode = 27 -> Add8(reg.cc, reg.a, reg.b, FALSE) IN
       Executes([reg EXCEPT !.a = IF Opcode \in {17, 22} THEN @ ELSE r.out,
                            !.b = IF Opcode = 22 THEN r.out ELSE @,
                            !.cc = r.cc, !.pc = After("inh")], memory)

\* NOP, TAP, TPA, and the instructions that clear or set V, C or I.
FlagsAndNop ==
  /\ Opcode \in {1} \cup 6 .. 7 \cup 10 .. 15
  /\ LET cc == CASE Opcode = 6 -> FromByte(reg.a)
                 [] Opcode \in {10, 11} -> [reg.cc EXCEPT !.v = (Opcode = 11)]
                 [] Opcode \in {12, 13} -> [reg.cc EXCEPT !.c = (Opcode = 13)]
                 [] Opcode \in {14, 15} -> [reg.cc EXCEPT !.i = (Opcode = 15)]
                 [] OTHER -> reg.cc IN
       Executes([reg EXCEPT !.a = IF Opcode = 7 THEN ConditionCodes(reg.cc) ELSE @,
                            !.cc = cc, !.pc = After("inh")], memory)

Instructions ==
  \/ AccumulatorOp \/ StoreByte \/ LoadWord \/ StoreWord \/ ComparesX
  \/ UnaryRegister \/ UnaryMemory \/ Branches \/ Jumps \/ Calls \/ ReturnsFromCall
  \/ SoftwareInterrupt \/ ReturnsFromInterrupt \/ Pushes \/ Pulls
  \/ IndexAndStack \/ BetweenAccumulators \/ FlagsAndNop

\* "loop detected"
StopsInLoop ==
  /\ status = "running" /\ reg.pc = lastpc
  /\ status' = "stopped"
  /\ UNCHANGED <<reg, memory, lastpc, task>>

\* gen/cpu_operations.csv: the opcodes of no instruction, and WAI.
Implemented(opcode) ==
  LET row == opcode \div 16  column == opcode % 16 IN
    \/ row >= 8 /\ column \in DOMAIN AccumulatorNames \cup {14}
    \/ row \in {9, 10, 11, 13, 14, 15} /\ column \in {7, 15}
    \/ row \in 8 .. 11 /\ column = 12
    \/ row \in 4 .. 7 /\ column \in DOMAIN UnaryNames
    \/ row = 2 /\ column # 1
    \/ opcode \in {1, 6, 7} \cup 8 .. 17 \cup {22, 23, 25, 27} \cup 48 .. 55
                    \cup {57, 59, 63, 110, 126, 141, 173, 189}

\* unimplemented() throws, and main() ends the run.
Unimplemented ==
  /\ Runs
  /\ ~Implemented(Opcode)
  /\ status' = "failed"
  /\ reg' = [reg EXCEPT !.pc = Add16(@, 1)]
  /\ UNCHANGED <<memory, lastpc, task>>

CpuNext == Instructions \/ StopsInLoop \/ Unimplemented

CpuSpec == CpuInit /\ [][CpuNext]_cpuVars /\ WF_cpuVars(CpuNext)
=============================================================================
