-------------------------- MODULE Cpu6800Programs --------------------------
(***************************************************************************)
(* What programs of several instructions rely on the emulated 6800 for.    *)
(* Every program starts at $20 and ends in a branch to itself; words lie   *)
(* at $10 and the bytes after it.                                          *)
(***************************************************************************)
EXTENDS Cpu6800

Start == 32
Halt == <<32, 254>>  \* BRA *

\* Bytes at an address and after it.
At(address, bytes) == [a \in address .. address + Len(bytes) - 1 |-> bytes[a - address + 1]]

\* What the first holds, and the second elsewhere.
Over(first, second) ==
  [a \in DOMAIN first \cup DOMAIN second |->
     IF a \in DOMAIN first THEN first[a] ELSE second[a]]

ClearFlags == FromByte(0)
PowerUp == [a |-> 0, b |-> 0, x |-> 0, sp |-> 15, pc |-> Start, cc |-> ClearFlags]

Task(name, l, r, code) ==
  [name |-> name, l |-> l, r |-> r, branch |-> "none", registers |-> PowerUp,
   memory |-> Over(Over(At(Start, code), At(Start + Len(code), Halt)),
                  Over(At(16, Bytes16(l)), At(18, Bytes16(r))))]

\* Operands at the boundaries of bytes, words and decimal digits.
ComparedBytes == {0, 1, 2, 85, 126, 127, 128, 129, 170, 254, 255}
AddedWords == {0, 1, 127, 128, 255, 256, 32767, 32768, 33023, 65280, 65535}
DecimalBytes == {0, 9, 69, 80, 86, 144, 153}
ShiftedWords == AddedWords \cup {2, 257, 21930, 43605}
SavedRegisters ==
  {[a |-> 18, b |-> 52, x |-> x, sp |-> sp, pc |-> 0, cc |-> FromByte(cc)] :
     x \in {0, 22136}, sp \in {15, 3}, cc \in {0, 1, 16, 44, 63, 255}}

ProgramCells == 0 .. 127 \cup 65520 .. 65535

-----------------------------------------------------------------------------
\* LDAA $11 / CMPA $13 / Bxx +2 / BRA * / LDAB #1
CompareTasks(bytes) ==
  {[Task("compare", l, r, <<150, 17, 145, 19, 31 + i, 2, 32, 254, 198, 1>>)
      EXCEPT !.branch = RowOfBranches[i]] :
     l \in bytes, r \in bytes, i \in DOMAIN RowOfBranches \ {2}}

\* LDAA $11 / ADDA $13 / STAA $15 / LDAA $10 / ADCA $12 / PSHA / TPA / STAA $18 /
\* PULA / STAA $14 / LDX #$10 / LDAB 1,X / SUBB 3,X / STAB 7,X / LDAB 0,X /
\* SBCB 2,X / STAB 6,X
WordTasks(words) ==
  {Task("word", l, r, <<150, 17, 155, 19, 151, 21, 150, 16, 153, 18, 54, 7, 151, 24,
                        50, 151, 20, 206, 0, 16, 230, 1, 224, 3, 231, 7, 230, 0,
                        226, 2, 231, 6>>) : l \in words, r \in words}

\* LDAA $11 / ADDA $13 / DAA / STAA $15 / LDAA $10 / ADCA $12 / DAA / STAA $14
DecimalTasks(bytes) ==
  {Task("decimal", (256 * h) + l, (256 * k) + m,
        <<150, 17, 155, 19, 25, 151, 21, 150, 16, 153, 18, 25, 151, 20>>) :
     h \in bytes, l \in bytes, k \in bytes, m \in bytes}

\* LDS $10 / STS $14 / LSR $0014 / ROR $0015 / ASR $0010 / ROR $0011 / TPA /
\* STAA $18 / LDX #2 / ASL 17,X / ROL 16,X
ShiftTasks(words) ==
  {Task("shift", l, l, <<158, 16, 159, 20, 116, 0, 20, 118, 0, 21, 119, 0, 16,
                         118, 0, 17, 7, 151, 24, 206, 0, 2, 104, 17, 105, 16>>) :
     l \in words}

\* LDAA $11 / ANDA $13 / STAA $14 / LDAA $11 / ORAA $13 / STAA $15 / LDAA $11 /
\* EORA $13 / STAA $16 / LDAB $11 / TBA / COMA / INCA / NEGB / CBA / BEQ +3 /
\* CLR $0017 / ABA / STAA $18
LogicTasks(bytes) ==
  {Task("logic", l, r, <<150, 17, 148, 19, 151, 20, 150, 17, 154, 19, 151, 21,
                         150, 17, 152, 19, 151, 22, 214, 17, 23, 67, 76, 80, 17,
                         39, 3, 127, 0, 23, 27, 151, 24>>) :
     l \in bytes, r \in bytes}

\* SWI; the handler at $28 clears A, B and X, sets C and I, and calls the
\* routine at $40 by JSR ext, BSR and JSR idx: PSHA / PSHB / INX / COMB / PULB /
\* PULA / RTS.  Then RTI.
CallTask(saved) ==
  [Task("call", 0, 0, <<63>>) EXCEPT
     !.registers = [saved EXCEPT !.pc = Start],
     !.memory =
       Over(Over(@, At(40, <<79, 95, 206, 0, 0, 13, 15, 189, 0, 64, 141, 12, 173, 62, 59>>)),
            Over(At(64, <<54, 55, 8, 83, 51, 50, 57>>), At(65530, <<0, 40>>)))]

CallTasks(registers) == {CallTask(saved) : saved \in registers}

\* LDX #$10 / loop: LDAA 0,X / STAA 8,X / INX / CPX #$10+n / BNE loop / STX $1C /
\* JMP $0036
CopyTask(l, r, n) ==
  [Task("copy", l, r, <<206, 0, 16, 166, 0, 167, 8, 8, 140, 0, 16 + n, 38, 246,
                        223, 28, 126, 0, 54>>) EXCEPT
     !.branch = n, !.memory = Over(@, At(54, Halt))]

CopyTasks(words) == {CopyTask(l, r, n) : l \in words, r \in words, n \in 1 .. 4}

\* WAI and $21, which the emulator does not implement.
UnimplementedTasks == {Task("unimplemented", 0, 0, <<1, code>>) : code \in {33, 62}}

AllTasks ==
  CompareTasks(ComparedBytes) \cup WordTasks(AddedWords) \cup DecimalTasks(DecimalBytes)
    \cup ShiftTasks(ShiftedWords) \cup LogicTasks(ComparedBytes) \cup CallTasks(SavedRegisters)
    \cup CopyTasks({4660, 22136}) \cup UnimplementedTasks

-----------------------------------------------------------------------------
Ended(name) == task.name = name /\ status # "running"
WordAt(addr) == (256 * memory[addr]) + memory[addr + 1]
Signed16(w) == IF w >= 32768 THEN w - 65536 ELSE w
SignedWords == -32768 .. 32767

\* A compare and a conditional branch decide the relation of the operands the
\* branch is named for, unsigned and signed, at every boundary.
BranchesDecideRelations ==
  Ended("compare") =>
    status = "stopped" /\ (reg.b = 1 <=> Relation(task.branch, task.l, task.r))

\* ADD then ADC, and SUB then SBC, are the sum and the difference of words,
\* with the carry, overflow and sign of the whole word.
WordsAddAndSubtract ==
  Ended("word") =>
    /\ status = "stopped"
    /\ WordAt(20) = (task.l + task.r) % 65536
    /\ LET flags == FromByte(memory[24]) IN
         /\ flags.c = (task.l + task.r > 65535)
         /\ flags.v = (Signed16(task.l) + Signed16(task.r) \notin SignedWords)
         /\ flags.n = (WordAt(20) >= 32768)
    /\ WordAt(22) = (task.l - task.r) % 65536
    /\ reg.cc.c = (task.l < task.r)

Decimal(w) == (1000 * (w \div 4096)) + (100 * ((w \div 256) % 16))
                + (10 * ((w \div 16) % 16)) + (w % 16)

\* ADD or ADC followed by DAA adds packed decimal numbers of any length: the
\* half-carry and the carry of the byte below are not lost.
DecimalsAdd ==
  Ended("decimal") =>
    /\ status = "stopped"
    /\ Decimal(WordAt(20)) = (Decimal(task.l) + Decimal(task.r)) % 10000
    /\ reg.cc.c = (Decimal(task.l) + Decimal(task.r) >= 10000)

\* A shift followed by rotates through the carry shifts words: LSR halves,
\* ASR halves a signed word downwards, ASL doubles.
WordsShift ==
  Ended("shift") =>
    /\ status = "stopped"
    /\ WordAt(20) = task.l \div 2
    /\ WordAt(16) = (Signed16(task.l) \div 2) % 65536
    /\ FromByte(memory[24]).c = (task.l % 2 = 1)
    /\ WordAt(18) = (2 * task.l) % 65536
    /\ reg.cc.c = (task.l >= 32768)

\* AND, OR and EOR agree with each other and with addition, and COM then INC
\* is NEG.
LogicIsConsistent ==
  Ended("logic") =>
    LET l == task.l  r == task.r IN
      /\ status = "stopped"
      /\ memory[20] + memory[21] = l + r
      /\ memory[21] - memory[20] = memory[22]
      /\ memory[24] = (-2 * l) % 256

\* Whatever a SWI handler and the routines it calls do, RTI returns to the
\* instruction after the SWI with every register and flag as it was, also
\* when the stack wraps around the end of memory.
InterruptsRestore ==
  Ended("call") => status = "stopped" /\ reg = [task.registers EXCEPT !.pc = Start + 1]

\* An indexed copy loop moves as many bytes as it was told to.
LoopsCopy ==
  Ended("copy") =>
    /\ status = "stopped"
    /\ \A i \in 0 .. 3 : memory[24 + i] = IF i < task.branch THEN memory[16 + i] ELSE 0
    /\ WordAt(28) = 16 + task.branch

\* Programs of several instructions compute what they are written for: the
\* carry, half-carry and index of one instruction are what the next needs.
ProgramsCompute ==
  /\ WordsAddAndSubtract
  /\ DecimalsAdd
  /\ WordsShift
  /\ LogicIsConsistent
  /\ LoopsCopy

\* Every program ends: in its last loop, or in an exception when it uses
\* what the emulator does not implement.
ProgramsEnd ==
  <>(status = "stopped" \/ (status = "failed" /\ task.name = "unimplemented"))
=============================================================================
