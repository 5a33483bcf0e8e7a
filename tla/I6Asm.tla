------------------------------- MODULE I6Asm --------------------------------
(***************************************************************************)
(* Inform 6: the assembler for version 3 of the Z-machine (asm.c).         *)
(*                                                                         *)
(* Instructions gather in a holding area as cells, bytes with a marker;    *)
(* branches are to label numbers until the end of the routine, when        *)
(* transfer_routine_z turns them into offsets, short where they can be,    *)
(* and moves the bytes to the code area.  Fields of this module:           *)
(*   code, bps   the code area, and what is to be backpatched in it        *)
(*   hold        the holding area                                          *)
(*   loff, lsym, nlab, lused  the labels: offset (-1: never placed), the   *)
(*               symbol that names it ("" none), the next free number and  *)
(*               the ones jumped to                                        *)
(*   dead        execution_never_reaches_here: {} reachable, else "here",  *)
(*               and "entire" when a whole statement is skipped            *)
(*   funcs       the routines compiled, for the removal of unused ones     *)
(* Marker VARIABLE, tracing, the debugging file and the messages about     *)
(* unused variables and labels are left out.                               *)
(***************************************************************************)
EXTENDS I6Text

zmachine_pc(c) == Len(c.code) + Len(c.hold)

\* Operands: t is the type (0 long constant, 1 short constant, 2 variable,
\* 3 omitted, 4 an expression tree), v the value, m the marker, s the symbol.
Long == 0
Short == 1
Variable == 2
Omitted == 3
Expression == 4

Operand(t, v) == [t |-> t, v |-> v, m |-> "NULL", s |-> ""]
VarOp(n) == Operand(Variable, n)
Const(v) == Operand(IF v \in 0 .. 255 THEN Short ELSE Long, v)
ShortConst(v) == Operand(Short, v)
LongConst(v) == Operand(Long, v)
set_constant_ot(o) == [o EXCEPT !.t = IF o.v \in 0 .. 255 THEN Short ELSE Long]
is_constant_ot(t) == t \in {Long, Short}
operands_identical(a, b) == a.v = b.v /\ a.t = b.t /\ a.m = b.m

sp == VarOp(0)
Temp1 == VarOp(255)
Temp2 == VarOp(254)
Temp3 == VarOp(253)
Temp4 == VarOp(252)

------------------------------------------------------------------------------
\* opcodes_table_z, the opcodes of version 3.

Numbered(names, first, form, top) ==
  [n \in ToSet(names) |->
     [form |-> form, code |-> top + first - 1 + (CHOOSE i \in DOMAIN names : names[i] = n)]]

opcodes_table_z ==
  Numbered(<< "je", "jl", "jg", "dec_chk", "inc_chk", "jin", "test", "or", "and",
              "test_attr", "set_attr", "clear_attr", "store", "insert_obj", "loadw",
              "loadb", "get_prop", "get_prop_addr", "get_next_prop", "add", "sub",
              "mul", "div", "mod" >>, 1, "TWO", 0)
  @@ Numbered(<< "call", "storew", "storeb", "put_prop", "sread", "print_char",
                 "print_num", "random", "push", "pull", "split_window",
                 "set_window" >>, 32, "VAR", 192)
  @@ Numbered(<< "output_stream", "input_stream", "sound_effect" >>, 51, "VAR", 192)
  @@ Numbered(<< "jz", "get_sibling", "get_child", "get_parent", "get_prop_len", "inc",
                 "dec", "print_addr" >>, 0, "ONE", 128)
  @@ Numbered(<< "remove_obj", "print_obj", "ret", "jump", "print_paddr", "load",
                 "not" >>, 9, "ONE", 128)
  @@ Numbered(<< "rtrue", "rfalse", "print", "print_ret", "nop", "save", "restore",
                 "restart", "ret_popped", "pop", "quit", "new_line", "show_status",
                 "verify" >>, 0, "ZERO", 176)

Stores == { "or", "and", "loadw", "loadb", "get_prop", "get_prop_addr", "get_next_prop",
            "add", "sub", "mul", "div", "mod", "call", "random", "get_sibling",
            "get_child", "get_parent", "get_prop_len", "load", "not" }
Branches == { "je", "jl", "jg", "dec_chk", "inc_chk", "jin", "test", "test_attr", "jz",
              "get_sibling", "get_child", "save", "restore", "verify" }
Ends == { "ret", "jump", "rtrue", "rfalse", "print_ret", "ret_popped", "quit" }
VariabRule == { "dec_chk", "inc_chk", "store", "pull", "inc", "dec", "load" }
TextRule == { "print", "print_ret" }

------------------------------------------------------------------------------
\* Labels.

set_label_offset(c, n, at) ==
  [c EXCEPT !.loff = (n :> at) @@ @, !.lsym = (n :> "") @@ @]

mark_label_used(c, n) == IF n < 0 THEN c ELSE [c EXCEPT !.lused = @ \cup {n}]

\* A label that nothing has jumped to is not placed in a statement that is
\* skipped as a whole.
assemble_label_no(c, n) ==
  IF n \notin c.lused /\ "entire" \in c.dead THEN set_label_offset(c, n, -1)
  ELSE [set_label_offset(c, n, zmachine_pc(c)) EXCEPT !.dead = {}]

\* A label that only later code could have jumped to: c.val, whether it is placed.
assemble_forward_label_no(c, n) ==
  IF n \in c.lused THEN [assemble_label_no(c, n) EXCEPT !.val = 1]
  ELSE [set_label_offset(c, n, -1) EXCEPT !.val = 0]

define_symbol_label(c, s) == [c EXCEPT !.lsym = (c.sym[s].v :> s) @@ @]

next_label(c) == [c EXCEPT !.nlab = @ + 1]

------------------------------------------------------------------------------
\* Instructions.

Cell(b) == [b |-> b, m |-> "NULL", short |-> FALSE]
Marked(b, m) == [b |-> b, m |-> m, short |-> FALSE]

write_operand(o) ==
  CASE o.t = Long     -> << Marked(o.v \div 256, o.m), Cell(o.v % 256) >>
    [] o.t = Short    -> << [b |-> o.v, m |-> o.m, short |-> o.m # "NULL"] >>
    [] o.t = Variable -> << Cell(o.v) >>
    [] OTHER          -> <<>>

TypeBits(args) ==
  LET T(i) == IF i <= Len(args) THEN args[i].t ELSE 3
  IN  T(1) * 64 + T(2) * 16 + T(3) * 4 + T(4)

\* The opcode and the operands.
Encoded(op, args) ==
  LET o == opcodes_table_z[op]
      form == IF o.form = "TWO" /\ Len(args) \in {3, 4} THEN "VAR" ELSE o.form
      top == IF form # o.form THEN 192 ELSE 0
      operands == Joined([i \in DOMAIN args |-> write_operand(args[i])])
  IN  CASE form = "ZERO" -> << Cell(o.code) >>
        [] form = "ONE" -> << Cell(o.code + args[1].t * 16) >> \o operands
        [] form = "VAR" -> << Cell(o.code + top), Cell(TypeBits(args)) >> \o operands
        [] form = "TWO" ->
             (IF args[1].t = Long \/ args[2].t = Long
                THEN << Cell(o.code + 192), Cell(args[1].t * 64 + args[2].t * 16 + 15) >>
                ELSE << Cell(o.code + (IF args[1].t = Variable THEN 64 ELSE 0)
                                    + (IF args[2].t = Variable THEN 32 ELSE 0)) >>)
             \o operands

BranchCells(label, flag) ==
  LET sense == IF flag THEN 128 ELSE 0
  IN  CASE label = -1 -> <<>>
        [] label = -2 -> << Cell(64 + 2) >>          \* nowhere, carry on
        [] label = -3 -> << Cell(sense + 64) >>      \* rfalse on condition
        [] label = -4 -> << Cell(sense + 64 + 1) >>  \* rtrue on condition
        [] OTHER -> << Marked(sense + label \div 256, "BRANCH"), Cell(label % 256) >>

RightArity(op, n) ==
  CASE opcodes_table_z[op].form = "ZERO" -> n = 0
    [] opcodes_table_z[op].form = "ONE"  -> n = 1
    [] opcodes_table_z[op].form = "TWO"  -> n \in 2 .. 4
    [] opcodes_table_z[op].form = "VAR"  -> n \in 0 .. 4

\* assemblez_instruction: i is [op, args, st, br, flag, text]; nothing is
\* assembled where execution never reaches.
assemblez_instruction(c, i) ==
  IF c.dead # {} THEN c
  ELSE IF i.op \notin DOMAIN opcodes_table_z THEN Error(c)
  ELSE LET d == [c EXCEPT !.dead = IF i.op \in Ends THEN {"here"} ELSE {}]
           used == mark_label_used(d, i.br)
       IN  CASE i.op = "jump" ->
                  [mark_label_used(d, i.args[1].v) EXCEPT
                     !.hold = @ \o << Cell(140), Marked(i.args[1].v \div 256, "LABEL"),
                                      Cell(i.args[1].v % 256) >>]
             [] i.op \in TextRule ->
                  LET e == Checked(Looked(d, FALSE), i.text)
                      bytes == Words(translate_text(e, i.text, FALSE))
                  IN  [e EXCEPT !.hold = @ \o << Cell(opcodes_table_z[i.op].code) >>
                                           \o [n \in DOMAIN bytes |-> Cell(bytes[n])]]
             [] i.op \notin TextRule \cup {"jump"} ->
                  IF ~ RightArity(i.op, Len(i.args)) THEN Error(d)
                  ELSE [used EXCEPT
                          !.hold = @ \o Encoded(i.op, i.args)
                                     \o (IF i.st = -1 THEN <<>> ELSE << Cell(i.st) >>)
                                     \o BranchCells(i.br, i.flag)]

Instruction(op, args) ==
  [op |-> op, args |-> args, st |-> -1, br |-> -1, flag |-> FALSE, text |-> <<>>]

\* Front ends.
assemblez(c, op, args) == assemblez_instruction(c, Instruction(op, args))

assemblez_to(c, op, args, st) ==
  assemblez_instruction(c, [Instruction(op, args) EXCEPT !.st = st.v])

assemblez_text(c, op, text) ==
  assemblez_instruction(c, [Instruction(op, <<>>) EXCEPT !.text = text])

assemblez_jump(c, n) ==
  CASE n = -4 -> assemblez(c, "rtrue", <<>>)
    [] n = -3 -> assemblez(c, "rfalse", <<>>)
    [] OTHER  -> assemblez(c, "jump", << LongConst(n) >>)

\* jz of a constant is a jump or nothing.
assemblez_branch(c, op, args, label, flag) ==
  IF op = "jz" /\ is_constant_ot(args[1].t) /\ args[1].m = "NULL"
  THEN IF flag = (args[1].v = 0) THEN assemblez_jump(c, label) ELSE c
  ELSE assemblez_instruction(c, [Instruction(op, args) EXCEPT !.br = label, !.flag = flag])

assemblez_objcode(c, op, o, st, label, flag) ==
  assemblez_instruction(c, [Instruction(op, << o >>) EXCEPT !.st = st.v, !.br = label,
                                                            !.flag = flag])

assemblez_inc(c, o) == assemblez(c, "inc", << ShortConst(o.v) >>)
assemblez_dec(c, o) == assemblez(c, "dec", << ShortConst(o.v) >>)

assemblez_store(c, to, from) ==
  IF from.t = Variable /\ from.v = 0 THEN assemblez(c, "pull", << ShortConst(to.v) >>)
  ELSE IF to.t = Variable /\ to.v = 0 THEN assemblez(c, "push", << from >>)
       ELSE assemblez(c, "store", << ShortConst(to.v), from >>)

------------------------------------------------------------------------------
\* Routines.

NoFunction == 0

df_note_function_start(c, name, embedded) ==
  [c EXCEPT !.funcs = Append(@, [name |-> name, at |-> zmachine_pc(c), len |-> 0,
                                 embedded |-> embedded]),
            !.dffun = Len(c.funcs) + 1,
            !.refs = (Len(c.funcs) + 1 :> {}) @@ @]

df_note_function_end(c) ==
  [c EXCEPT !.funcs[c.dffun].len = zmachine_pc(c) - c.funcs[c.dffun].at, !.dffun = NoFunction]

\* c.val is the packed address in the code area.
assemble_routine_header(c, name, embedded) ==
  LET n == Len(c.locals)
      d == df_note_function_start([c EXCEPT !.dead = {}], name, embedded)
  IN  [d EXCEPT !.val = zmachine_pc(c) \div 2, !.nlab = 0, !.lused = {},
                !.hold = @ \o << Cell(n) >> \o [i \in 1 .. 2 * n |-> Cell(0)]]

LabelIn(cells, i) == (256 * cells[i].b + cells[i + 1].b) % 32768

Offset(c, n) == IF n \in DOMAIN c.loff THEN c.loff[n] ELSE 0

\* Pass 1: a branch that reaches its label in the short form loses its second
\* byte, a jump to the next instruction goes, and a jump to a one-byte return
\* becomes that return.  The decisions are taken in the order of the bytes, by
\* the offsets before any byte has gone.
Shorten(c, cells, i) ==
  LET pc == Len(c.code) + i - 1
      to == Offset(c, LabelIn(cells, i))
      at == i + to - pc
      Returns == {176, 177, 184}
  IN  CASE cells[i].m = "BRANCH" ->
             IF to >= pc + 2 /\ to < pc + 64 THEN [cells EXCEPT ![i + 1].m = "DELETED"]
             ELSE cells
        [] cells[i].m = "LABEL" ->
             IF at \notin DOMAIN cells THEN cells
             ELSE IF to - pc = 2 /\ cells[i - 1].b = 140
                  THEN [cells EXCEPT ![i - 1].m = "DELETED", ![i].m = "DELETED",
                                     ![i + 1].m = "DELETED"]
             ELSE IF cells[at].b \in Returns
                  THEN [cells EXCEPT ![i - 1].b = cells[at].b, ![i].m = "DELETED",
                                     ![i + 1].m = "DELETED"]
                  ELSE cells
        [] OTHER -> cells

Shortened(c) ==
  Folded(LAMBDA cells, i : Shorten(c, cells, i), c.hold, [i \in DOMAIN c.hold |-> i])

\* Pass 2: the new address of each cell, and of the labels placed on them.
NewPcs(c, cells) ==
  Folded(LAMBDA pcs, cell : Append(pcs, Last(pcs) + IF cell.m = "DELETED" THEN 0 ELSE 1),
           << Len(c.code) >>, cells)

\* A mutant: the labels stay where they were before the bytes went.
LabelsStay(c, pcs) == c.loff

MoveLabels(c, pcs) ==
  LET start == Len(c.code)
  IN  [n \in DOMAIN c.loff |->
         IF c.loff[n] - start \in 0 .. Len(pcs) - 2 THEN pcs[c.loff[n] - start + 1]
         ELSE c.loff[n]]

\* Pass 3.  Where the label of cell i is, negative if it has never been placed.
Target(cells, labels, i) ==
  LET label == LabelIn(cells, i) IN IF label \in DOMAIN labels THEN labels[label] ELSE 0

IsLong(cells, i) == cells[i + 1].m # "DELETED"

\* The offset a branch or a jump is given; an error gives it 0.
Distance(cells, pcs, labels, i) ==
  LET to == Target(cells, labels, i)
  IN  CASE to < 0 -> 0
        [] to >= 0 /\ cells[i].m = "LABEL" -> to - pcs[i]
        [] OTHER -> to - pcs[i] + (IF IsLong(cells, i) THEN 0 ELSE 1)

\* The bytes of cell i.
Transfer(cells, pcs, labels, i) ==
  LET sense == IF cells[i].b >= 128 THEN 128 ELSE 0
      by == Distance(cells, pcs, labels, i) % 16384
      jump == Distance(cells, pcs, labels, i) % 65536
  IN  CASE cells[i].m = "BRANCH" ->
             IF IsLong(cells, i) THEN << sense + by \div 256, by % 256 >>
             ELSE << sense + 64 + (by % 64) >>
        [] cells[i].m = "LABEL" -> << jump \div 256, jump % 256 >>
        [] cells[i].m = "DELETED" \/ (i > 1 /\ cells[i - 1].m \in {"BRANCH", "LABEL"}) -> <<>>
        [] OTHER -> << cells[i].b % 256 >>

\* The errors: a label that cannot be reached, a routine too large for its
\* branches or jumps; and a short branch that has moved away from its label.
Misplaced(cells, pcs, labels) ==
  { i \in DOMAIN cells :
      /\ cells[i].m \in {"BRANCH", "LABEL"}
      /\ \/ Target(cells, labels, i) < 0
         \/ LET by == Distance(cells, pcs, labels, i)
            IN  IF cells[i].m = "BRANCH" THEN by < -8192 \/ by > 8191
                                         ELSE by < -32768 \/ by > 32767 }

ShortMissed(cells, pcs, labels) ==
  { i \in DOMAIN cells : /\ cells[i].m = "BRANCH" /\ ~ IsLong(cells, i)
                         /\ Distance(cells, pcs, labels, i) % 16384 >= 64 }

\* What the final addresses are not known of: the marker, whether the cell is
\* one byte, and where it is.
Backpatches(cells, pcs) ==
  LET places == { i \in DOMAIN cells :
                    cells[i].m \notin {"NULL", "ERROR", "OBJECT", "IDENT", "ACTION",
                                       "BRANCH", "LABEL", "DELETED"} }
      order == Ascending(places, Len(cells))
  IN  [n \in DOMAIN order |-> [m |-> cells[order[n]].m, short |-> cells[order[n]].short,
                               at |-> pcs[order[n]]]]

Padded(bytes) == IF Len(bytes) % 2 = 0 THEN bytes ELSE Append(bytes, 0)

transfer_routine_z(c) ==
  LET cells == Shortened(c)
      pcs == NewPcs(c, cells)
      labels == MoveLabels(c, pcs)
      bytes == Joined([i \in DOMAIN cells |-> Transfer(cells, pcs, labels, i)])
      wrong == Misplaced(cells, pcs, labels)
      missed == { i \in ShortMissed(cells, pcs, labels) :
                    c.err = 0 /\ \A earlier \in wrong : earlier > i }
  IN  [c EXCEPT !.err = @ + Cardinality(wrong), !.ice = @ + Cardinality(missed),
                !.code = Padded(@ \o bytes), !.bps = @ \o Backpatches(cells, pcs),
                !.hold = <<>>, !.loff = labels]

\* The symbols of the routine's labels are undefined again; a label that was
\* jumped to and never set is an error.
ForgetLabels(c) ==
  LET named == { s \in { c.lsym[n] : n \in DOMAIN c.lsym \cap 0 .. c.nlab - 1 } \ {""} :
                   Known(c, s) }
      missing == { s \in named : Has(c, s, "CHANGE") }
  IN  [c EXCEPT !.err = @ + Cardinality(missing),
                !.sym = [s \in DOMAIN @ |->
                           IF s \in named THEN [@[s] EXCEPT !.ty = "CONSTANT", !.fl = {"UNKNOWN"}]
                           ELSE @[s]],
                !.nlab = 0, !.lused = {}, !.dead = {}]

assemble_routine_end(c, embedded) ==
  LET returned == IF c.dead # {} THEN c
                  ELSE assemblez(c, IF embedded THEN "rfalse" ELSE "rtrue", <<>>)
  IN  ForgetLabels(df_note_function_end(transfer_routine_z(returned)))
=============================================================================
