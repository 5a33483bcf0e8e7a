----------------------------- MODULE I6Statements -----------------------------
(***************************************************************************)
(* Inform 6: statements (states.c), code blocks and routines (syntax.c)    *)
(* and assembly language (asm.c), for version 3 without run-time checks.   *)
(*                                                                         *)
(* An operator takes the state with the tokens before it read and gives    *)
(* the state after; where the code looks at the current token, that token  *)
(* is c.tok.  Labels: brk and cont are where "break" and "continue" go,    *)
(* -1 where they may not stand.  Opcodes given by number, the tracing of   *)
(* routines ("*") and warnings are left out.                               *)
(***************************************************************************)
EXTENDS I6CodeGen

------------------------------------------------------------------------------
\* The values that statements need.

match_open_bracket(c)  == Expect(c, "(")
match_close_bracket(c) == Expect(c, ")")

\* match_colon: c.val is whether there was one.
match_colon(c) ==
  LET d == get_next_token(c)
  IN  IF IsSep(d, ":") \/ IsSep(d, ";") THEN [d EXCEPT !.val = 1]
      ELSE [Panic(d) EXCEPT !.val = 0]

OmittedOp == Operand(Omitted, 0)

Quantity(c) == LET d == parse_expression(c, "QUANTITY")
               IN  code_generate(d, d.val, "QUANTITY", -1)

Condition(c, label) == LET d == parse_expression(c, "CONDITION")
                       IN  code_generate(d, d.val, "CONDITION", label)

IsStack(o) == o.t = Variable /\ o.v = 0

Entirely(c) == IF c.dead = {} THEN c ELSE [c EXCEPT !.dead = @ \cup {"entire"}]

\* After a statement or a block: the flag is what it was before it.
AsBefore(c, before) ==
  [c EXCEPT !.dead = IF "entire" \in before THEN @ \cup {"entire"} ELSE @ \ {"entire"}]

------------------------------------------------------------------------------
\* Labels of the source.

MakeLabel(c, s) ==
  next_label(define_symbol_label(assign_symbol(c, s, c.nlab, "LABEL"), s))

\* parse_label: a label to jump to; c.val is its number.
parse_label(c) ==
  LET d == get_next_token(c)
      s == d.tok.x
      named == d.tok.t = "SYMBOL"
      new == MakeLabel(d, s)
  IN  CASE named /\ d.sym[s].ty = "LABEL" -> [WithFlag(d, s, "USED") EXCEPT !.val = d.sym[s].v]
        [] named /\ d.sym[s].ty # "LABEL" /\ Has(d, s, "UNKNOWN") ->
             [WithFlag(WithFlag(new, s, "CHANGE"), s, "USED") EXCEPT !.val = d.nlab]
        [] OTHER -> [Error(d) EXCEPT !.val = 0]

\* A label is set: a new one, or one that was jumped to.
SetLabel(c, s) ==
  CASE Has(c, s, "UNKNOWN") ->
         LET d == WithFlag(assign_symbol(c, s, c.nlab, "LABEL"), s, "USED")
         IN  next_label(define_symbol_label(assemble_label_no(d, c.nlab), s))
    [] ~ Has(c, s, "UNKNOWN") /\ Has(c, s, "CHANGE") ->
         define_symbol_label(assemble_label_no([c EXCEPT !.sym[s].fl = @ \ {"CHANGE"}],
                                               c.sym[s].v), s)
    [] OTHER -> Error(c)

\* parse_named_label_statements: c.val is whether a statement can follow.
RECURSIVE parse_named_label_statements(_)
parse_named_label_statements(c) ==
  LET d == get_next_token(c)
      s == d.tok.x
      bad == d.tok.t # "SYMBOL"
             \/ (~ Has(d, s, "UNKNOWN") /\ d.sym[s].ty # "LABEL")
      e == get_next_token(SetLabel(d, s))
      f == get_next_token(e)
  IN  CASE ~ IsSep(c, ".") -> [c EXCEPT !.val = 1]
        [] IsSep(c, ".") /\ bad -> [Error(d) EXCEPT !.val = 1]
        [] IsSep(c, ".") /\ ~ bad /\ ~ IsSep(e, ";") ->
             [put_token_back(Error(e)) EXCEPT !.val = 0]
        [] OTHER -> IF IsSep(f, "}") THEN [put_token_back(f) EXCEPT !.val = 0]
                    ELSE parse_named_label_statements(f)

------------------------------------------------------------------------------
\* parse_action: <Action noun second>, or << >> to return true after it.

EndsActionArguments(c) == IsSep(c, ">") \/ IsSep(c, ",")

\* The action: c.val is [o: the operand, gen: whether code makes it].
ActionName(c) ==
  LET first == get_next_token([c EXCEPT !.raw = 1])
      double == IsSep(first, "<")
      d == [(IF double THEN get_next_token(first) ELSE first) EXCEPT !.raw = 0]
      computed == parse_expression(put_token_back(d), "ACTION_Q")
      named == action_of_name(ErrorIf(d.tok.t # "UQ", d), d.tok.x)
      made == IsSep(d, "(")
      e == IF made THEN computed ELSE named
  IN  [e EXCEPT !.val = [o |-> e.val, gen |-> made, double |-> double]]

\* An optional argument: c.val is << its operand >> or << >>.
OptionalArgument(c, context) ==
  LET e == parse_expression(put_token_back(c), context)
  IN  IF EndsActionArguments(c) THEN [c EXCEPT !.val = <<>>]
      ELSE [get_next_token(e) EXCEPT !.val = << e.val >>]

\* Version 3 has no actor: an error, and nothing is called.
Actor(c) ==
  LET d == get_next_token(parse_expression(Error(c), "QUANTITY"))
  IN  ErrorIf(~ IsSep(d, ">"), d)

\* The arguments are made from the last to the first, the action after them.
RECURSIVE GenerateAll(_, _)
GenerateAll(c, os) ==
  IF os = <<>> THEN [c EXCEPT !.val = <<>>]
  ELSE LET d == code_generate(c, Last(os), "QUANTITY", -1)
           e == GenerateAll(d, Front(os))
       IN  [e EXCEPT !.val = Append(@, d.val)]

parse_action(c) ==
  LET action == ActionName(c)
      a == action.val
      noun == OptionalArgument(get_next_token(action), "ACTION_Q")
      second == OptionalArgument(noun, "QUANTITY")
      ends == ErrorIf(~ EndsActionArguments(second), second)
      actor == IsSep(ends, ",")
      d == IF actor THEN Actor(ends) ELSE ends
      close == get_next_token(d)
      closed == IF ~ a.double THEN d
                ELSE IF IsSep(close, ">") THEN close ELSE Error(put_token_back(close))
      e == GenerateAll(closed, noun.val \o second.val)
      f == IF a.gen THEN code_generate(e, a.o, "QUANTITY", -1) ELSE [e EXCEPT !.val = a.o]
      called == IF actor THEN mark_as_needed(f, "R_Process")
                ELSE CallVeneer(f, "R_Process", << f.val >> \o e.val, Temp1)
  IN  IF a.double THEN assemblez(called, "rtrue", <<>>) ELSE called

------------------------------------------------------------------------------
\* print and print_ret.

Max_inline_string == 32

\* (name): the instruction, or the veneer's routine, that prints it.
PrintOpcode ==
  ("char" :> "print_char") @@ ("address" :> "print_addr") @@ ("string" :> "print_paddr")
  @@ ("object" :> "print_obj")
PrintRoutine ==
  ("the" :> "DefArt") @@ ("a" :> "InDefArt") @@ ("an" :> "InDefArt") @@ ("The" :> "CDefArt")
  @@ ("A" :> "CInDefArt") @@ ("name" :> "PrintShortName") @@ ("number" :> "EnglishNumber")
  @@ ("property" :> "Print__PName")

PrintBy(c, op) == LET d == Quantity(c) IN assemblez(d, op, << d.val >>)

PrintByRoutine(c, routine) ==
  LET d == Quantity(c) IN assemblez_to(d, "call", << routine, d.val >>, Temp1)

\* A routine that is not defined yet is known by the number of its symbol.
PrintingRoutine(c, s) ==
  IF Has(c, s, "UNKNOWN")
    THEN [LongConst(c.sym[s].no) EXCEPT !.m = "SYMBOL", !.s = s]
    ELSE [LongConst(c.sym[s].v) EXCEPT !.m = "IROUTINE", !.s = s]

\* (specification) value: the bracket is current.
PrintSpecified(c) ==
  LET named == get_next_token(Disable(c, {"locals"}))
      x == named.tok.x
      keyword == named.tok.t = "MISC_KEYWORD" \/ IsToken(named, "STATEMENT", "string")
      d == get_next_token(Enable(Disable(named, {"misc"}), {"locals"}))
      symbol == named.tok.t = "SYMBOL"
      reserved == put_token_back(put_token_back(put_token_back(
                    Error(Enable(Disable(named, {"misc"}), {"locals"})))))
      wrong == symbol /\ ~ Has(named, x, "UNKNOWN") /\ named.sym[x].ty # "ROUTINE"
  IN  CASE keyword /\ x \in DOMAIN PrintOpcode -> PrintBy(d, PrintOpcode[x])
        [] keyword /\ x \in DOMAIN PrintRoutine ->
             PrintByRoutine(mark_as_needed(d, PrintRoutine[x]), veneer_routine(PrintRoutine[x]))
        [] keyword /\ x \notin DOMAIN PrintOpcode \cup DOMAIN PrintRoutine ->
             PrintBy(reserved, "print_num")
        [] symbol -> PrintByRoutine(WithFlag(ErrorIf(wrong, d), x, "USED"),
                                    PrintingRoutine(named, x))
        [] OTHER -> PrintBy(Error(d), "print_num")

PrintBracket(c) ==
  LET d == get_next_token(get_next_token(Enable(c, {"misc"})))
      again == put_token_back(put_token_back(d))
  IN  Disable(IF IsSep(d, ")") THEN PrintSpecified(again)
              ELSE PrintBy(Disable(put_token_back(again), {"misc"}), "print_num"), {"misc"})

\* A text; print_ret of nothing more prints it and returns in one.
PrintText(c, text, ret) ==
  LET made == compile_string(c, text, "GAME")
      paddr == assemblez(made, "print_paddr", << [LongConst(made.val) EXCEPT !.m = "STRING"] >>)
      next == get_next_token(c)
  IN  CASE text = << "^" >> -> assemblez(c, "new_line", <<>>)
        [] text # << "^" >> /\ Len(text) > Max_inline_string -> paddr
        [] OTHER -> IF ret /\ IsSep(next, ";") THEN assemblez_text(next, "print_ret", text)
                    ELSE assemblez_text(c, "print", text)

PrintItem(c, ret) ==
  CASE c.tok.t = "DQ" -> PrintText(c, Quoted[c.tok.x], ret)
    [] IsSep(c, "(") -> PrintBracket(c)
    [] OTHER -> PrintBy(Disable(put_token_back(c), {"misc"}), "print_num")

EndPrint(c, ret) ==
  IF ret THEN assemblez(assemblez(c, "new_line", <<>>), "rtrue", <<>>) ELSE c

RECURSIVE PrintList(_, _)
PrintList(c, ret) ==
  LET Ended(item) == /\ ret /\ c.tok.t = "DQ" /\ Quoted[c.tok.x] # << "^" >>
                     /\ Len(Quoted[c.tok.x]) <= Max_inline_string /\ IsSep(item, ";")
      After(d) == LET e == get_next_token(d)
                  IN  CASE IsSep(d, ";") -> EndPrint(d, ret)
                        [] IsSep(d, ",") -> IF IsSep(e, ";") THEN EndPrint(e, ret) ELSE PrintList(e, ret)
                        [] OTHER -> Panic(d)
  IN  Then(PrintItem(c, ret), LAMBDA item : IF Ended(item) THEN item ELSE After(get_next_token(item)))

parse_print(c, ret) ==
  IF IsSep(c, ";") THEN EndPrint(Error(c), ret) ELSE PrintList(c, ret)

------------------------------------------------------------------------------
\* parse_assembly_z: the "@" is read.

\* An operand must be a variable or a constant.
parse_operand(c) ==
  LET d == parse_expression(c, "ASSEMBLY")
  IN  IF d.val.t = Expression THEN [Error(d) EXCEPT !.val.t = Short] ELSE d

\* The destination after "->": c.val is the variable's number.
StoreDestination(c) ==
  LET d == get_next_token(c)
      global == d.tok.t = "SYMBOL" /\ d.sym[d.tok.x].ty = "GLOBAL_VARIABLE"
  IN  CASE d.tok.t = "LOCAL_VARIABLE" -> [d EXCEPT !.val = d.tok.v]
        [] global -> [d EXCEPT !.val = d.sym[d.tok.x].v]
        [] OTHER -> [Error(d) EXCEPT !.val = 255]

\* The label after "?" or "?~".
BranchDestination(c) ==
  LET d == Disable(get_next_token(Enable(c, {"opcodes"})), {"opcodes"})
  IN  CASE IsToken(d, "OPCODE_NAME", "rfalse") -> [d EXCEPT !.val = -3]
        [] IsToken(d, "OPCODE_NAME", "rtrue") -> [d EXCEPT !.val = -4]
        [] d.tok.t = "SYMBOL" -> parse_label(put_token_back(d))
        [] OTHER -> [Error(d) EXCEPT !.val = -2]

AddOperand(c, i, o) == [c EXCEPT !.val = [i EXCEPT !.args = Append(@, o)]]

\* [variable]: one addressed indirectly.
IndirectOperand(c, i, indirect) ==
  LET d == parse_operand([c EXCEPT !.err = @ + (IF indirect THEN 0 ELSE 1)
                                             + (IF i.args = <<>> THEN 0 ELSE 1)])
      e == get_next_token(d)
  IN  AddOperand(IF IsSep(e, "]") THEN e ELSE put_token_back(Error(e)), i, d.val)

\* The operands up to ";": c.val is the instruction.
RECURSIVE AssemblyOperands(_, _)
AssemblyOperands(c, i) ==
  LET d == get_next_token(c)
      indirect == i.op \in VariabRule
      to == StoreDestination(ErrorIf(i.st # -1, d))
      by == BranchDestination(ErrorIf(i.br # -1, d))
      label == parse_label(put_token_back(d))
      value == parse_operand(put_token_back(d))
      named == indirect /\ i.args = <<>> /\ value.val.t = Variable
      more == CASE IsSep(d, "[") -> IndirectOperand(d, i, indirect)
                [] ~ IsSep(d, "[") /\ i.op = "jump" -> AddOperand(label, i, LongConst(label.val))
                [] OTHER -> AddOperand(value, i, IF named THEN ShortConst(value.val.v)
                                                 ELSE value.val)
  IN  CASE IsSep(d, ";") -> [d EXCEPT !.val = i]
        [] IsSep(d, "->") -> AssemblyOperands(to, [i EXCEPT !.st = to.val])
        [] IsSep(d, "?") \/ IsSep(d, "?~") ->
             AssemblyOperands(by, [i EXCEPT !.br = by.val, !.flag = IsSep(d, "?")])
        [] OTHER -> IF Len(i.args) = 8 THEN [Panic(d) EXCEPT !.val = i]
                    ELSE AssemblyOperands(more, more.val)

ArityOf(op) ==
  CASE op = "je" -> 1 .. 4
    [] op # "je" /\ opcodes_table_z[op].form = "TWO" -> {2}
    [] opcodes_table_z[op].form = "VAR"  -> 0 .. 4
    [] opcodes_table_z[op].form = "ONE"  -> {1}
    [] opcodes_table_z[op].form = "ZERO" -> {0}

\* A store without "->" goes to the last operand.
Assemble(c, i) ==
  LET branches == i.op \in Branches
      stores == i.op \in Stores
      last == stores /\ i.st = -1 /\ i.args # <<>>
      wrong == \/ branches # (i.br # -1)
               \/ stores /\ i.st = -1 /\ i.args = <<>>
               \/ ~ stores /\ i.st # -1
      n == Len(i.args)
      j == [i EXCEPT !.br = IF branches THEN (IF @ = -1 THEN -2 ELSE @) ELSE -1,
                     !.st = CASE last -> i.args[n].v
                              [] ~ last /\ stores -> (IF @ = -1 THEN 255 ELSE @)
                              [] OTHER -> -1,
                     !.args = IF last THEN SubSeq(@, 1, n - 1) ELSE @]
      d == ErrorIf(last /\ i.args[n].t # Variable, c)
      fits == Len(j.args) \in ArityOf(i.op)
  IN  ErrorIf(wrong \/ ~ fits, IF fits THEN assemblez_instruction(d, j) ELSE d)

\* print "..."; and print_ret "...";
AssemblyText(c, op) ==
  LET text == get_next_token(c)
      d == ErrorIf(text.tok.t # "DQ", text)
      e == get_next_token(d)
  IN  IF IsSep(d, ";") THEN d
      ELSE IF IsSep(e, ";")
        THEN IF d.tok.t = "DQ" THEN assemblez_text(e, op, Quoted[d.tok.x]) ELSE e
      ELSE put_token_back(Error(e))

\* @ -> and @ --> : bytes or words in the code.
RECURSIVE RawData(_, _)
RawData(c, words) ==
  LET d == get_next_token(release_token_texts(c))
      e == parse_expression(put_token_back(d), "ARRAY")
      o == e.val
      f == ErrorIf(~ words /\ o.m # "NULL", e)
      cells == IF words THEN << Marked((o.v % 65536) \div 256, o.m), Cell(o.v % 256) >>
               ELSE << Cell(o.v % 256) >>
  IN  CASE IsSep(d, ";") -> d
        [] ~ IsSep(d, ";") /\ o.m = "ERROR" -> e
        [] OTHER -> RawData(IF f.dead # {} THEN f ELSE [f EXCEPT !.hold = @ \o cells], words)

parse_assembly(c) ==
  LET d == Disable(get_next_token(Enable(c, {"opcodes"})), {"opcodes"})
      op == d.tok.x
      e == AssemblyOperands([d EXCEPT !.spvar = TRUE], Instruction(op, <<>>))
  IN  CASE IsSep(d, "->") -> RawData(d, FALSE)
        [] IsSep(d, "-->") -> RawData(d, TRUE)
        [] d.tok.t = "OPCODE_NAME" /\ op \in TextRule -> AssemblyText(d, op)
        [] d.tok.t = "OPCODE_NAME" /\ op \notin TextRule ->
             LET f == [e EXCEPT !.spvar = FALSE]
             IN  IF op \in DOMAIN opcodes_table_z THEN Assemble(f, e.val) ELSE Error(f)
        [] OTHER -> Panic(d)

------------------------------------------------------------------------------
\* Statements that need no block: the keyword is read, the ";" is not.

JumpTo(c, label) == IF label = -1 THEN Error(c) ELSE assemblez_jump(c, label)

\* box: its lines go into a table, which version 3 does not use; the ";" is read.
RECURSIVE Box(_, _)
Box(c, n) ==
  LET d == get_next_token(c)
      e == parse_expression(put_token_back(ErrorIf(d.tok.t # "DQ", d)), "CONSTANT")
  IN  IF IsSep(d, ";") THEN ErrorIf(n = 0, finish_array(d, n))
      ELSE Box(array_entry(e, e.val), n + 1)

\* font on and off: the fixed-pitch bit of the header's Flags 2.
Font(c) ==
  LET d == Disable(get_next_token(Enable(c, {"misc"})), {"misc"})
      on == IsToken(d, "MISC_KEYWORD", "on")
      e == assemblez_to(d, "loadw", << ShortConst(0), ShortConst(8) >>, Temp1)
      f == IF on THEN assemblez_to(e, "and", << LongConst(65533), Temp1 >>, Temp1)
           ELSE assemblez_to(e, "or", << ShortConst(2), Temp1 >>, Temp1)
  IN  IF on \/ IsToken(d, "MISC_KEYWORD", "off")
        THEN assemblez(f, "storew", << ShortConst(0), ShortConst(8), Temp1 >>)
        ELSE Panic(d)

\* give: attributes up to the ";", which is read.
RECURSIVE GiveTo(_, _)
GiveTo(c, o) ==
  LET d == get_next_token(c)
      clear == IsSep(d, "~")
      e == Quantity(IF clear THEN d ELSE put_token_back(d))
  IN  IF IsSep(d, ";") THEN d
      ELSE GiveTo(assemblez(e, IF clear THEN "clear_attr" ELSE "set_attr", << o, e.val >>), o)

Give(c) ==
  LET d == Quantity(c)
  IN  IF IsStack(d.val) THEN GiveTo(assemblez(d, "pull", << ShortConst(252) >>), Temp4)
      ELSE GiveTo(d, d.val)

Inversion(c) ==
  Folded(LAMBDA d, at : assemblez(assemblez_to(d, "loadb", << ShortConst(0), ShortConst(at) >>,
                                                 Temp1), "print_char", << Temp1 >>),
           c, << 60, 61, 62, 63 >>)

\* move: what is moved is generated after where it is moved to.
MoveObject(c) ==
  LET what == parse_expression(Enable(c, {"misc"}), "QUANTITY")
      d == Disable(get_next_token(what), {"misc"})
      to == Quantity(d)
      e == code_generate(to, what.val, "QUANTITY", -1)
  IN  IF IsToken(d, "MISC_KEYWORD", "to")
        THEN Terminated(assemblez(e, "insert_obj", << e.val, to.val >>))
        ELSE Panic(d)

\* read: version 3 draws the status line itself.
Read(c) ==
  LET buffer == Quantity(c)
      d == Quantity(assemblez_store(buffer, Temp4, buffer.val))
      e == get_next_token(d)
      f == IF IsSep(e, ";") THEN put_token_back(e) ELSE Error(e)
  IN  assemblez(f, "sread", << Temp4, d.val >>)

\* return: without a value, the ";" is read.
Return(c) ==
  LET d == get_next_token(c)
      e == parse_expression(put_token_back(d), "RETURN_Q")
      f == code_generate(e, e.val, "QUANTITY", -1)
      Is(n) == f.val.t = Short /\ f.val.v = n /\ f.val.m = "NULL"
  IN  IF IsSep(d, ";") THEN assemblez(d, "rtrue", <<>>)
      ELSE Terminated(CASE Is(0) -> assemblez(f, "rfalse", <<>>)
                        [] Is(1) -> assemblez(f, "rtrue", <<>>)
                        [] IsStack(f.val) -> assemblez(f, "ret_popped", <<>>)
                        [] OTHER -> assemblez(f, "ret", << f.val >>))

SaveOrRestore(c, op) ==
  LET d == parse_label(c)
  IN  assemblez_branch(d, op, <<>>, d.val, TRUE)

Spaces(c) ==
  LET d == Quantity(c)
      start == assemblez_branch(assemblez_store(d, Temp1, d.val), "jl",
                                << Temp1, ShortConst(1) >>, d.nlab, TRUE)
      loop == assemble_label_no([start EXCEPT !.nlab = @ + 2], d.nlab + 1)
      next == assemblez_dec(assemblez(loop, "print_char", << ShortConst(32) >>), Temp1)
  IN  assemble_label_no(assemblez_branch(next, "jz", << Temp1 >>, d.nlab + 1, FALSE), d.nlab)

\* string: a low string, by its word address, becomes the one of that number.
StringStatement(c) ==
  LET d == Quantity(assemblez_to(c, "loadw", << ShortConst(0), ShortConst(12) >>, Temp4))
      far == is_constant_ot(d.val.t) /\ d.val.m = "NULL" /\ d.val.v >= Max_dynamic_strings
      e == get_next_token(ErrorIf(far, d))
      literal == e.tok.t = "DQ"
      f == IF literal THEN compile_string(e, Quoted[e.tok.x], "LOWSTRING")
           ELSE parse_expression(put_token_back(e), "CONSTANT")
      value == IF literal THEN LongConst(f.val) ELSE f.val
  IN  assemblez(f, "storew", << Temp4, IF far THEN [d.val EXCEPT !.v = 0] ELSE d.val, value >>)

\* The statements of one instruction.
PlainOpcode ==
  ("new_line" :> "new_line") @@ ("quit" :> "quit") @@ ("rfalse" :> "rfalse")
  @@ ("rtrue" :> "rtrue")

Simple == { "break", "continue", "font", "inversion", "jump", "read", "remove", "restore",
            "save", "spaces", "string", "style", "default", "else" } \cup DOMAIN PlainOpcode

SimpleStatement(c, x, brk, cont) ==
  CASE x \in DOMAIN PlainOpcode -> assemblez(c, PlainOpcode[x], <<>>)
    [] x = "break"    -> JumpTo(c, brk)
    [] x = "continue" -> JumpTo(c, cont)
    [] x = "font"     -> Font(c)
    [] x = "inversion" -> Inversion(c)
    [] x = "jump"     -> LET d == parse_label(c) IN assemblez_jump(d, d.val)
    [] x = "read"     -> Read(c)
    [] x = "remove"   -> LET d == Quantity(c) IN assemblez(d, "remove_obj", << d.val >>)
    [] x \in {"restore", "save"} -> SaveOrRestore(c, x)
    [] x = "spaces"   -> Spaces(c)
    [] x = "string"   -> StringStatement(c)
    [] x = "style"    -> Panic(c)                        \* not in version 3
    [] x \in {"default", "else"} -> Error(c)

------------------------------------------------------------------------------
\* Cases of a switch, and of a routine's actions.

\* After a value: 1 ":", 2 ",", 3 "to", 0 something else.
switch_sign(c) ==
  CASE IsSep(c, ":") -> 1 [] IsSep(c, ",") -> 2 [] IsToken(c, "MISC_KEYWORD", "to") -> 3
    [] OTHER -> 0

Max_spec_stack == 32

\* Away to the label unless the value is one of at most three.
Alternatives(c, value, spec, label, flag) ==
  assemblez_branch(c, "je", << value >> \o [i \in DOMAIN spec |-> spec[i].o], label, flag)

RECURSIVE SpecTests(_, _, _, _, _)
SpecTests(c, value, spec, label, after) ==
  LET n == Len(spec)
      single == { k \in 0 .. Min({n, 3}) : \A i \in 1 .. k : spec[i].sign # 3 }
      k == Max(single)
      Low(to) == assemblez_branch(c, "jl", << value, spec[1].o >>, to, TRUE)
      last == assemblez_branch(Low(label), "jg", << value, spec[2].o >>, label, TRUE)
      inner == assemble_label_no(
                 next_label(assemblez_branch(Low(c.nlab), "jg", << value, spec[2].o >>, after,
                                             FALSE)), c.nlab)
  IN  CASE n = 0 -> c
        [] n # 0 /\ k > 0 ->
             SpecTests(IF k = n THEN Alternatives(c, value, spec, label, FALSE)
                       ELSE Alternatives(c, value, SubSeq(spec, 1, k), after, TRUE),
                       value, SubSeq(spec, k + 1, n), label, after)
        [] OTHER -> SpecTests(IF n = 2 THEN last ELSE inner, value, SubSeq(spec, 3, n), label,
                              after)

\* generate_switch_spec: on with the case, or away to the label; after is -1 or
\* the label of the case's code.
generate_switch_spec(c, value, spec, label, after) ==
  LET made == Len(spec) > 3 /\ after = -1
      to == IF made THEN c.nlab ELSE after
  IN  IF to = -1 THEN Alternatives(c, value, spec, label, FALSE)
      ELSE assemble_label_no(SpecTests(IF made THEN next_label(c) ELSE c, value, spec, label, to),
                             to)

\* The values of a case up to ":".
RECURSIVE SwitchSpec(_, _, _, _, _, _)
SwitchSpec(c, value, spec, label, after, actions) ==
  LET name == [get_next_token([c EXCEPT !.raw = 1]) EXCEPT !.raw = 0]
      quoted == actions /\ name.tok.t \in {"SQ", "DQ"}
      constant == parse_expression(c, "CONSTANT")
      d == IF actions THEN action_of_name(name, name.tok.x)
           ELSE code_generate(constant, constant.val, "CONSTANT", -1)
      e == Disable(get_next_token(Enable(d, {"misc"})), {"misc"})
      sign == switch_sign(e)
      more == Append(spec, [o |-> d.val, sign |-> sign])
      range == sign = 3 /\ after = -1
  IN  CASE Len(spec) >= Max_spec_stack -> Panic(c)
        [] Len(spec) < Max_spec_stack /\ quoted ->
             SwitchSpec(Error(name), value, spec, label, after, actions)
        [] Len(spec) < Max_spec_stack /\ ~ quoted /\ sign = 0 -> Panic(e)
        [] Len(spec) < Max_spec_stack /\ ~ quoted /\ sign = 1 ->
             generate_switch_spec(e, value, more, label, after)
        [] OTHER -> SwitchSpec(IF range THEN next_label(e) ELSE e, value, more, label,
                               IF range THEN e.nlab ELSE after, actions)

parse_switch_spec(c, value, label, actions) ==
  SwitchSpec(c, value, <<>>, label, -1, actions)

\* A block's cases so far: made, whether there is one, default, whether it has
\* ended them, and the label to which a value that is not the last one's goes.
NoCases == [made |-> FALSE, default |-> FALSE, label |-> 0]

\* The last case ends, and control leaves by a jump, or by returning (-3, -4).
EndCase(c, sw, leave) ==
  IF ~ sw.made THEN c
  ELSE assemble_label_no(IF c.dead # {} THEN c ELSE assemblez_jump(c, leave), sw.label)

EndCases(c, sw) ==
  IF sw.made /\ ~ sw.default THEN assemble_label_no(c, sw.label) ELSE c

NewCase(c, sw, leave) == next_label(EndCase(ErrorIf(sw.default, c), sw, leave))

DefaultCase(c, sw, leave) ==
  LET d == get_next_token(EndCase(ErrorIf(sw.default, c), sw, leave))
  IN  IF IsSep(d, ":") THEN d ELSE Panic(d)

------------------------------------------------------------------------------
\* Statements and blocks.

RECURSIVE parse_statement(_, _, _), parse_code_block(_, _, _, _)

\* The token after the block of an if; an "#if" may stand around the else.
RECURSIVE ElseToken(_)
ElseToken(c) ==
  LET d == get_next_token(Enable(c, {"statements"}))
  IN  IF IsSep(d, "#") THEN ElseToken(InternalDirective(d)) ELSE d

\* if: a statement that only returns makes the condition return.
If(c, brk, cont) ==
  LET cond == parse_expression(match_open_bracket(c), "CONDITION")
      d == get_next_token(Enable(match_close_bracket(cond), {"statements"}))
      to == CASE IsToken(d, "STATEMENT", "rtrue") -> -4
              [] IsToken(d, "STATEMENT", "rfalse") -> -3
              [] OTHER -> d.nlab
      test == code_generate(IF to >= 0 THEN next_label(put_token_back(d)) ELSE d, cond.val,
                            "CONDITION", to)
      Body(e) == IF to >= 0 THEN parse_code_block(e, brk, cont, FALSE) ELSE Expect(e, ";")
      Place(g, n) == IF to < 0 THEN g ELSE assemble_forward_label_no(g, n)
      PastElse(f) == IF to < 0 THEN f
                 ELSE IF f.dead # {} THEN next_label(f) ELSE assemblez_jump(next_label(f), f.nlab)
      Rest(f) == IF IsToken(f, "STATEMENT", "else")
                   THEN Place(parse_code_block(Place(PastElse(f), to), brk, cont, FALSE), f.nlab)
                   ELSE Place(put_token_back(f), to)
  IN  Then(Then(test, Body), LAMBDA body : Rest(ElseToken(body)))

While(c) ==
  LET d == match_open_bracket(assemble_label_no(next_label(c), c.nlab))
      e == match_close_bracket(Condition(next_label(d), c.nlab + 1))
      f == parse_code_block(e, c.nlab + 1, c.nlab, FALSE)
  IN  assemble_forward_label_no(IF f.dead # {} THEN f ELSE assemblez_jump(f, c.nlab), c.nlab + 1)

Do(c) ==
  LET d == assemble_label_no([c EXCEPT !.nlab = @ + 3], c.nlab)
      body == parse_code_block(d, c.nlab + 2, c.nlab + 1, FALSE)
      e == get_next_token(Enable(body, {"statements"}))
      cond == parse_expression(match_open_bracket(assemble_forward_label_no(e, c.nlab + 1)),
                               "CONDITION")
      f == IF IsToken(e, "STATEMENT", "until")
             THEN code_generate(match_close_bracket(cond), cond.val, "CONDITION", c.nlab)
             ELSE Error(e)
  IN  assemble_forward_label_no(f, c.nlab + 2)

Switch(c, cont) ==
  LET d == Quantity(match_open_bracket(c))
      e == next_label(assemblez_store(match_close_bracket(d), Temp1, d.val))
      Cases(f) == parse_code_block(f, d.nlab, cont, TRUE)
  IN  assemble_forward_label_no(Then(e, Cases), d.nlab)

\* for: a loop that only counts a variable does so at its end, where "continue"
\* goes; any other update stands before the body.
ForBody(c, cond, update) ==
  LET count == test_for_incdec(update)
      ln == c.nlab
      ln2 == c.nlab + 1
      ln3 == c.nlab + 2
      d == [c EXCEPT !.nlab = @ + 3]
      first == update.t = Omitted \/ count # 0
      jump == code_generate(assemble_label_no(assemblez_jump(d, ln2), ln), update, "VOID", -1)
      top == IF first THEN assemble_label_no(d, ln) ELSE jump
      start == IF count = 0 THEN assemble_label_no(top, ln2) ELSE top
      test == IF cond.t = Omitted THEN start ELSE code_generate(start, cond, "CONDITION", ln3)
      Body(e) == parse_code_block(e, ln3, IF count # 0 THEN ln2 ELSE ln, FALSE)
      Counted(f, op, n) == assemblez_jump(assemblez(assemble_label_no(f, ln2), op, << ShortConst(n) >>), ln)
      Again(f) == CASE count > 0 -> Counted(f, "inc", count)
                    [] count < 0 -> Counted(f, "dec", - count)
                    [] OTHER -> IF f.dead # {} THEN f ELSE assemblez_jump(f, ln)
  IN  Then(Then(test, Body), LAMBDA body : assemble_forward_label_no(Again(body), ln3))

\* From the update, or the ")" if there is none.
ForUpdate(c, cond) ==
  LET update == parse_expression(put_token_back(c), "VOID")
  IN  IF IsSep(c, ")") THEN ForBody(c, cond, OmittedOp)
      ELSE ForBody(match_close_bracket(update), cond, update.val)

\* for (init::) needs no labels but the body's.
ForEver(c) ==
  LET d == assemble_label_no([c EXCEPT !.nlab = @ + 2], c.nlab)
      e == parse_code_block(d, c.nlab + 1, c.nlab, FALSE)
  IN  assemble_forward_label_no(IF e.dead # {} THEN e ELSE assemblez_jump(e, c.nlab), c.nlab + 1)

\* From after the first ":".
ForCondition(c) ==
  LET d == get_next_token(c)
      cond == parse_expression(put_token_back(d), "CONDITION")
      e == match_colon(cond)
  IN  CASE IsSep(d, ":") -> ForUpdate(get_next_token(d), OmittedOp)
        [] ~ IsSep(d, ":") /\ e.val = 1 -> ForUpdate(get_next_token(e), cond.val)
        [] OTHER -> Terminated(e)

For(c) ==
  LET d == get_next_token(match_open_bracket(c))
      init == parse_expression(put_token_back(d), "FORINIT")
      e == get_next_token(IF IsSep(d, "::") THEN put_token_back(d)
                          ELSE code_generate(init, init.val, "VOID", -1))
      after == get_next_token(e)
      f == match_colon(put_token_back(e))
  IN  CASE IsSep(d, ":") -> ForCondition(d)
        [] ~ IsSep(d, ":") /\ IsSep(e, "::") ->
             IF IsSep(after, ")") THEN ForEver(after) ELSE ForUpdate(after, OmittedOp)
        [] OTHER -> IF f.val = 1 THEN ForCondition(f) ELSE Terminated(f)

\* objectloop over the children of an object, or its siblings: kind is "near",
\* "from" or "in", v the loop's variable.
LoopTree(c, v, kind) ==
  LET d == Quantity(c)
      e == match_close_bracket(d)
      parent == assemblez_to(e, "get_parent", << d.val >>, sp)
      first == CASE kind = "near" -> assemblez_objcode(parent, "get_child", sp, sp, -2, TRUE)
                 [] kind = "in"   -> assemblez_objcode(e, "get_child", d.val, sp, -2, TRUE)
                 [] kind = "from" -> e
      start == assemblez_store(first, v, IF kind = "from" THEN d.val ELSE sp)
      none == start.nlab
      top == assemble_label_no(
               assemblez_branch([start EXCEPT !.nlab = @ + 3], "jz", << v >>, none, TRUE), none + 1)
      body == assemble_label_no(parse_code_block(top, none, none + 2, FALSE), none + 2)
  IN  assemble_label_no(assemblez_objcode(body, "get_sibling", v, v, none + 1, TRUE), none)

\* objectloop over all the objects, with a condition or without one.
LoopObjects(c, v, conditional) ==
  LET ln == c.nlab
      d == assemble_label_no(assemblez_store([c EXCEPT !.nlab = @ + 3], v, one_operand), ln)
      cond == match_close_bracket(Condition(put_token_back(put_token_back(d)), ln + 2))
      body == parse_code_block(IF conditional THEN cond ELSE d, ln + 1, ln + 2, FALSE)
      next == assemblez_inc(assemble_label_no(body, ln + 2), v)
      e == assemblez_branch(next, "jg", << v, [LongConst(next.nobjects) EXCEPT !.m = "NO_OBJS"] >>,
                            ln + 1, TRUE)
  IN  assemble_label_no(assemblez_jump(e, ln), ln + 1)

ObjectLoop(c) ==
  LET d == get_next_token(match_open_bracket(c))
      global == d.tok.t = "SYMBOL" /\ d.sym[d.tok.x].ty = "GLOBAL_VARIABLE"
      v == VarOp(IF global THEN d.sym[d.tok.x].v ELSE d.tok.v)
      e == Disable(get_next_token(Enable(d, {"misc"})), {"misc"})
      ahead == get_next_token(get_next_token(e))
      in == IsToken(e, "CND", "in")
      f == IF in THEN put_token_back(put_token_back(ahead)) ELSE e
  IN  CASE ~ (d.tok.t = "LOCAL_VARIABLE" \/ global) -> Terminated(Panic(d))
        [] IsToken(e, "MISC_KEYWORD", "near") -> LoopTree(e, v, "near")
        [] IsToken(e, "MISC_KEYWORD", "from") -> LoopTree(e, v, "from")
        [] in /\ IsSep(ahead, ")") -> LoopTree(f, v, "in")
        [] OTHER -> LoopObjects(f, v, ~ IsSep(e, ")"))

\* An expression for its effect.
ExpressionStatement(c) ==
  LET e == parse_expression(put_token_back(c), "VOID")
      f == code_generate(e, e.val, "VOID", -1)
  IN  IF f.vivc THEN panic_mode_error_recovery(f) ELSE Terminated(f)

\* A statement that a keyword begins.
KeywordStatement(c, x, brk, cont) ==
  CASE x \in Simple -> Terminated(SimpleStatement(c, x, brk, cont))
    [] x = "box"    -> LET d == begin_table_array(c) IN Box(d, 0)
    [] x = "do"     -> Terminated(Do(c))
    [] x = "for"    -> For(c)
    [] x = "give"   -> Give(c)
    [] x = "if"     -> If(c, brk, cont)
    [] x = "move"   -> MoveObject(c)
    [] x = "objectloop" -> ObjectLoop(c)
    [] x \in {"print", "print_ret"} -> parse_print(get_next_token(c), x = "print_ret")
    [] x = "return" -> Return(c)
    [] x = "switch" -> Switch(c, cont)
    [] x = "while"  -> While(c)
    [] x = "until"  -> Panic(c)

\* parse_statement_z: the first token is current.
StatementBody(c, brk, cont) ==
  CASE IsSep(c, "#") -> parse_statement(InternalDirective(c), brk, cont)
    [] IsSep(c, "@") -> parse_assembly(c)
    [] IsSep(c, ";") -> c
    [] c.tok.t = "DQ" -> parse_print(c, TRUE)
    [] IsSep(c, "<") -> Terminated(parse_action(c))
    [] c.tok.t = "EOF" -> Error(c)
    [] c.tok.t = "STATEMENT" ->
         KeywordStatement(Disable(c, {"statements"}), c.tok.x, brk, cont)
    [] OTHER -> ExpressionStatement(c)

parse_statement(c, brk, cont) ==
  LET Rest(d) == IF d.val = 0 THEN d ELSE AsBefore(StatementBody(Entirely(d), brk, cont), d.dead)
  IN  Then(parse_named_label_statements(c), Rest)

\* parse_statement_singleexpr: the expression has been parsed.
parse_statement_singleexpr(c, o) ==
  LET d == parse_named_label_statements(c)
      e == code_generate(Entirely(d), o, "VOID", -1)
  IN  IF d.val = 0 THEN d
      ELSE AsBefore(IF e.vivc THEN panic_mode_error_recovery(e) ELSE Terminated(e), d.dead)

\* A line of a switch that starts with a bracket: a list of constants, or a
\* statement.
BracketLine(c, sw, brk) ==
  LET e == parse_expression(put_token_back(c), "VOID")
      values == test_constant_op_list(e.val)
      n == Len(values)
      spec == [i \in 1 .. n |-> [o |-> values[i], sign |-> IF i = n THEN 1 ELSE 2]]
      f == NewCase(get_next_token(e), sw, brk)
      label == f.nlab - 1
  IN  CASE ~ IsSep(e, ":") -> << parse_statement_singleexpr(e, e.val), sw >>
        [] IsSep(e, ":") /\ (n = 0 \/ n > Max_spec_stack) -> << Panic(e), sw >>
        [] OTHER -> << generate_switch_spec(f, Temp1, spec, label, -1),
                       [sw EXCEPT !.made = TRUE, !.label = label] >>

\* Another line of one: the token after a constant tells whether it is a case.
CaseLine(c, sw, brk, cont) ==
  LET minus == IsSep(c, "-")
      d == IF minus THEN get_next_token(c) ELSE c
      e == Disable(get_next_token(Enable(d, {"misc"})), {"misc"})
      Back(x) == IF minus THEN put_token_back(put_token_back(put_token_back(x)))
                 ELSE put_token_back(put_token_back(x))
      f == NewCase(e, sw, brk)
      label == f.nlab - 1
      again == get_next_token(Back(e))
  IN  IF switch_sign(e) > 0
        THEN << Then(Back(f), LAMBDA g : parse_switch_spec(g, Temp1, label, FALSE)),
                [sw EXCEPT !.made = TRUE, !.label = label] >>
        ELSE << parse_statement(ErrorIf(~ sw.made, again), brk, cont), sw >>

\* The lines of a braced block: b is the state, the cases so far and whether the block
\* goes on.
BlockLine(b, brk, cont, rule) ==
  LET d == NextLine(b.c)
      default == IsToken(d, "STATEMENT", "default")
      On(line) == [b EXCEPT !.c = line[1], !.sw = line[2]]
      Out(e) == [b EXCEPT !.c = e, !.open = FALSE]
  IN  CASE IsSep(d, "}") -> Out(EndCases(d, b.sw))
        [] d.tok.t = "EOF" -> Out(Error(d))
        [] rule /\ default ->
             On(<< DefaultCase(d, b.sw, brk), [b.sw EXCEPT !.made = TRUE, !.default = TRUE] >>)
        [] rule /\ IsSep(d, "(") -> On(BracketLine(d, b.sw, brk))
        [] rule /\ ~ default /\ d.tok.t # "DQ" /\ ~ (IsSep(d, "(") \/ IsSep(d, "}") \/ d.tok.t = "EOF") ->
             On(CaseLine(d, b.sw, brk, cont))
        [] OTHER -> [b EXCEPT !.c = parse_statement(d, brk, cont)]

BlockLines(c, brk, cont, rule) ==
  Repeated(LAMBDA b : BlockLine(b, brk, cont, rule), LAMBDA b : b.open,
           [c |-> c, sw |-> NoCases, open |-> TRUE]).c

\* parse_code_block: rule, whether it is a switch's.
parse_code_block(c, brk, cont, rule) ==
  LET Rest(d) == IF IsSep(d, "{") THEN BlockLines(d, brk, cont, rule)
                 ELSE parse_statement(ErrorIf(rule, d), brk, cont)
  IN  AsBefore(Then(NextLine(Entirely(c)), Rest), c.dead)

------------------------------------------------------------------------------
\* Routines.

Max_local_variables == 15

\* The local variables, up to the ";".
RECURSIVE LocalVariables(_)
LocalVariables(c) ==
  LET d == [get_next_token([Enable(c, {"statements"}) EXCEPT !.raw = 1]) EXCEPT !.raw = 0]
  IN  CASE d.tok.t # "UQ" -> IF IsSep(d, ";") THEN d ELSE Panic(d)
        [] d.tok.t = "UQ" /\ Len(d.locals) = Max_local_variables -> Panic(d)
        [] OTHER -> LocalVariables(add_local_variable(ErrorIf(IsLocal(d, d.tok.x), d), d.tok.x))

\* A line of a routine; its cases are actions.  A value falls out of them as the
\* routine returns.  c.val is whether the routine goes on, and its cases so far.
RoutineLine(c, embedded, sw) ==
  LET d == NextLine(c)
      leave == IF embedded THEN -3 ELSE -4
      ended == assemble_routine_end(get_next_token(Enable(EndCases(d, sw), {"directives"})),
                                    embedded)
      default == IsToken(d, "STATEMENT", "default")
      ahead == get_next_token(d)
      again == put_token_back(put_token_back(ahead))
      possible == d.tok.t \notin {"DQ", "SEP"}
      f == NewCase(again, sw, leave)
      case == parse_switch_spec(f, VarOp(249), f.nlab - 1, TRUE)
      On(e, s) == [e EXCEPT !.val = [open |-> TRUE, sw |-> s]]
      Out(e) == [put_token_back(e) EXCEPT !.val = [open |-> FALSE, sw |-> sw]]
  IN  CASE d.tok.t = "EOF" -> Out(assemble_routine_end(Error(d), embedded))
        [] IsSep(d, "]") -> Out(ended)
        [] default -> On(DefaultCase(d, sw, leave), [sw EXCEPT !.made = TRUE, !.default = TRUE])
        [] possible /\ ~ default /\ switch_sign(ahead) > 0 ->
             On(case, [sw EXCEPT !.made = TRUE, !.label = f.nlab - 1])
        [] OTHER -> On(parse_statement(IF possible THEN get_next_token(again) ELSE d, -1, -1), sw)

\* parse_routine, up to the first line; c.val is the packed address in the code
\* area.
BeginRoutine(c, name, embedded) ==
  assemble_routine_header(LocalVariables([c EXCEPT !.locals = <<>>]), name, embedded)

RoutineLines(c, embedded) ==
  Repeated(LAMBDA d : RoutineLine(d, embedded, d.val.sw), LAMBDA d : d.val.open,
           [c EXCEPT !.val = [open |-> TRUE, sw |-> NoCases]])

\* parse_routine as a whole.
parse_routine(c, name, embedded) ==
  LET d == BeginRoutine(c, name, embedded)
  IN  [RoutineLines(d, embedded) EXCEPT !.val = d.val]
=============================================================================
