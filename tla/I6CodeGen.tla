------------------------------ MODULE I6CodeGen ------------------------------
(***************************************************************************)
(* Inform 6: code generation from expression trees (expressc.c), for       *)
(* version 3 without run-time error checking, and the list of the veneer's *)
(* routines (veneer.c).                                                    *)
(*                                                                         *)
(* A tree is first annotated for conditions: a and b are the labels for a  *)
(* true and a false result (-1: carry on here), after the label to place   *)
(* after the node, toex whether the condition is to become a value.        *)
(* Operands are generated from right to left, because an instruction pulls *)
(* its operands from the stack from left to right.                         *)
(*   needed   the veneer's routines that are called: "called", "compiled"  *)
(*   vivc     whether a bare value stood where only an effect counts       *)
(*   took     (of Generate) the value has gone where "=" above wants it    *)
(* Warnings about the types of symbols are left out.                       *)
(***************************************************************************)
EXTENDS I6Directives

------------------------------------------------------------------------------
\* Routines of the veneer.

VeneerNames ==
  << "Box__Routine", "R_Process", "DefArt", "InDefArt", "CDefArt", "CInDefArt",
     "PrintShortName", "EnglishNumber", "Print__PName", "WV__Pr", "RV__Pr", "CA__Pr",
     "IB__Pr", "IA__Pr", "DB__Pr", "DA__Pr", "RA__Pr", "RL__Pr", "RA__Sc", "OP__Pr",
     "OC__Cl", "Copy__Primitive", "RT__Err", "Z__Region", "Unsigned__Compare",
     "Meta__class", "CP__Tab", "Cl__Ms" >>

VeneerNumber(name) == (CHOOSE n \in DOMAIN VeneerNames : VeneerNames[n] = name) - 1

\* What each explicitly calls; the last ones only trace or check.
VeneerNeeds ==
  [name \in {"WV__Pr", "RV__Pr", "IB__Pr", "IA__Pr", "DB__Pr", "DA__Pr", "RA__Sc"} |->
     << "RT__Err" >>]
  @@ ("CA__Pr" :> << "Z__Region", "Cl__Ms", "RT__Err" >>)
  @@ ("RA__Pr" :> << "CP__Tab" >>) @@ ("OP__Pr" :> << "Z__Region" >>)
  @@ ("OC__Cl" :> << "Z__Region", "RT__Err" >>)
  @@ ("Z__Region" :> << "Unsigned__Compare" >>) @@ ("Meta__class" :> << "Z__Region" >>)
  @@ ("Cl__Ms" :> << "RT__Err", "Copy__Primitive" >>)

RECURSIVE mark_as_needed(_, _)
mark_as_needed(c, name) ==
  IF name \in DOMAIN c.needed THEN c
  ELSE Folded(mark_as_needed, [c EXCEPT !.needed = (name :> "called") @@ @],
                IF name \in DOMAIN VeneerNeeds THEN VeneerNeeds[name] ELSE <<>>)

veneer_routine(name) == [LongConst(VeneerNumber(name)) EXCEPT !.m = "VROUTINE"]

\* A call of one: the result goes to st.
CallVeneer(c, name, args, st) ==
  assemblez_to(mark_as_needed(c, name), "call", << veneer_routine(name) >> \o args, st)

------------------------------------------------------------------------------
\* annotate_for_conditions: c.val is the annotated tree.

RECURSIVE Annotate(_, _, _, _)
Annotate(c, tree, a, b) ==
  LET op == tree.op
      isand == op = "&&"
      condition == op \in DOMAIN operators /\ operators[op].p \in {2, 3}
      toex == condition /\ a = -1 /\ b = -1
      new == c.nlab
      a1 == IF toex /\ ~ isand THEN new ELSE a
      b1 == IF toex /\ isand THEN new ELSE b
      d == IF toex THEN next_label(c) ELSE c
      \* the label after the node, which a missing label of "&&" or "||" stands for
      lacks == IF isand THEN b1 = -1 ELSE op = "||" /\ a1 = -1
      e == IF lacks THEN next_label(d) ELSE d
      after == IF lacks THEN d.nlab ELSE -1
      a2 == IF lacks /\ ~ isand THEN after ELSE a1
      b2 == IF lacks /\ isand THEN after ELSE b1
      Noted(kids) == [op |-> op, kids |-> kids, val |-> tree.val, a |-> a2, b |-> b2,
                      after |-> after, toex |-> toex]
      l == IF isand THEN Annotate(e, tree.kids[1], -1, b2)
           ELSE Annotate(e, tree.kids[1], a2, -1)
      r == Annotate(l, tree.kids[2], IF lacks /\ ~ isand THEN -1 ELSE a2,
                                     IF lacks /\ isand THEN -1 ELSE b2)
      others == Folded(LAMBDA p, kid : LET f == Annotate(p[1], kid, -1, -1)
                                         IN  << f, Append(p[2], f.val) >>,
                         << e, <<>> >>, tree.kids)
  IN  IF op \in {"&&", "||"} THEN [r EXCEPT !.val = Noted(<< l.val, r.val >>)]
      ELSE [others[1] EXCEPT !.val = Noted(others[2])]

------------------------------------------------------------------------------
\* Values.

value_in_void_context(c) == [Error(c) EXCEPT !.vivc = TRUE]

write_result(c, to, from) ==
  IF to.v = from.v THEN c
  ELSE IF to.v = 0 THEN assemblez(c, "push", << from >>) ELSE assemblez_store(c, to, from)

\* access_memory_z: a known array must be one that may be written to.
access_memory(c, op, x, y, z) ==
  LET known == { n \in DOMAIN c.arrays : /\ c.arrays[n].static = (x.m = "STATIC_ARRAY")
                                         /\ c.sym[c.arrays[n].s].v = x.v }
      unsized == known = {} \/ c.arrays[Max(known)].size = -1
      reads == op \in {"loadb", "loadw"}
      d == ErrorIf(x.m = "STATIC_ARRAY" /\ known # {} /\ ~ reads, c)
      e == IF x.m \in {"ARRAY", "STATIC_ARRAY"} /\ unsized THEN CompilerError(d) ELSE d
  IN  IF reads THEN assemblez_to(e, op, << x, y >>, z) ELSE assemblez(e, op, << x, y, z >>)

ArithmeticOpcode ==
  ("+" :> "add") @@ ("-" :> "sub") @@ ("*" :> "mul") @@ ("/" :> "div") @@ ("%" :> "mod")
  @@ ("&" :> "and") @@ ("|" :> "or")

\* try_optimize_expr_z, or else the instruction itself.
Arithmetic(c, op, x, y, st) ==
  LET Is(o, n) == o.t = Short /\ o.v = n /\ o.m = "NULL"
      Same(o) == operands_identical(o, st)
      Copy(o) == IF Same(o) THEN c ELSE assemblez_store(c, st, o)
  IN  CASE op = "add" /\ ((Same(x) /\ Is(y, 1)) \/ (Same(y) /\ Is(x, 1))) -> assemblez_inc(c, st)
        [] op = "sub" /\ Same(x) /\ Is(y, 1) -> assemblez_dec(c, st)
        [] op \in {"add", "sub"} /\ Is(y, 0) -> Copy(x)
        [] op = "add" /\ Is(x, 0) -> Copy(y)
        [] op \in {"mul", "div"} /\ Is(y, 1) -> Copy(x)
        [] op = "mul" /\ Is(x, 1) -> Copy(y)
        [] OTHER -> assemblez_to(c, op, << x, y >>, st)

\* Through what an assignment or a count goes: "->", "-->", "..", ".".
ThroughOf(op, forms) == Rewritten[CHOOSE n \in DOMAIN forms : forms[n] = op]

ReadThrough(c, by, x, y, st) ==
  CASE by = "->"  -> access_memory(c, "loadb", x, y, st)
    [] by = "-->" -> access_memory(c, "loadw", x, y, st)
    [] by = "."   -> assemblez_to(c, "get_prop", << x, y >>, st)

WriteThrough(c, by, x, y, z) ==
  CASE by = "->"  -> access_memory(c, "storeb", x, y, z)
    [] by = "-->" -> access_memory(c, "storew", x, y, z)
    [] by = "."   -> assemblez(c, "put_prop", << x, y, z >>)

\* ++, -- before or after what is not a variable.
CountThrough(c, by, up, post, v, void, st) ==
  LET read == ReadThrough(assemblez_store(assemblez_store(c, Temp1, v[1]), Temp2, v[2]),
                          by, Temp1, Temp2, Temp3)
      Give(d) == IF void THEN d ELSE write_result(d, st, Temp3)
      Count(d) == IF up THEN assemblez_inc(d, Temp3) ELSE assemblez_dec(d, Temp3)
      Write(d) == WriteThrough(d, by, Temp1, Temp2, Temp3)
  IN  IF post THEN Write(Count(Give(read))) ELSE Give(Write(Count(read)))

VeneerForm ==
  (".." :> "RV__Pr") @@ ("..&" :> "RA__Pr") @@ ("..#" :> "RL__Pr") @@ (".. =" :> "WV__Pr")
  @@ ("++.." :> "IB__Pr") @@ ("-- .." :> "DB__Pr") @@ ("..++" :> "IA__Pr")
  @@ ("..--" :> "DA__Pr") @@ ("::" :> "RA__Sc") @@ ("propcall" :> "CA__Pr")

\* A call: the routine and at most three arguments.
Call(c, args, st) ==
  assemblez_to(ErrorIf(Len(args) > 4, c), "call", SubSeq(args, 1, Min({Len(args), 4})), st)

------------------------------------------------------------------------------
\* System functions.

\* random(a, b, ...): one of the constants, from an array made for it.
RandomOf(c, v, st) ==
  LET bad == Cardinality({ i \in DOMAIN v : v[i].t = Variable })
      begun == begin_word_array([c EXCEPT !.err = @ + bad])
      array == [LongConst(begun.array.base) EXCEPT !.m = "ARRAY"]
      d == finish_array(Folded(array_entry, begun, v), Len(v))
      drawn == assemblez_to(d, "random", << ShortConst(Len(v)) >>, Temp1)
  IN  assemblez_to(assemblez_dec(drawn, Temp1), "loadw", << array, Temp1 >>, st)

\* The number of the children of x, counted in Temp1.
Children(c, x, void, st) ==
  LET n == c.nlab
      first == assemblez_objcode(assemblez_store(c, Temp1, zero_operand), "get_child", x, sp,
                                 n + 1, FALSE)
      loop == assemblez_objcode(assemblez_inc(assemble_label_no(first, n), Temp1),
                                "get_sibling", sp, sp, n, TRUE)
      d == assemblez_store(assemble_label_no(loop, n + 1), Temp2, sp)
  IN  [(IF void THEN d ELSE write_result(d, st, Temp1)) EXCEPT !.nlab = n + 2]

\* The last child of x.
Youngest(c, x, void, st) ==
  LET n == c.nlab
      first == assemblez(assemblez_objcode(c, "get_child", x, Temp1, n + 1, FALSE), "push",
                         << Temp1 >>)
      loop == assemblez_objcode(assemblez_store(assemble_label_no(first, n), Temp1, sp),
                                "get_sibling", Temp1, sp, n, TRUE)
      d == assemble_label_no(loop, n + 1)
  IN  [(IF void THEN d ELSE write_result(d, st, Temp1)) EXCEPT !.nlab = n + 2]

\* The child before x among those of its parent.
Elder(c, x, void, st) ==
  LET n == c.nlab
      up == assemblez_to(assemblez_store(c, Temp1, x), "get_parent", << Temp1 >>, Temp3)
      start == assemblez_store(assemblez_store(
                 assemblez_branch(up, "jz", << Temp3 >>, n + 1, TRUE), Temp2, Temp3),
                 Temp3, zero_operand)
      child == assemblez_objcode(start, "get_child", Temp2, Temp2, n, TRUE)
      test == assemblez_branch(assemble_label_no(child, n), "je", << Temp1, Temp2 >>, n + 1, TRUE)
      loop == assemblez_objcode(assemblez_store(test, Temp3, Temp2), "get_sibling", Temp2,
                                Temp2, n, TRUE)
      d == [assemble_label_no(loop, n + 1) EXCEPT !.nlab = n + 2]
  IN  IF void THEN d ELSE write_result(d, st, Temp3)

\* v: the arguments.  Without one, what is compiled is not defined: here nothing.
SystemCall(c, name, v, void, st) ==
  LET many == name # "random" /\ Len(v) > IF name = "indirect" THEN 7 ELSE 1
      d == ErrorIf(v = <<>> \/ many, c)
  IN  CASE v = <<>> -> d
        [] v # <<>> /\ name = "random" ->
             IF Len(v) > 1 THEN RandomOf(d, v, st) ELSE assemblez_to(d, "random", v, st)
        [] v # <<>> /\ name = "parent" -> assemblez_to(d, "get_parent", << v[1] >>, st)
        [] v # <<>> /\ name \in {"child", "eldest"} ->
             assemblez_objcode(d, "get_child", v[1], st, -2, TRUE)
        [] v # <<>> /\ name \in {"sibling", "younger"} ->
             assemblez_objcode(d, "get_sibling", v[1], st, -2, TRUE)
        [] v # <<>> /\ name = "indirect" -> Call(d, v, st)
        [] v # <<>> /\ name = "children" -> Children(d, v[1], void, st)
        [] v # <<>> /\ name = "youngest" -> Youngest(d, v[1], void, st)
        [] v # <<>> /\ name = "elder" -> Elder(d, v[1], void, st)
        [] v # <<>> /\ name = "metaclass" -> CallVeneer(d, "Meta__class", << v[1] >>, st)
        [] OTHER -> Error(d)

------------------------------------------------------------------------------
\* Conditions.

\* The opcode, or the veneer's routine, and the sense of each condition.
ConditionOf ==
  ("zero" :> << "jz", TRUE >>) @@ ("nonzero" :> << "jz", FALSE >>)
  @@ ("==" :> << "je", TRUE >>) @@ ("~=" :> << "je", FALSE >>)
  @@ (">=" :> << "jl", FALSE >>) @@ (">" :> << "jg", TRUE >>)
  @@ ("<=" :> << "jg", FALSE >>) @@ ("<" :> << "jl", TRUE >>)
  @@ ("has" :> << "test_attr", TRUE >>) @@ ("hasnt" :> << "test_attr", FALSE >>)
  @@ ("in" :> << "jin", TRUE >>) @@ ("notin" :> << "jin", FALSE >>)
  @@ ("ofclass" :> << "OC__Cl", TRUE >>) @@ ("notofclass" :> << "OC__Cl", FALSE >>)
  @@ ("provides" :> << "OP__Pr", TRUE >>) @@ ("notprovides" :> << "OP__Pr", FALSE >>)

compile_conditional(c, oc, x, y, label, flag) ==
  IF oc \in DOMAIN opcodes_table_z THEN assemblez_branch(c, oc, << x, y >>, label, flag)
  ELSE assemblez_branch(CallVeneer(c, oc, << x, y >>, sp), "jz", << sp >>, label, ~ flag)

\* x against the values that "or" joins: away if one is so (or not so).
RECURSIVE OrTests(_, _, _, _, _, _, _)
OrTests(c, oc, x, v, away, other, flag) ==
  LET n == Len(v)
      last == n = 1 \/ (oc = "je" /\ n \in {2, 3})
      take == IF oc = "je" /\ n > 1 THEN Min({n, 3}) ELSE 1
      to == IF last \/ flag THEN << away, flag >> ELSE << other, ~ flag >>
      d == IF take = 1 THEN compile_conditional(c, oc, x, v[1], to[1], to[2])
           ELSE assemblez_branch(c, "je", << x >> \o SubSeq(v, 1, take), to[1], to[2])
  IN  IF n = 0 THEN c
      ELSE OrTests(d, oc, x, SubSeq(v, take + 1, n), away, other, flag)

\* n is the node, v the values of its operands.
Conditional(c, n, v) ==
  LET arity == Len(v)
      zero == /\ ConditionOf[n.op][1] = "je" /\ arity = 2 /\ v[2].v = 0 /\ v[2].t = Short
              /\ v[2].m \in {"NULL", "ACTION"}
      oc == IF zero THEN "jz" ELSE ConditionOf[n.op][1]
      flag == IF n.a = -1 THEN ~ ConditionOf[n.op][2] ELSE ConditionOf[n.op][2]
      away == IF n.a = -1 THEN n.b ELSE n.a
      given == IF n.a = -1 THEN -1 ELSE n.b
      apart == (oc # "je" /\ arity > 2) \/ arity > 4
      made == apart /\ ~ flag /\ given = -1
      other == IF made THEN c.nlab ELSE given
      d == IF made THEN next_label(c) ELSE c
      moved == v[1].t = Variable /\ v[1].v = 0 /\ (oc # "je" \/ arity > 4)
      tested == CASE oc = "jz" -> assemblez_branch(d, "jz", << v[1] >>, away, flag)
                  [] oc # "jz" /\ arity = 2 -> compile_conditional(d, oc, v[1], v[2], away, flag)
                  [] OTHER -> OrTests(IF moved THEN assemblez_store(d, Temp1, v[1]) ELSE d, oc,
                                      IF moved THEN Temp1 ELSE v[1], Tail(v), away, other, flag)
      placed == IF made THEN assemble_label_no(tested, other) ELSE tested
  IN  IF given # -1 THEN assemblez_jump(placed, given) ELSE placed

\* OperatorGenerated: a condition that is to be a value pushes 0 or 1.
ToValue(c, n, void) ==
  LET true == n.a # -1
      place == IF true THEN n.a ELSE n.b
      done == c.nlab
      d == next_label(c)
      fall == IF d.dead # {} THEN d
              ELSE assemblez_jump(assemblez(d, "push", << IF true THEN zero_operand
                                                          ELSE one_operand >>), done)
      other == assemblez(assemble_label_no(fall, place), "push",
                         << IF true THEN one_operand ELSE zero_operand >>)
  IN  IF void THEN assemble_label_no(c, place) ELSE assemble_forward_label_no(other, done)

OperatorGenerated(c, n, void, value) ==
  IF n.toex THEN [ToValue(c, n, void) EXCEPT !.val = sp]
  ELSE [(IF n.after = -1 THEN c ELSE assemble_label_no(c, n.after)) EXCEPT !.val = value]

------------------------------------------------------------------------------
\* The operators that produce a value.

SideEffects ==
  requires_lvalue \cup {"call", "propcall"}
  \cup ToSet(AssignOps \o IncOps \o DecOps \o PostIncOps \o PostDecOps)

Assign(c, by, v, void, st) ==
  IF void THEN WriteThrough(c, by, v[1], v[2], v[3])
  ELSE write_result(WriteThrough(assemblez_store(c, Temp1, v[3]), by, v[1], v[2], Temp1),
                    st, Temp1)

\* v: the values of the operands, st: where the result goes.
Operate(c, op, v, void, st) ==
  LET Give(d, from) == IF void THEN d ELSE write_result(d, st, from)
      address == assemblez_to(c, "get_prop_addr", << v[1], v[2] >>, Temp1)
      length == assemblez_to(assemblez_branch(address, "jz", << Temp1 >>, c.nlab, TRUE),
                             "get_prop_len", << Temp1 >>, Temp1)
      system == op = "call" /\ IsSystemFunction(v[1])
      Counting(forms, up, post) == CountThrough(c, ThroughOf(op, forms), up, post, v, void, st)
  IN  CASE op \in DOMAIN ArithmeticOpcode -> Arithmetic(c, ArithmeticOpcode[op], v[1], v[2], st)
        [] op \in {"->", "-->", "."} -> ReadThrough(c, op, v[1], v[2], st)
        [] op = "-u" -> assemblez_to(c, "sub", << zero_operand, v[1] >>, st)
        [] op = "~"  -> assemblez_to(c, "not", << v[1] >>, st)
        [] op = ".&" -> assemblez_to(c, "get_prop_addr", << v[1], v[2] >>, st)
        [] op = ".#" -> Give(assemble_label_no(next_label(length), c.nlab), Temp1)
        [] op \in DOMAIN VeneerForm ->
             Call(mark_as_needed(c, VeneerForm[op]), << veneer_routine(VeneerForm[op]) >> \o v, st)
        [] op = "call" ->
             IF system THEN SystemCall(c, SystemFunctionList[v[1].v - 255], Tail(v), void, st)
             ELSE Call(c, v, st)
        [] op = "=" -> Give(assemblez_store(c, v[1], v[2]), v[1])
        [] op \in ToSet(AssignOps) /\ op # ".. =" ->
             Assign(c, ThroughOf(op, AssignOps), v, void, st)
        [] op = "++" -> Give(assemblez_inc(c, v[1]), v[1])
        [] op = "--" -> Give(assemblez_dec(c, v[1]), v[1])
        [] op = "post++" -> assemblez_inc(Give(c, v[1]), v[1])
        [] op = "post--" -> assemblez_dec(Give(c, v[1]), v[1])
        [] op \in ToSet(IncOps) \ {"++.."}      -> Counting(IncOps, TRUE, FALSE)
        [] op \in ToSet(DecOps) \ {"-- .."}     -> Counting(DecOps, FALSE, FALSE)
        [] op \in ToSet(PostIncOps) \ {"..++"}  -> Counting(PostIncOps, TRUE, TRUE)
        [] op \in ToSet(PostDecOps) \ {"..--"}  -> Counting(PostDecOps, FALSE, TRUE)
        [] OTHER -> CompilerError(c)

\* generate_code_from: c.val is the value of the node, c.took whether it went to
\* "into", the variable that an "=" above assigns (or Omitted).
RECURSIVE Generate(_, _, _, _), GenerateKids(_, _)
Generate(c, n, void, into) ==
  LET nowhere == Operand(Omitted, 0)
      Of(d, kid, v) == Generate(d, kid, v, nowhere)
      left == Of(c, n.kids[1], n.op = ",")
      both == Of(left, n.kids[2], n.op = "," /\ void)
      pegged == ~ void /\ into.t # Omitted
      st == CASE void -> Temp1 [] pegged -> into [] OTHER -> sp
      Done(e) == [e EXCEPT !.took = FALSE]
      Operated(down) ==
        LET d == Operate(ErrorIf(void /\ n.op \notin SideEffects, down), n.op, down.val, void, st)
        IN  CASE n.op \in DOMAIN ConditionOf ->
                   Done(OperatorGenerated(Conditional(down, n, down.val), n, void, zero_operand))
              [] n.op = "=" /\ down.took -> Done([down EXCEPT !.val = down.val[1]])
              [] OTHER -> [OperatorGenerated(d, n, void, st) EXCEPT !.took = pegged]
  IN  CASE n.kids = <<>> ->
             Done([(IF void /\ n.val.t # Omitted THEN value_in_void_context(c) ELSE c)
                     EXCEPT !.val = n.val])
        [] n.op \in {",", "&&", "||"} -> Done(OperatorGenerated(both, n, void, both.val))
        [] OTHER -> Then(GenerateKids(c, n), Operated)

\* The operands, the last one first: c.val is their values.
GenerateKids(c, n) ==
  LET into == IF n.op = "=" THEN n.kids[1].val ELSE Operand(Omitted, 0)
      Next(d, kid) == LET e == Generate(d, kid, FALSE, into)
                      IN  [e EXCEPT !.val = << @ >> \o d.val, !.took = @ \/ d.took]
  IN  Folded(Next, [c EXCEPT !.val = <<>>, !.took = FALSE], Reverse(n.kids))

\* code_generate: c.val is the operand that holds the result; a condition branches
\* to the label if it is false, to rfalse or rtrue (-3, -4) if it is true.
code_generate(c, o, context, label) ==
  LET onTrue == context = "CONDITION" /\ label < -2
      d == [c EXCEPT !.vivc = FALSE]
      annotated == Annotate(d, o.v, IF onTrue THEN label ELSE -1,
                            IF context = "CONDITION" /\ ~ onTrue THEN label ELSE -1)
  IN  CASE o.t # Expression /\ context = "VOID" ->
             [value_in_void_context(d) EXCEPT !.val = Operand(Omitted, 0)]
        [] o.t # Expression /\ context = "CONDITION" ->
             [assemblez_branch(d, "jz", << o >>, label, ~ onTrue)
                EXCEPT !.val = Operand(Omitted, 0)]
        [] o.t # Expression /\ context \notin {"VOID", "CONDITION"} -> [d EXCEPT !.val = o]
        [] OTHER ->
             Generate(annotated, annotated.val, context = "VOID", Operand(Omitted, 0))
=============================================================================
