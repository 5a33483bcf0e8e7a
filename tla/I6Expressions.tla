---------------------------- MODULE I6Expressions ----------------------------
(***************************************************************************)
(* Inform 6: the expression parser (expressp.c).                           *)
(*                                                                         *)
(* A shift-reduce parser over operator precedences.  Its values are        *)
(* operands; what cannot be folded into a constant becomes a tree, which   *)
(* is then rewritten: property operators, assignments to what is not a     *)
(* variable, and conditions.  The compiler keeps trees as nodes with       *)
(* links; here a tree is [op, kids, val], op "" for a leaf.                *)
(* Field ex of the state is the parser's own: the shift stack sr, the      *)
(* emitter stack em ([op, mark, br]: the operand, what follows it, and the *)
(* brackets open after it), the tokens, the bracket level and what the     *)
(* context allows.  Warnings about property names are left out.            *)
(***************************************************************************)
EXTENDS I6Asm

------------------------------------------------------------------------------
\* The operators: precedence, usage, associativity.  An operator is named by its
\* separator or keyword; "-u" is the unary minus, "post++" and "post--" the
\* postfix forms, "call" the function call; the others are made by rewriting.

Like(names, p, use, as) == [n \in names |-> [p |-> p, use |-> use, as |-> as]]

Rewritten == << "->", "-->", "..", "." >>
AssignOps == << "-> =", "--> =", ".. =", ". =" >>
IncOps == << "++->", "++-->", "++..", "++." >>
DecOps == << "-- ->", "-- -->", "-- ..", "-- ." >>
PostIncOps == << "->++", "-->++", "..++", ".++" >>
PostDecOps == << "->--", "-->--", "..--", ".--" >>

operators ==
  Like({","}, 0, "in", "L") @@ Like({"="}, 1, "in", "R")
  @@ Like({"&&", "||"}, 2, "in", "L") @@ Like({"~~"}, 2, "pre", "R")
  @@ Like({"==", "~=", ">=", ">", "<=", "<", "has", "hasnt", "in", "notin", "ofclass",
           "provides"}, 3, "in", "none")
  @@ Like({"zero", "nonzero", "notofclass", "notprovides"}, 3, "none", "none")
  @@ Like({"or"}, 4, "in", "L") @@ Like({"+", "-"}, 5, "in", "L")
  @@ Like({"*", "/", "%", "&", "|"}, 6, "in", "L") @@ Like({"~"}, 6, "pre", "R")
  @@ Like({"->", "-->"}, 7, "in", "L") @@ Like({"-u"}, 8, "pre", "R")
  @@ Like({"++", "--"}, 9, "pre", "R") @@ Like({"post++", "post--"}, 9, "post", "R")
  @@ Like({".&", ".#", "..&", "..#"}, 10, "in", "L") @@ Like({"call"}, 11, "in", "L")
  @@ Like({"..", "."}, 12, "in", "L") @@ Like({"::"}, 13, "in", "L")
  @@ Like(ToSet(AssignOps), 1, "none", "none")
  @@ Like(ToSet(IncOps \o DecOps \o PostIncOps \o PostDecOps), 9, "none", "none")
  @@ Like({"propcall"}, 11, "none", "none")

requires_lvalue == {"=", "++", "post++", "--", "post--"}

NegationPairs ==
  << <<"&&", "||">>, <<"zero", "nonzero">>, <<"==", "~=">>, <<">=", "<">>, <<">", "<=">>,
     <<"has", "hasnt">>, <<"in", "notin">>, <<"ofclass", "notofclass">>,
     <<"provides", "notprovides">>, <<"~~", "~~">> >>

\* The operator that states the opposite; none for what is not a condition.
Negation ==
  [op \in UNION { ToSet(NegationPairs[n]) : n \in DOMAIN NegationPairs } |->
     LET n == CHOOSE k \in DOMAIN NegationPairs : op \in ToSet(NegationPairs[k])
     IN  IF op = NegationPairs[n][1] THEN NegationPairs[n][2] ELSE NegationPairs[n][1]]

------------------------------------------------------------------------------
\* Tokens of an expression: x names the operator or the lexeme.

zero_operand == ShortConst(0)
one_operand == ShortConst(1)
error_operand == [zero_operand EXCEPT !.m = "ERROR"]

Etoken(t, x) == [t |-> t, x |-> x, v |-> 0, m |-> "NULL", s |-> ""]
Number(n) == [Etoken(IF n \in 0 .. 255 THEN "SMALL" ELSE "LARGE", "") EXCEPT !.v = n]

\* A symbol as a value: marked when it is only known when the story is laid out.
ReceiveSymbol(c, s) ==
  LET sym == c.sym[s]
      unknown == sym.ty = "CONSTANT" /\ sym.fl \cap {"UNKNOWN", "CHANGE"} # {}
      replaced == sym.ty = "ROUTINE" /\ "REPLACE" \in sym.fl
      m == CASE "SYSTEM" \in sym.fl -> "NULL"
             [] "SYSTEM" \notin sym.fl /\ (unknown \/ replaced) -> "SYMBOL"
             [] sym.ty = "ROUTINE" /\ "SYSTEM" \notin sym.fl /\ ~ replaced -> "IROUTINE"
             [] sym.ty \in {"ARRAY", "STATIC_ARRAY"} /\ "SYSTEM" \notin sym.fl -> sym.ty
             [] OTHER -> "NULL"
      v == IF unknown \/ replaced THEN sym.no ELSE sym.v
      t == CASE sym.ty = "GLOBAL_VARIABLE" -> "VARIABLE"
             [] sym.ty # "GLOBAL_VARIABLE" /\ (m # "NULL" \/ v \notin 0 .. 255) -> "LARGE"
             [] OTHER -> "SMALL"
  IN  [ErrorIf(sym.ty = "LABEL", c) EXCEPT
         !.ex.cur = [t |-> t, x |-> s, v |-> v, m |-> m, s |-> s]]

Cur(c, token) == [c EXCEPT !.ex.cur = token]
As(c, t) == [c EXCEPT !.ex.cur.t = t]

\* Before the current token stands something that must be followed by a term.
TermExpected(c) == c.ex.prev.t \in {"OP", "SUBOPEN", "ENDEXP"}
AfterValue(c) == c.ex.prev.t \in {"VARIABLE", "SUBCLOSE", "LARGE", "SMALL"}

\* ">" ends an expression that a ">" or a ";" follows: <Take box>;
EndsAction(c) ==
  LET d == get_next_token(c)
      e == put_token_back(d)
  IN  IF d.tok.t = "SEP" /\ d.tok.x \in {";", ">"} THEN As(e, "ENDEXP") ELSE e

\* "(" opens a subexpression, or else a call operator goes before it.
OpenBracket(c) ==
  LET d == [c EXCEPT !.ex.level = @ + 1]
  IN  IF TermExpected(c) \/ c.ex.ambiguous \/ (d.ex.level = 1 /\ c.ex.action)
      THEN As(d, "SUBOPEN")
      ELSE [c EXCEPT !.ex.held = <<c.ex.cur>>, !.ex.cur.x = "call"]

HashToken(c) ==
  LET name == Hashed[c.ex.cur.x][2]
      mark == Hashed[c.ex.cur.x][1]
  IN  CASE mark \in {"##", "#a$"} -> Cur(c, [Etoken("ACTION", name) EXCEPT !.m = "ACTION"])
        [] mark = "#n$" -> Cur(c, [Etoken("DICTWORD", name) EXCEPT !.m = "DWORD"])
        [] mark = "#r$" -> ReceiveSymbol(symbol_index(c, name), name)
        [] mark = "#g$" ->
             IF Known(c, name) /\ c.sym[name].ty = "GLOBAL_VARIABLE"
               THEN Cur(c, Number(c.sym[name].v - 16)) ELSE Cur(Error(c), Number(0))
        [] OTHER -> Error(c)

\* "#name", a system constant.
HashConstant(c) ==
  LET d == Disable(get_next_token(Enable(c, {"sysconsts"})), {"sysconsts"})
  IN  IF d.tok.t = "SYSTEM_CONSTANT"
        THEN Cur(d, [Etoken("SYSTEM_CONSTANT", d.tok.x) EXCEPT !.m = "INCON"])
        ELSE Error(d)

Separator(c) ==
  LET x == c.ex.cur.x
  IN  CASE x = "->" -> IF c.ex.arrow THEN c ELSE As(c, "ENDEXP")
        [] x = ","  -> IF c.ex.level # 0 \/ c.ex.comma THEN c ELSE As(c, "ENDEXP")
        [] x = "::" -> IF c.ex.level # 0 \/ c.ex.superclass THEN c ELSE As(c, "ENDEXP")
        [] x = ">"  -> EndsAction(c)
        [] x = "("  -> OpenBracket(c)
        [] x = ")"  -> LET d == [c EXCEPT !.ex.level = @ - 1]
                       IN  As(d, IF d.ex.level < 0 THEN "ENDEXP" ELSE "SUBCLOSE")
        [] x = ";"  -> As(c, "ENDEXP")
        [] x = "-"  -> IF TermExpected(c) THEN [c EXCEPT !.ex.cur.x = "-u"] ELSE c
        [] x = "++" -> IF AfterValue(c) THEN [c EXCEPT !.ex.cur.x = "post++"] ELSE c
        [] x = "--" -> IF AfterValue(c) THEN [c EXCEPT !.ex.cur.x = "post--"] ELSE c
        [] x = "#"  -> HashConstant(c)
        [] x \in DOMAIN Hashed -> HashToken(c)
        [] OTHER -> c

\* The current token as a token of an expression.
Converted(c) ==
  LET x == c.ex.cur.x
  IN  CASE c.ex.cur.t = "LOCAL_VARIABLE" -> As(c, "VARIABLE")
        [] c.ex.cur.t = "DQ" -> [c EXCEPT !.ex.cur.m = "STRING"]
        [] c.ex.cur.t = "SQ" ->
             IF Len(Primed[x]) = 1 THEN Cur(c, Number(CodeOf[Primed[x][1]]))
             ELSE Cur(c, [Etoken("DICTWORD", x) EXCEPT !.m = "DWORD"])
        [] c.ex.cur.t = "SYMBOL" -> ReceiveSymbol(c, x)
        [] c.ex.cur.t = "NUMBER" -> Cur(c, Number(c.ex.cur.v))
        [] c.ex.cur.t = "SEP" -> Separator(c)
        [] c.ex.cur.t = "CND" -> As(c, "OP")
        [] OTHER -> c

\* ".." and "..#" are operators only in the veneer.
AsOperator(c) ==
  IF /\ c.ex.cur.t = "SEP" /\ c.ex.cur.x \in DOMAIN operators
     /\ c.veneer \/ c.ex.cur.x \notin {"..", "..#"}
    THEN As(c, "OP") ELSE c

Allowable == { "VARIABLE", "SYSFUN", "DQ", "DICTWORD", "SUBOPEN", "SUBCLOSE", "SMALL",
               "LARGE", "ACTION", "SYSTEM_CONSTANT", "OP" }

\* No separator need end an expression: a term after a term does.
NoLongerPart(c, level) ==
  /\ ~ \/ level > 0
       \/ c.ex.prev.t \in {"ENDEXP", "SYSFUN"}
       \/ c.ex.prev.t = "OP" /\ operators[c.ex.prev.x].use # "post"
  /\ c.ex.cur.t # "OP" \/ operators[c.ex.cur.x].use = "pre"

\* get_next_etoken: c.val is 0 if there is no token of an expression.
get_next_etoken(c) ==
  LET read == get_next_token(c)
      fetched == IF c.ex.held # <<>> THEN [c EXCEPT !.ex.cur = c.ex.held[1], !.ex.held = <<>>]
                 ELSE Cur(read, [Etoken(read.tok.t, read.tok.x) EXCEPT !.v = read.tok.v])
      d == AsOperator(Converted(fetched))
      e == IF d.ex.cur.t \notin Allowable \/ NoLongerPart(d, c.ex.level) THEN As(d, "ENDEXP")
           ELSE IF d.ex.cur.s = "" THEN d ELSE WithFlag(d, d.ex.cur.s, "USED")
  IN  IF e.ex.prev.t = "ENDEXP" /\ e.ex.cur.t = "ENDEXP" THEN [e EXCEPT !.val = 0]
      ELSE [e EXCEPT !.ex.prev = e.ex.cur, !.val = 1]

------------------------------------------------------------------------------
\* Precedences.

Column(a) ==
  CASE a.t = "SUBOPEN"  -> 1
    [] a.t = "SUBCLOSE" -> 2
    [] a.t = "ENDEXP"   -> 3
    [] a.t = "OP"       -> CASE operators[a.x].use = "pre" -> 4
                             [] operators[a.x].use = "post" -> 6
                             [] OTHER -> 5
    [] OTHER            -> 7

\* The row of the token on the right, the column of the one on the left.
prec_table ==
  << << "LOWER", "NOOP",    "LOWER",  "LOWER",   "LOWER",   "NOOP",    "NOOP" >>,
     << "EQUAL", "GREATER", "CLOSEB", "GREATER", "GREATER", "GREATER", "GREATER" >>,
     << "OPENB", "GREATER", "NOVAL",  "GREATER", "GREATER", "GREATER", "GREATER" >>,
     << "LOWER", "NOOP",    "LOWER",  "BYPREC",  "BYPREC",  "NOOP",    "NOOP" >>,
     << "LOWER", "GREATER", "LOWER",  "BYPREC",  "BYPREC",  "BYPREC",  "GREATER" >>,
     << "LOWER", "GREATER", "LOWER",  "BYPREC",  "BYPREC",  "BYPREC",  "GREATER" >>,
     << "LOWER", "NOOP",    "LOWER",  "LOWER",   "LOWER",   "NOOP",    "NOOP" >> >>

\* a stands to the left of b.
find_prec(a, b) ==
  LET found == prec_table[Column(b)][Column(a)]
      l1 == operators[a.x].p
      l2 == operators[b.x].p
  IN  CASE found # "BYPREC" -> found
        [] found = "BYPREC" /\ operators[b.x].use = "pre" -> "LOWER"
        [] OTHER ->
             IF operators[a.x].use = "post" \/ (l1 = 11 /\ l2 > 11) \/ l1 > l2 THEN "GREATER"
             ELSE IF l1 < l2 THEN "LOWER"
             ELSE CASE operators[a.x].as = "L" -> "GREATER"
                    [] operators[a.x].as = "R" -> "LOWER"
                    [] OTHER -> "ASSOC"

------------------------------------------------------------------------------
\* Terms.

\* action_of_name: a new name is a new action; c.val is the operand.
action_of_name(c, name) ==
  LET s == name \o "__A"
      d == symbol_index(c, s)
      n == Len(d.actions)
      e == [assign_symbol(d, s, n, "CONSTANT") EXCEPT
              !.sym[s].fl = @ \cup {"ACTION"},
              !.actions = Append(@, [s |-> s, name |-> name, at |-> 0])]
  IN  CASE d.sym[s].ty = "FAKE_ACTION" -> [d EXCEPT !.val = LongConst(d.sym[s].v)]
        [] d.sym[s].ty # "FAKE_ACTION" /\ Has(d, s, "UNKNOWN") ->
             IF n >= (IF c.gver = 1 THEN 256 ELSE 1024) THEN [Error(d) EXCEPT !.val = LongConst(0)]
             ELSE [e EXCEPT !.val = [Const(n) EXCEPT !.m = "ACTION"]]
        [] OTHER -> [d EXCEPT !.val = [Const(d.sym[s].v) EXCEPT !.m = "ACTION"]]

SystemFunction(x) ==
  VarOp(255 + CHOOSE n \in DOMAIN SystemFunctionList : SystemFunctionList[n] = x)

SystemConstant(x) ==
  IF x = "version_number" THEN ShortConst(3)
  ELSE IF x = "oddeven_packing" THEN ShortConst(0)
  ELSE [LongConst(CHOOSE n \in DOMAIN SystemConstantList : SystemConstantList[n] = x)
          EXCEPT !.m = "INCON"]

\* evaluate_term: c.val is the operand.  A token of another type, the 0 that
\* stands for a missing operand, is not understood.
evaluate_term(c, t) ==
  LET WithMark(o) == [o EXCEPT !.m = t.m, !.s = t.s]
      Value(d, o) == [d EXCEPT !.val = o]
      Added == dictionary_add(c, Primed[t.x], Noun_dflag, 0, 0)
      Compiled == compile_string(c, Quoted[t.x], "GAME")
  IN  CASE t.t = "LARGE"    -> Value(c, WithMark(LongConst(t.v % 65536)))
        [] t.t = "SMALL"    -> Value(c, WithMark(ShortConst(t.v)))
        [] t.t = "DICTWORD" -> Value(Added, WithMark(LongConst(Added.val)))
        [] t.t = "DQ"       -> Value(Compiled, WithMark(LongConst(Compiled.val)))
        [] t.t = "VARIABLE" -> Value(c, WithMark(VarOp(t.v)))
        [] t.t = "SYSFUN"   -> Value(c, SystemFunction(t.x))
        [] t.t = "ACTION"   -> action_of_name(c, t.x)
        [] t.t = "SYSTEM_CONSTANT" -> Value(c, SystemConstant(t.x))
        [] OTHER -> Value(CompilerError(c), zero_operand)

------------------------------------------------------------------------------
\* The emitter.

Leaf(o) == [op |-> "", kids |-> <<>>, val |-> o]
Node(op, kids) == [op |-> op, kids |-> kids, val |-> zero_operand]
IsLeaf(tree) == tree.op = ""
TreeOf(o) == IF o.t = Expression THEN o.v ELSE Leaf(o)

Entry(o) == [op |-> o, mark |-> "", br |-> 0]
Plain(e) == e.mark = "" /\ e.br = 0

\* How many entries from the one at top downwards are so.
Run(em, top, Is(_)) == Max({ k \in 0 .. top : \A i \in top - k + 1 .. top : Is(em[i]) })

Push(c, o) == [c EXCEPT !.ex.em = Append(@, Entry(o))]

mark_top_of_emitter_stack(c, mark) ==
  LET n == Len(c.ex.em)
      Mark(d) == [d EXCEPT !.ex.em[Len(d.ex.em)].mark = mark]
  IN  CASE n < 1 -> CompilerError(c)
        [] n >= 1 /\ c.ex.em[n].mark # "" ->
             IF mark = "ARGUMENT" THEN c ELSE Mark(Push(Error(c), zero_operand))
        [] OTHER -> Mark(c)

add_bracket_layer_to_emitter_stack(c, depth) ==
  LET n == Len(c.ex.em) - depth
  IN  IF n < 1 THEN c ELSE [c EXCEPT !.ex.em[n].br = @ + 1]

remove_bracket_layer_from_emitter_stack(c) ==
  LET n == Len(c.ex.em) - 1
  IN  IF n < 1 THEN c
      ELSE IF c.ex.em[n].br <= 0 THEN CompilerError(c)
      ELSE [c EXCEPT !.ex.em[n].br = @ - 1]

\* ")" : one value stands between the brackets.
EmitClose(c, size) ==
  LET below == Len(c.ex.em) - size
      fenced == below > 0 /\ c.ex.em[below].br > 0
      filled == CASE size = 0 -> Push(Error(c), zero_operand)
                  [] size > 1 -> CompilerError(c)
                  [] OTHER -> c
  IN  IF fenced THEN remove_bracket_layer_from_emitter_stack(filled) ELSE c

\* The function and its arguments; a system function is not an argument.
CallArity(em) == 1 + Run(em, Len(em), LAMBDA e : e.mark # "FUNCTION")

IsSystemFunction(o) == o.t = Variable /\ o.v \in 256 .. 287

CleanArguments(c, arity) ==
  LET n == Len(c.ex.em)
      bad == { i \in n - arity + 2 .. n : IsSystemFunction(c.ex.em[i].op) }
  IN  [c EXCEPT !.err = @ + Cardinality(bad),
                !.ex.em = [i \in DOMAIN @ |->
                             IF i \in bad THEN [@[i] EXCEPT !.op = zero_operand] ELSE @[i]]]

\* A condition takes its left value and all that "or" joins to the right: <<the
\* operands it takes, the ones there are>>.  The ones below the last value are
\* counted again when there is no "or", which only hides a missing operand.
ConditionArity(em, size) ==
  LET n == Len(em)
      ors == Run(em, n - 1, LAMBDA e : e.mark = "OR" /\ e.br = 0)
      plain == Run(em, n - 1 - ors, Plain)
  IN  IF n > 0 /\ Plain(em[n]) THEN << 2 + ors, size + ors + plain >> ELSE << 2, size >>

Arity(c, op, size) ==
  CASE operators[op].p = 3 -> ConditionArity(c.ex.em, size)
    [] operators[op].use = "in" /\ operators[op].p # 3 -> << 2, size >>
    [] OTHER -> << 1, size >>

RECURSIVE PushZeros(_, _)
PushZeros(c, n) == IF n <= 0 THEN c ELSE PushZeros(Push(c, zero_operand), n - 1)

IsKnown(o) == is_constant_ot(o.t) /\ o.m = "NULL"
Signed(v) == IF v >= 32768 THEN v - 65536 ELSE v
Truth(b) == IF b THEN 1 ELSE 0
Magnitude(v) == IF v < 0 THEN - v ELSE v

\* Division of the magnitudes; the remainder has the sign of the dividend.
Quotient(a, b) ==
  IF b = 0 THEN 0
  ELSE LET q == Magnitude(a) \div Magnitude(b) IN IF (a < 0) = (b < 0) THEN q ELSE - q
Modulo(a, b) ==
  IF b = 0 THEN 0
  ELSE LET r == Magnitude(a) % Magnitude(b) IN IF a < 0 THEN - r ELSE r

Foldable1 == {"-u", "~", "~~"}
Foldable2 == {"+", "-", "*", "/", "%", "&", "|", "==", "~=", ">=", ">", "<=", "<", "&&", "||"}

Folded1(op, v) ==
  CASE op = "-u" -> - v
    [] op = "~"  -> 65535 - v
    [] op = "~~" -> Truth(v = 0)

\* The comparisons are of the values without their sign.
Folded2(op, v1, v2) ==
  LET a == Signed(v1)
      b == Signed(v2)
  IN  CASE op = "+"  -> a + b
        [] op = "-"  -> a - b
        [] op = "*"  -> a * b
        [] op = "/"  -> Quotient(a, b)
        [] op = "%"  -> Modulo(a, b)
        [] op = "&"  -> v1 & v2
        [] op = "|"  -> v1 | v2
        [] op = "==" -> Truth(v1 = v2)
        [] op = "~=" -> Truth(v1 # v2)
        [] op = ">=" -> Truth(v1 >= v2)
        [] op = ">"  -> Truth(v1 > v2)
        [] op = "<=" -> Truth(v1 <= v2)
        [] op = "<"  -> Truth(v1 < v2)
        [] op = "&&" -> Truth(v1 # 0 /\ v2 # 0)
        [] op = "||" -> Truth(v1 # 0 \/ v2 # 0)

\* A mutant: a product that does not fit is not an error.
FoldErrorOfSums(op, v2, x) ==
  \/ op \in {"+", "-"} /\ x \notin -32768 .. 32767
  \/ op \in {"/", "%"} /\ v2 = 0

FoldError(op, v2, x) ==
  \/ op \in {"+", "-", "*"} /\ x \notin -32768 .. 32767
  \/ op \in {"/", "%"} /\ v2 = 0

\* The operands of the emitter become one.
Reduce(c, arity, o) ==
  LET em == SubSeq(c.ex.em, 1, Len(c.ex.em) - arity)
  IN  remove_bracket_layer_from_emitter_stack([c EXCEPT !.ex.em = Append(em, Entry(o))])

\* An operator with its operands on the stack.
EmitOperator(c, op, arity) ==
  LET n == Len(c.ex.em)
      args == [i \in 1 .. arity |-> c.ex.em[n - arity + i].op]
      x == Folded2(op, args[1].v, args[2].v)
      shorted == /\ arity = 2 /\ IsKnown(args[1])
                 /\ (op = "&&" /\ args[1].v = 0) \/ (op = "||" /\ args[1].v # 0)
  IN  CASE arity = 1 /\ op \in Foldable1 /\ IsKnown(args[1]) ->
             Reduce(c, 1, Const(Folded1(op, args[1].v) % 65536))
        [] arity = 2 /\ op \in Foldable2 /\ IsKnown(args[1]) /\ IsKnown(args[2]) ->
             Reduce(ErrorIf(FoldError(op, args[2].v, x), c), 2, Const(x % 65536))
        [] shorted /\ ~ IsKnown(args[2]) -> Reduce(c, 2, Const(Truth(op = "||")))
        [] OTHER ->
             Reduce(c, arity, [Operand(Expression, Node(op, [i \in 1 .. arity |-> TreeOf(args[i])]))
                                 EXCEPT !.m = "NULL"])

emit_token(c, t) ==
  LET em == c.ex.em
      size == Run(em, Len(em), Plain)
      below == Len(em) - size
      separates == /\ below > 0 /\ em[below].br = 0
                   /\ em[below].mark \in {"ARGUMENT", "FUNCTION"}
      need == Arity(c, t.x, size)
      filled == IF need[1] > need[2] THEN PushZeros(Error(c), need[1] - need[2]) ELSE c
      called == CallArity(em)
  IN  CASE t.t = "SUBOPEN" -> c
        [] t.t = "SUBCLOSE" -> EmitClose(c, size)
        [] t.t \notin {"SUBOPEN", "SUBCLOSE", "OP"} ->
             LET d == evaluate_term(c, t) IN Push(d, d.val)
        [] t.t = "OP" ->
             CASE (t.x = "," /\ separates) \/ t.x = "or" -> c
               [] t.x = "call" -> EmitOperator(CleanArguments(c, called), t.x, called)
               [] OTHER -> EmitOperator(filled, t.x, need[1])

------------------------------------------------------------------------------
\* Rewriting the tree.

\* A property that is not a declared common property is reached by a routine of
\* the veneer.
RECURSIVE check_property_operator(_)
check_property_operator(tree) ==
  LET n == tree.kids[2]
      common == IsLeaf(n) /\ IsKnown(n.val) /\ n.val.v \in 1 .. 63
      individual == CASE tree.op = "."  -> ".."
                      [] tree.op = ".&" -> "..&"
                      [] tree.op = ".#" -> "..#"
                      [] OTHER -> tree.op
  IN  IF IsLeaf(tree) THEN tree
      ELSE [tree EXCEPT !.op = IF Len(tree.kids) >= 2 /\ ~ common THEN individual ELSE @,
                        !.kids = [i \in DOMAIN @ |-> check_property_operator(@[i])]]

\* The operator that assigns through another one, "" if there is none.
LvalueForm(op, below) ==
  LET forms == CASE op = "="      -> AssignOps
                 [] op = "++"     -> IncOps
                 [] op = "post++" -> PostIncOps
                 [] op = "--"     -> DecOps
                 [] op = "post--" -> PostDecOps
  IN  IF below \in ToSet(Rewritten)
        THEN forms[CHOOSE n \in DOMAIN Rewritten : Rewritten[n] = below] ELSE ""

Spliced(tree, op) == [tree EXCEPT !.op = op, !.kids = @[1].kids \o Tail(@)]

\* x.y(z) and assignments: <<the tree, the errors>>.
RECURSIVE check_lvalues(_)
check_lvalues(tree) ==
  LET first == tree.kids[1]
      called == tree.op = "call" /\ first.op \in {".", ".."}
      assigned == tree.op \in requires_lvalue
      form == LvalueForm(tree.op, first.op)
      bad == assigned /\ IF IsLeaf(first) THEN first.val.t # Variable ELSE form = ""
      rewritten == CASE called -> Spliced(tree, "propcall")
                     [] assigned /\ ~ IsLeaf(first) -> Spliced(tree, form)
                     [] OTHER -> tree
      done == [i \in DOMAIN rewritten.kids |-> check_lvalues(rewritten.kids[i])]
      errors == Folded(LAMBDA sum, d : sum + d[2], 0, done)
  IN  IF IsLeaf(tree) THEN << tree, 0 >>
      ELSE IF bad THEN << Leaf(zero_operand), 1 >>
      ELSE << [rewritten EXCEPT !.kids = [i \in DOMAIN @ |-> done[i][1]]], errors >>

RECURSIVE negate_condition(_)
negate_condition(tree) ==
  IF tree.op \notin DOMAIN Negation THEN tree
  ELSE LET op == Negation[tree.op]
       IN  [tree EXCEPT !.op = op,
                        !.kids = IF operators[op].p # 2 THEN @
                                 ELSE [i \in DOMAIN @ |-> negate_condition(@[i])]]

\* From the leaves up: the condition under a ~~ is negated in its place.
RECURSIVE delete_negations(_)
delete_negations(tree) ==
  LET kids == [i \in DOMAIN tree.kids |-> delete_negations(tree.kids[i])]
  IN  IF IsLeaf(tree) THEN tree
      ELSE IF tree.op = "~~" THEN negate_condition(kids[1])
      ELSE [tree EXCEPT !.kids = kids]

\* A value where a condition is wanted is compared with zero.
RECURSIVE insert_exp_to_cond(_, _)
insert_exp_to_cond(tree, context) ==
  LET Under(ctx) == [tree EXCEPT !.kids = [i \in DOMAIN @ |-> insert_exp_to_cond(@[i], ctx)]]
  IN  CASE IsLeaf(tree) -> IF context = "CONDITION" THEN Node("nonzero", <<tree>>) ELSE tree
        [] ~ IsLeaf(tree) /\ operators[tree.op].p = 3 -> Under("QUANTITY")
        [] ~ IsLeaf(tree) /\ operators[tree.op].p = 2 -> Under("CONDITION")
        [] OTHER -> IF context = "CONDITION" THEN Node("nonzero", <<Under("QUANTITY")>>)
                    ELSE Under(context)

\* c.val is the operand: a tree is checked and rewritten.
Finish(c, context) ==
  LET o == c.ex.em[1].op
      lvalues == check_lvalues(IF c.veneer THEN o.v ELSE check_property_operator(o.v))
      tree == delete_negations(insert_exp_to_cond(lvalues[1], context))
      d == IF o.t = Expression
             THEN [c EXCEPT !.err = @ + lvalues[2], !.val = Operand(Expression, tree)]
             ELSE [c EXCEPT !.val = o]
  IN  put_token_back(IF context = "CONSTANT" /\ ~ is_constant_ot(d.val.t)
                       THEN [Error(d) EXCEPT !.val = error_operand] ELSE d)

------------------------------------------------------------------------------
\* The parser.

\* What follows a value that b was shifted after.
Shift(c, b) ==
  LET left == IF Len(c.ex.sr) = 0 THEN Etoken("ENDEXP", "") ELSE Last(c.ex.sr)
      d == [c EXCEPT !.ex.sr = Append(@, b)]
      opens == { i \in 1 .. Len(c.ex.sr) : c.ex.sr[i].t = "SUBOPEN" }
      inner == Max(opens)
      argument == opens # {} /\ inner > 1 /\ c.ex.sr[inner - 1].t = "OP"
                             /\ c.ex.sr[inner - 1].x = "call"
      leftwards == IF operators[b.x].use = "pre" THEN 0 ELSE 1
  IN  CASE b.t = "SUBOPEN" ->
             IF left.t = "OP" /\ left.x = "call" THEN mark_top_of_emitter_stack(d, "FUNCTION")
             ELSE add_bracket_layer_to_emitter_stack(d, 0)
        [] b.t = "OP" /\ b.x = "or" ->
             IF left.t = "OP" /\ operators[left.x].p = 3
               THEN mark_top_of_emitter_stack(d, "OR")
               ELSE [Error(d) EXCEPT !.ex.sr[Len(d.ex.sr)].x = "+"]
        [] b.t = "OP" /\ b.x = "," /\ argument -> mark_top_of_emitter_stack(d, "ARGUMENT")
        [] b.t = "OP" /\ ~ (b.x = "or" \/ (b.x = "," /\ argument)) ->
             add_bracket_layer_to_emitter_stack(d, leftwards)
        [] OTHER -> d

\* Tokens leave the shift stack until one of lower precedence than the last is on
\* its top.
RECURSIVE EmitWhileGreater(_)
EmitWhileGreater(c) ==
  LET pop == Last(c.ex.sr)
      d == [emit_token(c, pop) EXCEPT !.ex.sr = Front(@)]
  IN  IF find_prec(Last(d.ex.sr), pop) = "LOWER" THEN d ELSE EmitWhileGreater(d)

RECURSIVE ParseOn(_, _)
ParseOn(c, context) ==
  LET a == Last(c.ex.sr)
      b == c.ex.cur
      p == find_prec(a, b)
      Inserted(t, x) == ParseOn(Cur(put_token_back(Error(c)), Etoken(t, x)), context)
  IN  IF a.t = "ENDEXP" /\ b.t = "ENDEXP"
      THEN CASE Len(c.ex.em) = 0 ->
                  [put_token_back(Error(c)) EXCEPT !.val = error_operand]
             [] Len(c.ex.em) > 1 -> [CompilerError(c) EXCEPT !.val = error_operand]
             [] OTHER -> Finish(c, context)
      ELSE CASE p \in {"LOWER", "EQUAL", "ASSOC"} ->
                  ParseOn(get_next_etoken(Shift(ErrorIf(p = "ASSOC", c), b)), context)
             [] p = "GREATER" -> ParseOn(EmitWhileGreater(c), context)
             [] p = "NOVAL"  -> Inserted("NUMBER", "0")
             [] p = "NOOP"   -> Inserted("OP", "+")
             [] p = "CLOSEB" -> ParseOn(get_next_etoken(Error(c)), context)
             [] p = "OPENB"  -> ParseOn([Error(c) EXCEPT !.ex.sr = Front(@)], context)

\* parse_expression: the token after the expression is put back.
parse_expression(c, context) ==
  LET end == Etoken("ENDEXP", "$")
      ex == [cur |-> end, prev |-> end, held |-> <<>>, level |-> 0, sr |-> <<end>>,
             em |-> <<>>,
             superclass |-> context # "FORINIT",
             comma |-> context \in {"VOID", "FORINIT"},
             arrow |-> context # "ASSEMBLY",
             ambiguous |-> context \in {"ARRAY", "ASSEMBLY"},
             action |-> context = "ACTION_Q"]
      wanted == CASE context = "FORINIT" -> "VOID"
                  [] context \in {"ASSEMBLY", "ACTION_Q", "RETURN_Q"} -> "QUANTITY"
                  [] context = "ARRAY" -> "CONSTANT"
                  [] OTHER -> context
      first == get_next_etoken(Disable([c EXCEPT !.ex = ex], {"statements", "directives"}))
  IN  IF first.val = 0 THEN [Error(first) EXCEPT !.val = error_operand]
      ELSE ParseOn(first, wanted)

------------------------------------------------------------------------------
\* test_for_incdec: the variable that the expression only counts up or down
\* (negative), 0 for another expression.
test_for_incdec(o) ==
  LET tree == TreeOf(o)
      sign == CASE tree.op \in {"++", "post++"} -> 1
                [] tree.op \in {"--", "post--"} -> -1
                [] OTHER -> 0
  IN  IF sign # 0 /\ IsLeaf(tree.kids[1]) /\ tree.kids[1].val.t = Variable
        THEN sign * tree.kids[1].val.v ELSE 0

\* test_constant_op_list: the constants that commas join, from the last to the
\* first; none if there is anything else.
RECURSIVE CommaList(_)
CommaList(tree) ==
  CASE IsLeaf(tree) -> << tree.val >>
    [] tree.op = "," /\ IsLeaf(tree.kids[2]) -> << tree.kids[2].val >> \o CommaList(tree.kids[1])
    [] OTHER -> << VarOp(0) >>

test_constant_op_list(o) ==
  LET found == CommaList(TreeOf(o))
  IN  IF \A i \in DOMAIN found : is_constant_ot(found[i].t) THEN found ELSE <<>>
=============================================================================
