---------------------------- MODULE I6Directives ----------------------------
(***************************************************************************)
(* Inform 6: global variables and arrays (arrays.c), and the table of what *)
(* is to be backpatched outside the code (bpatch.c).                       *)
(*                                                                         *)
(*   globals, nglob  the initial values of the 240 globals, and how many   *)
(*              of them have been declared                                 *)
(*   dynamic, static  the bytes of the two array areas; the first 480 of   *)
(*              the dynamic one stand for the globals                      *)
(*   array      the one being made: [static, base, size: of an entry]      *)
(*   arrays     [s: its symbol, ty, static, size: as "#array" knows it]    *)
(*   zbps       [m: the marker, za: the area, at: the offset in it]        *)
(***************************************************************************)
EXTENDS I6Expressions

Max_zcode_global_vars == 240

backpatch_zmachine(c, m, za, at) ==
  IF m \in {"OBJECT", "IDENT", "ACTION"} THEN c
  ELSE [c EXCEPT !.zbps = Append(@, [m |-> m, za |-> za, at |-> at])]

\* panic_mode_error_recovery: on to the end of the directive or statement.
RECURSIVE panic_mode_error_recovery(_)
panic_mode_error_recovery(c) ==
  IF c.tok.t = "EOF" \/ IsSep(c, ";") THEN c ELSE panic_mode_error_recovery(get_next_token(c))

Panic(c) == panic_mode_error_recovery(Error(c))

IsUnknown(c) == c.tok.t = "SYMBOL" /\ Has(c, c.tok.x, "UNKNOWN")

------------------------------------------------------------------------------
\* Arrays.

Word(v) == << (v % 65536) \div 256, v % 256 >>

AreaOf(c) == IF c.array.static THEN c.static ELSE c.dynamic
SetArea(c, bytes) == IF c.array.static THEN [c EXCEPT !.static = bytes]
                     ELSE [c EXCEPT !.dynamic = bytes]

\* Space for the size is left before a string, table or buffer array.
BeginArray(c, static, size, space) ==
  LET d == [c EXCEPT !.array.static = static, !.array.size = size]
  IN  SetArea([d EXCEPT !.array.base = Len(AreaOf(d)), !.array.start = Len(AreaOf(d)) + space],
              AreaOf(d) \o [i \in 1 .. space |-> 0])

begin_table_array(c) == BeginArray(c, FALSE, 2, 2)
begin_word_array(c) == BeginArray(c, FALSE, 2, 0)

\* array_entry: the next entry.
array_entry(c, o) ==
  LET at == Len(AreaOf(c))
      za == IF c.array.static THEN "STATIC_ARRAY" ELSE "DYNAMIC_ARRAY"
  IN  IF c.array.size = 1
        THEN SetArea(ErrorIf(o.m # "NULL", c), Append(AreaOf(c), o.v % 256))
        ELSE LET d == SetArea(c, AreaOf(c) \o Word(o.v))
             IN  IF o.m = "NULL" THEN d ELSE backpatch_zmachine(d, o.m, za, at)

\* finish_array: n is the number of entries.
finish_array(c, n) ==
  LET base == c.array.base
      area == SubSeq(AreaOf(c), 1, c.array.start + n * c.array.size)
      d == ErrorIf(n = 0, c)
  IN  CASE c.array.start - base = 2 ->
             SetArea(d, [area EXCEPT ![base + 1] = Word(n)[1], ![base + 2] = Word(n)[2]])
        [] c.array.start - base = 1 ->
             SetArea(ErrorIf(n >= 256, d), [area EXCEPT ![base + 1] = n % 256])
        [] OTHER -> SetArea(d, area)

RECURSIVE Nulls(_, _)
Nulls(c, n) == IF n = 0 THEN c ELSE Nulls(array_entry(c, zero_operand), n - 1)

\* A number of zero entries; c.val is the number.  A size that is not known yet
\* leaves "i" what it was.
OfSize(c, o, i) ==
  LET n == IF o.v \in 1 .. 32767 THEN o.v ELSE 1
  IN  IF o.m # "NULL" THEN [Error(c) EXCEPT !.val = i]
      ELSE [Nulls(ErrorIf(n # o.v, c), n) EXCEPT !.val = n]

\* Values up to the ";"; one value alone is a size.
RECURSIVE DataEntries(_, _)
DataEntries(c, i) ==
  LET d == get_next_token(release_token_texts(c))
      e == parse_expression(put_token_back(ErrorIf(IsSep(d, "[") \/ IsSep(d, "]"), d)), "ARRAY")
      f == put_token_back(get_next_token(e))
      Done(x) == [put_token_back(x) EXCEPT !.val = i]
  IN  CASE IsSep(d, ";") -> Done(d)
        [] ~ IsSep(d, ";") /\ e.val.m = "ERROR" -> Done(e)
        [] OTHER -> IF i = 0 /\ IsSep(f, ";") THEN OfSize(f, e.val, 0)
                    ELSE DataEntries(array_entry(IF i = 0 THEN f ELSE e, e.val), i + 1)

\* Values up to the "]", with ";" where the writer likes.
RECURSIVE BracketEntries(_, _)
BracketEntries(c, i) ==
  LET d == get_next_token(release_token_texts(c))
      e == parse_expression(put_token_back(d), "ARRAY")
      Done(x) == [x EXCEPT !.val = i]
  IN  CASE IsSep(d, ";") -> BracketEntries(d, i)
        [] IsSep(d, "]") -> Done(d)
        [] IsSep(d, "[") -> Done(put_token_back(Error(d)))
        [] OTHER -> IF e.val.m = "ERROR" THEN Done(e)
                    ELSE BracketEntries(array_entry(e, e.val), i + 1)

\* The characters of one text.
AsciiEntries(c) ==
  LET d == get_next_token(c)
      text == Quoted[d.tok.x]
  IN  [Folded(LAMBDA e, ch : array_entry(e, Const(CodeOf[ch])), d, text)
         EXCEPT !.val = Len(text)]

ArrayTypes == << "->", "-->", "string", "table", "buffer" >>

\* How the data is given: the tokens looked at are put back.
FillArray(c, number) ==
  LET d == get_next_token(c)
      again == put_token_back(put_token_back(d))
      sized == parse_expression(again, "CONSTANT")
  IN  CASE IsSep(c, "[") -> BracketEntries(c, 0)
        [] ~ IsSep(c, "[") /\ ~ IsSep(d, ";") -> DataEntries(again, 0)
        [] OTHER -> IF c.tok.t = "DQ" THEN AsciiEntries(again)
                    ELSE OfSize(sized, sized.val, number)

\* The array's name and type are read; the token after them is current.
MakeArray(c, s, ty, static) ==
  LET size == IF ty \in {"-->", "table"} THEN 2 ELSE 1
      space == CASE ty = "string" -> 1 [] ty \in {"table", "buffer"} -> 2 [] OTHER -> 0
      d == FillArray(BeginArray(c, static, size, space), c.sym[s].no)
      known == CASE ty \in {"->", "-->"} -> d.val - 1
                 [] ty = "buffer" -> d.val + 1
                 [] OTHER -> d.val
  IN  [finish_array(d, d.val) EXCEPT
         !.arrays = Append(@, [s |-> s, ty |-> ty, static |-> static, size |-> known])]

\* make_array: the Array directive.
make_array(c) ==
  LET named == get_next_token(Disable(c, {"dirwords"}))
      s == named.tok.x
      looked == Disable(get_next_token(Enable(named, {"dirwords"})), {"dirwords"})
      static == looked.tok.t = "DIR_KEYWORD" /\ looked.tok.x = "static"
      d == IF static THEN looked ELSE put_token_back(looked)
      e == get_next_token(Enable(
             assign_symbol(d, s, Len(IF static THEN c.static ELSE c.dynamic),
                           IF static THEN "STATIC_ARRAY" ELSE "ARRAY"), {"dirwords"}))
      typed == e.tok.t \in {"SEP", "DIR_KEYWORD"} /\ e.tok.x \in ToSet(ArrayTypes)
      f == get_next_token(e)
  IN  CASE ~ IsUnknown(named) -> Panic(named)
        [] IsUnknown(named) /\ IsSep(e, ";") -> put_token_back(Error(e))
        [] IsUnknown(named) /\ ~ IsSep(e, ";") /\ ~ typed -> Panic(e)
        [] OTHER -> IF IsSep(f, ";") THEN put_token_back(Error(f))
                    ELSE MakeArray(f, s, e.tok.x, static)

------------------------------------------------------------------------------
\* Globals.

\* The name of a new global is read: 233 of them may be declared.
DeclareGlobal(c, s) ==
  LET d == Disable(get_next_token(Enable(ErrorIf(Has(c, s, "USED"), c), {"dirwords"})),
                   {"dirwords"})
      e == IF d.tok.t = "DIR_KEYWORD" /\ d.tok.x = "static" THEN Error(d) ELSE put_token_back(d)
  IN  IF e.nglob = 233 THEN Panic(e)
      ELSE Enable([assign_symbol(e, s, 16 + e.nglob, "GLOBAL_VARIABLE") EXCEPT
                     !.globals[e.nglob] = zero_operand, !.nglob = @ + 1], {"dirwords"})

\* The initial value; only a zero may be replaced by another value.
InitialValue(c, n, redefining) ==
  LET d == parse_expression(IF IsSep(c, "=") THEN c ELSE put_token_back(c), "CONSTANT")
      old == c.globals[n]
      same == operands_identical(d.val, old)
  IN  CASE redefining /\ same -> d
        [] redefining /\ ~ same /\ old.v # 0 -> Error(d)
        [] OTHER ->
             IF old.m # "NULL" THEN Error(d)
             ELSE [(IF d.val.m = "NULL" THEN d
                    ELSE backpatch_zmachine(d, d.val.m, "DYNAMIC_ARRAY", 2 * n))
                     EXCEPT !.globals[n] = d.val]

IsArrayType(c) == c.tok.t \in {"SEP", "DIR_KEYWORD"} /\ c.tok.x \in ToSet(ArrayTypes)

\* make_global: the Global directive.
make_global(c) ==
  LET named == get_next_token(Disable(c, {"dirwords"}))
      s == named.tok.x
      redefining == named.tok.t = "SYMBOL" /\ named.sym[s].ty = "GLOBAL_VARIABLE"
      full == named.nglob = 233
      d == IF redefining THEN named ELSE DeclareGlobal(named, s)
      e == get_next_token(d)
  IN  CASE ~ redefining /\ ~ IsUnknown(named) -> Panic(named)
        [] ~ redefining /\ IsUnknown(named) /\ full -> d
        [] OTHER -> CASE IsSep(e, ";") -> put_token_back(e)
                      [] IsArrayType(e) -> Error(e)
                      [] OTHER -> InitialValue(e, d.sym[s].v - 16, redefining)

-----------------------------------------------------------------------------
(***************************************************************************)
(* Inform 6: the lines of the source (syntax.c) and conditional            *)
(* compilation (directs.c), with the directives that may stand inside a    *)
(* routine or the definition of an object.                                 *)
(*                                                                         *)
(*   ifs  ifdef_stack: TRUE before Ifnot and FALSE after it                *)
(* Origsource and Trace are left out.                                      *)
(***************************************************************************)

\* begin_syntax_line.

LineGroups == { "statements", "conditions", "locals", "sysfuns", "misc", "dirwords",
                "directives", "segments", "opcodes" }

StatementLine(c) ==
  Enable(Disable(c, LineGroups), {"statements", "conditions", "locals", "sysfuns"})
DirectiveLine(c) == Enable(Disable(c, LineGroups), {"directives", "segments"})

NextLine(c) == get_next_token(release_token_texts(StatementLine(c)))

Terminated(c) == Expect(c, ";")

DirKeyword(c) == Disable(get_next_token(Enable(c, {"dirwords"})), {"dirwords"})
IsDirWord(c, x) == IsToken(c, "DIR_KEYWORD", x)
IsSymbolOf(c, ty) == c.tok.t = "SYMBOL" /\ c.sym[c.tok.x].ty = ty

\* How a directive leaves: its ";" is still expected, or it has been read, or the
\* program ends there.
Over(c) == [c EXCEPT !.val = "over"]
Ending(c) == [c EXCEPT !.val = "end"]
Open(c) == [c EXCEPT !.val = "open"]

Message(c) ==
  LET d == DirKeyword(c)
      e == get_next_token(d)
  IN  CASE d.tok.t = "DQ" -> Open(d)
        [] IsDirWord(d, "error") \/ IsDirWord(d, "warning") ->
             IF e.tok.t # "DQ" THEN Over(Panic(e)) ELSE Open(ErrorIf(d.tok.x = "error", e))
        [] OTHER -> Over(Panic(d))

------------------------------------------------------------------------------
\* Conditional compilation.

MAX_IFDEF_STACK == 32
Ifs == { "ifv3", "ifv5", "ifdef", "ifndef", "iftrue", "iffalse" }

\* Skip to the matching Endif, or, from an If, to its Ifnot; n is the nesting.
\* c.val is the directive that ended it, "" for the end of the file.
RECURSIVE SkipFrom(_, _, _)
SkipFrom(c, n, ifnot) ==
  LET d == get_next_token(release_token_texts(c))
      At(x) == IsToken(d, "DIRECTIVE", x)
      second == At("ifnot") /\ n = 1 /\ ~ ifnot
  IN  CASE d.tok.t = "EOF" -> [Disable(Error(d), {"directives"}) EXCEPT !.val = ""]
        [] n = 1 /\ (At("endif") \/ (At("ifnot") /\ ifnot)) ->
             [Disable(d, {"directives"}) EXCEPT !.raw = 0, !.val = d.tok.x]
        [] OTHER -> SkipFrom(ErrorIf(second, d),
                             CASE At("endif") -> n - 1
                               [] d.tok.t = "DIRECTIVE" /\ d.tok.x \in Ifs -> n + 1
                               [] OTHER -> n, ifnot)

Skip(c, ifnot) == SkipFrom([Enable(c, {"directives"}) EXCEPT !.raw = -2], 1, ifnot)

\* The condition of an If has been read.
HashIfCondition(c, flag) ==
  LET d == get_next_token(c)
      e == Skip(d, TRUE)
  IN  CASE ~ IsSep(d, ";") \/ Len(d.ifs) >= MAX_IFDEF_STACK -> Over(Panic(d))
        [] IsSep(d, ";") /\ Len(d.ifs) < MAX_IFDEF_STACK /\ flag ->
             Over([d EXCEPT !.ifs = Append(@, TRUE)])
        [] OTHER -> CASE e.val = "" -> Ending(e)
                      [] e.val = "endif" -> Open(e)
                      [] e.val = "ifnot" -> Open([e EXCEPT !.ifs = Append(@, FALSE)])

IfDefined(c, x) ==
  LET d == get_next_token(c)
      known == ~ IsUnknown(d)
      e == IF known THEN WithFlag(d, d.tok.x, "USED") ELSE d
  IN  IF d.tok.t # "SYMBOL" THEN Over(Panic(d)) ELSE HashIfCondition(e, known = (x = "ifdef"))

IfValue(c, x) ==
  LET d == parse_expression(c, "CONSTANT")
      zero == d.val.v = 0
  IN  IF d.val.m # "NULL" THEN HashIfCondition(Error(d), x = "iffalse")
      ELSE HashIfCondition(d, zero = (x = "iffalse"))

Ifnot(c) ==
  LET d == Skip(c, FALSE)
  IN  CASE c.ifs = <<>> -> Open(Error(c))
        [] c.ifs # <<>> -> IF ~ Last(c.ifs) THEN Open(Error(c))
                           ELSE IF d.val = "" THEN Ending(d)
                           ELSE Open([d EXCEPT !.ifs = Front(@)])

Endif(c) == Open(IF c.ifs = <<>> THEN Error(c) ELSE [c EXCEPT !.ifs = Front(@)])

------------------------------------------------------------------------------
\* Directives inside a routine or a definition: the "#" has been read.

InternalDirectives == Ifs \cup {"ifnot", "endif", "message"}

ConditionalDirective(c, x) ==
  CASE x \in {"ifdef", "ifndef"} -> IfDefined(c, x)
    [] x \in {"ifv3", "ifv5"} -> HashIfCondition(c, x = "ifv3")
    [] x \in {"iftrue", "iffalse"} -> IfValue(c, x)
    [] x = "ifnot" -> Ifnot(c)
    [] x = "endif" -> Endif(c)
    [] x = "message" -> Message(c)

Nested(c) ==
  LET d == ConditionalDirective(c, c.tok.x)
  IN  IF c.tok.x \notin InternalDirectives THEN Panic(c)
      ELSE IF d.val = "open" THEN Terminated(d) ELSE d

\* parse_directive(TRUE), for routines.
InternalDirective(c) ==
  LET first == get_next_token(DirectiveLine(c))
      d == IF IsSep(first, "#") THEN get_next_token(first) ELSE first
  IN  CASE first.tok.t = "EOF" -> first
        [] IsSep(d, "[") \/ IsSymbolOf(d, "CLASS") -> Error(d)
        [] d.tok.t = "DIRECTIVE" -> Nested(d)
        [] OTHER -> Panic(d)

\* get_next_token_with_directives, for definitions: the groups are as they were
\* before the directive.
RECURSIVE get_next_token_with_directives(_)
get_next_token_with_directives(c) ==
  LET first == get_next_token(c)
      off == {"segments", "statements", "conditions", "locals", "misc", "sysfuns"}
      d == get_next_token(Enable(Disable(first, off), {"directives"}))
      groups == (first.en \ {"dirwords"}) \cup (d.en \cap {"opcodes", "trace", "sysconsts"})
  IN  CASE ~ IsSep(first, "#") -> first
        [] IsSep(first, "#") /\ d.tok.t # "DIRECTIVE" -> Error(d)
        [] OTHER -> get_next_token_with_directives([Nested(d) EXCEPT !.en = groups])

=============================================================================
