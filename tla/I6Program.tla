----------------------------- MODULE I6Program ------------------------------
(***************************************************************************)
(* Inform 6: directives (directs.c), the top level of the syntax           *)
(* (syntax.c), the compilation of the veneer (veneer.c) and the pass as a  *)
(* whole (inform.c), up to the construction of the story file.             *)
(*                                                                         *)
(* CompileStep is one step of the pass: a directive, the first line of a   *)
(* routine or another, or one of the passes over the tables at the end.    *)
(* Fields of this module:                                                  *)
(*   phase     program, globals, veneer, symbols, compiled                 *)
(*   def       the routine being compiled: [s: its symbol, "" if there is  *)
(*             none; at: its address; sw: the cases read; veneer: whether  *)
(*             it is the veneer's]                                         *)
(*   release, serial, statusline, system  what these directives set        *)
(*   constmade  constant_made_yet                                          *)
(*   vaddress  the addresses of the veneer's routines                      *)
(* Include, Trace, Version, Zcharacter, Message fatalerror and              *)
(* Origsource are left out.                                                *)
(***************************************************************************)
EXTENDS I6Objects, I6Veneer

------------------------------------------------------------------------------
\* Small directives.  The result is the state before the ";" of the directive is
\* expected; a directive that has read it is Over.

Name(c) == [get_next_token([c EXCEPT !.dfquiet = TRUE]) EXCEPT !.dfquiet = FALSE]

RECURSIVE Abbreviate(_)
Abbreviate(c) ==
  LET d == get_next_token(c)
  IN  CASE IsSep(d, ";") -> Over(d)
        [] ~ IsSep(d, ";") /\ (Len(d.abbr) = 64 \/ d.sorted \/ d.tok.t # "DQ") -> Over(Panic(d))
        [] OTHER -> Abbreviate(make_abbreviation(d, Quoted[d.tok.x]))

\* The value given to a constant, which may have to be backpatched.
Valued(c, s) ==
  LET d == get_next_token(c)
      e == parse_expression(IF IsSep(d, "=") THEN d ELSE put_token_back(d), "CONSTANT")
  IN  IF e.val.m = "NULL" THEN << assign_symbol(e, s, e.val.v, "CONSTANT"), e >>
      ELSE << WithFlag(assign_marked_symbol(e, s, e.val.m, e.val.v, "CONSTANT"), s, "CHANGE"), e >>

RECURSIVE Constant(_)
Constant(c) ==
  LET named == get_next_token([c EXCEPT !.constmade = TRUE])
      s == named.tok.x
      zero == assign_symbol(named, s, 0, "CONSTANT")
      d == get_next_token(zero)
      valued == Valued(zero, s)
      e == IF s = "Grammar__Version" THEN set_grammar_option_constant(valued[1], valued[2].val)
           ELSE valued[1]
      f == get_next_token(e)
  IN  CASE named.tok.t # "SYMBOL" -> Over(Panic(named))
        [] named.tok.t = "SYMBOL" /\ ~ (Has(named, s, "UNKNOWN") \/ Has(named, s, "REDEFINABLE")) ->
             Over(Panic(named))
        [] OTHER -> CASE IsSep(d, ",") -> Constant(d)
                      [] IsSep(d, ";") -> Over(d)
                      [] OTHER -> IF IsSep(f, ",") THEN Constant(f) ELSE Open(put_token_back(f))

Default(c) ==
  LET d == get_next_token(c)
      s == d.tok.x
      valued == Valued(WithFlag(d, s, "DEFCON"), s)[1]
      ignored == Valued(d, s)[2]
  IN  IF d.tok.t # "SYMBOL" THEN Over(Panic(d)) ELSE Open(IF IsUnknown(d) THEN valued ELSE ignored)

\* An optional value of the Dictionary directive: c.val is <<it, whether the ";"
\* has come>>.
DictionaryValue(c) ==
  LET d == put_token_back(get_next_token(c))
      e == parse_expression(d, "CONSTANT")
      definite == e.val.m = "NULL"
  IN  IF IsSep(get_next_token(c), ";") THEN [d EXCEPT !.val = << 0, TRUE >>]
      ELSE [ErrorIf(~ definite, e) EXCEPT !.val = << IF definite THEN e.val.v ELSE 0, FALSE >>]

Dictionary(c) ==
  LET d == get_next_token(c)
      e == DictionaryValue(d)
      f == IF e.val[2] THEN e ELSE DictionaryValue(e)
  IN  IF ~ IsQuoted(d) THEN Over(Panic(d))
      ELSE Open(dictionary_add(f, QuotedText(d), e.val[1] % 256, 0, f.val[1] % 256))

Lowstring(c) ==
  LET named == get_next_token(c)
      d == get_next_token(named)
      e == compile_string(d, Quoted[d.tok.x], "LOWSTRING")
  IN  CASE ~ IsUnknown(named) -> Over(Panic(named))
        [] IsUnknown(named) /\ d.tok.t # "DQ" -> Over(Panic(d))
        [] OTHER -> Open(assign_symbol(e, named.tok.x, e.val, "CONSTANT"))

Release(c) ==
  LET d == parse_expression(c, "CONSTANT")
  IN  Open(IF d.val.m # "NULL" THEN Error(d) ELSE [d EXCEPT !.release = d.val.v])

\* The new name of a routine that is replaced.
ReplaceBy(c, s) ==
  LET d == Name(Disable(WithFlag(c, s, "REPLACE"), {"sysfuns"}))
  IN  CASE IsSep(d, ";") -> Over(d)
        [] ~ IsSep(d, ";") /\ ~ IsUnknown(d) -> Over(Panic(d))
        [] OTHER -> Open(add_symbol_replacement_mapping(
                           assign_symbol(d, d.tok.x, 0, "CONSTANT"), s, d.tok.x))

\* That a system function has been used already is not kept (see Operate).
Replace(c) ==
  LET d == Name(Disable(Enable(c, {"sysfuns"}), {"directives", "dirwords"}))
      e == get_next_token([d EXCEPT !.replaced = @ \cup {d.tok.x}])
  IN  CASE d.tok.t = "SYSFUN" -> Over(IF IsSep(e, ";") THEN e ELSE Panic(e))
        [] IsUnknown(d) -> ReplaceBy(d, d.tok.x)
        [] OTHER -> Over(Panic(d))

Digits == { "0", "1", "2", "3", "4", "5", "6", "7", "8", "9" }

Serial(c) ==
  LET d == get_next_token(c)
      text == Quoted[d.tok.x]
  IN  IF d.tok.t = "DQ" /\ Len(text) = 6 /\ ToSet(text) \subseteq Digits
        THEN Open([d EXCEPT !.serial = text]) ELSE Over(Panic(d))

Statusline(c) ==
  LET d == DirKeyword(c)
  IN  IF IsDirWord(d, "score") \/ IsDirWord(d, "time")
        THEN Open([d EXCEPT !.statusline = IF d.tok.x = "score" THEN 0 ELSE 1])
        ELSE Over(Panic(d))

\* Of the switches only -e is modelled.
Switches(c) ==
  LET d == [get_next_token([c EXCEPT !.raw = 1]) EXCEPT !.raw = 0]
      late == d.constmade \/ Len(d.funcs) > 1
  IN  IF d.tok.t # "UQ" THEN Over(Panic(d))
      ELSE Open(IF late THEN Error(d) ELSE [d EXCEPT !.economy = @ \/ d.tok.x = "e"])

\* A routine that returns false, unless there is one of the name.
Stub(c) ==
  LET named == Name(c)
      s == named.tok.x
      d == get_next_token(IF IsUnknown(named) THEN WithFlag(named, s, "STUB") ELSE named)
      few == d.tok.v \in 0 .. 4
      n == IF few THEN d.tok.v ELSE 0
      dummies == SubSeq(<< "dummy1", "dummy2", "dummy3", "dummy4" >>, 1, n)
      e == assemble_routine_header([ErrorIf(~ few, d) EXCEPT !.locals = dummies], s, FALSE)
      f == assemblez(assign_symbol(e, s, e.val, "ROUTINE"), "rfalse", <<>>)
  IN  CASE named.tok.t # "SYMBOL" -> Over(Panic(named))
        [] named.tok.t = "SYMBOL" /\ d.tok.t # "NUMBER" -> Over(Panic(d))
        [] OTHER -> Open(IF IsUnknown(named) THEN assemble_routine_end(f, FALSE)
                         ELSE ErrorIf(~ few, d))

Undef(c) ==
  LET d == get_next_token(c)
      s == d.tok.x
  IN  CASE d.tok.t # "SYMBOL" -> Over(Panic(d))
        [] IsUnknown(d) -> Open(d)
        [] OTHER -> Open(IF d.sym[s].ty # "CONSTANT" THEN Error(d) ELSE end_symbol_scope(d, s))

------------------------------------------------------------------------------
\* parse_given_directive: c.val is "end" when the program ends there.

Directive(c, x) ==
  CASE x \in InternalDirectives -> ConditionalDirective(c, x)
    [] x = "abbreviate" -> Abbreviate(c)
    [] x = "array" -> Open(make_array(c))
    [] x = "attribute" -> Open(make_attribute(c))
    [] x = "class" -> Over(make_class(c))
    [] x = "constant" -> Constant(c)
    [] x = "default" -> Default(c)
    [] x = "dictionary" -> Dictionary(c)
    [] x = "end" -> Ending(c)
    [] x = "extend" -> Over(extend_verb(c))
    [] x = "fake_action" -> Open(make_fake_action(c))
    [] x = "global" -> Open(make_global(c))
    [] x = "import" -> Open(Error(c))
    [] x = "link" -> Open(Error(get_next_token(c)))
    [] x = "lowstring" -> Lowstring(c)
    [] x \in {"nearby", "object"} -> Over(make_object(c, x = "nearby", 0))
    [] x = "property" -> Open(make_property(c))
    [] x = "release" -> Release(c)
    [] x = "replace" -> Replace(c)
    [] x = "serial" -> Serial(c)
    [] x = "switches" -> Switches(c)
    [] x = "statusline" -> Statusline(c)
    [] x = "stub" -> Stub(c)
    [] x = "system_file" -> Open([c EXCEPT !.system = TRUE])
    [] x = "undef" -> Undef(c)
    [] x = "verb" -> Over(make_verb(c))

parse_given_directive(c) ==
  LET d == Directive(c, c.tok.x)
      e == Terminated(d)
  IN  IF d.val = "open" THEN [e EXCEPT !.val = "over"] ELSE d

------------------------------------------------------------------------------
\* parse_directive, up to the first line of a routine.

NoDefinition == [s |-> "", at |-> 0, sw |-> NoCases, veneer |-> FALSE]

ParseRoutine(c, s, veneer) ==
  LET d == BeginRoutine(c, s, FALSE)
  IN  [d EXCEPT !.def = [s |-> s, at |-> d.val, sw |-> NoCases, veneer |-> veneer]]

\* After the "]": Y of "Replace X Y" is the first definition of X.
AfterRoutine(c, s) ==
  LET y == find_symbol_replacement(c, s)
      copied == IF y # s /\ c.sym[y].v = 0 THEN assign_symbol(c, y, c.sym[s].v, "ROUTINE") ELSE c
  IN  Terminated(copied)

\* Over the definition of a routine that is replaced: FALSE in c.val at the end of
\* the file.
RECURSIVE SkipRoutine(_)
SkipRoutine(c) ==
  LET d == get_next_token(c)
  IN  IF d.tok.t = "EOF" \/ IsSep(d, "]") THEN [d EXCEPT !.raw = 0] ELSE SkipRoutine(d)

Finish_program(c) == [c EXCEPT !.phase = "globals"]

NamedRoutineDefinition(c) ==
  LET d == Name(Disable(c, {"directives", "dirwords", "segments"}))
      s == d.tok.x
      replaced == Has(d, s, "REPLACE")
      renamed == \E p \in d.renamed : p[1] = s
      e == SkipRoutine([d EXCEPT !.raw = 1])
  IN  CASE d.tok.t # "SYMBOL" -> Finish_program(Error(d))
        [] d.tok.t = "SYMBOL" /\ ~ Has(d, s, "UNKNOWN") /\ ~ replaced -> Finish_program(Error(d))
        [] OTHER -> IF replaced /\ ~ renamed /\ d.system
                      THEN IF e.tok.t = "EOF" THEN Finish_program(e) ELSE AfterRoutine(e, s)
                      ELSE ParseRoutine(d, s, FALSE)

parse_directive(c) ==
  LET first == get_next_token(release_token_texts(DirectiveLine(c)))
      d == IF IsSep(first, "#") THEN get_next_token(first) ELSE first
      e == parse_given_directive(d)
  IN  CASE first.tok.t = "EOF" -> Finish_program(first)
        [] IsSep(d, "[") -> NamedRoutineDefinition(d)
        [] IsSymbolOf(d, "CLASS") ->
             make_object(WithFlag(d, d.tok.x, "USED"), FALSE, d.sym[d.tok.x].v)
        [] OTHER -> IF d.tok.t # "DIRECTIVE" THEN Panic(d)
                    ELSE IF e.val = "end" THEN Finish_program(e) ELSE e

------------------------------------------------------------------------------
\* The veneer.

VeneerAddress(c, name, at) == [c EXCEPT !.vaddress = (name :> at) @@ @,
                                        !.needed = (name :> "compiled") @@ @]

\* The next routine that is called and has not been compiled; those called by
\* one that came before it wait for the next round.
Called(c) == { n \in DOMAIN VeneerNames : /\ VeneerNames[n] \in DOMAIN c.needed
                                          /\ c.needed[VeneerNames[n]] = "called" }

NextCalled(c) ==
  LET later == { n \in Called(c) : n >= c.vnext }
  IN  VeneerNames[Min(IF later # {} THEN later ELSE Called(c))]

compile_veneer(c, name) ==
  LET d == symbol_index([c EXCEPT !.vnext = VeneerNumber(name) + 2], name)
      source == [d EXCEPT !.veneer = TRUE, !.src = VeneerSource[name], !.pos = 1, !.circ = <<>>,
                          !.back = 0]
  IN  CASE Has(d, name, "UNKNOWN") -> ParseRoutine(source, name, TRUE)
        [] ~ Has(d, name, "UNKNOWN") /\ d.sym[name].ty # "ROUTINE" ->
             VeneerAddress(Error(d), name, d.sym[name].v)
        [] OTHER -> VeneerAddress(WithFlag(d, name, "USED"), name, d.sym[name].v)

compile_symbol_table_routine(c) ==
  LET d == symbol_index([c EXCEPT !.locals = << "dummy1", "dummy2" >>], "Symb__Tab")
      e == assemble_routine_header(d, "Symb__Tab", FALSE)
      f == WithFlag(assign_symbol(e, "Symb__Tab", e.val, "ROUTINE"), "Symb__Tab", "SYSTEM")
  IN  assemble_routine_end(assemblez(f, "rfalse", <<>>), FALSE)

------------------------------------------------------------------------------
\* The lines of the routine being compiled, and the pass.

RoutineStep(c) ==
  LET d == RoutineLine(c, FALSE, c.def.sw)
      s == c.def.s
      closed == assign_symbol([d EXCEPT !.def = NoDefinition], s, c.def.at, "ROUTINE")
  IN  CASE d.val.open -> [d EXCEPT !.def.sw = d.val.sw]
        [] ~ d.val.open /\ c.def.veneer ->
             VeneerAddress([closed EXCEPT !.veneer = FALSE], s, c.def.at)
        [] OTHER -> AfterRoutine(closed, s)

\* compile_initial_routine: Main__ calls Main.
compile_initial_routine(c) ==
  LET d == assemble_routine_header(symbol_index(c, "Main__"), "Main__", FALSE)
      e == WithFlag(assign_symbol(d, "Main__", d.val, "ROUTINE"), "Main__", "SYSTEM")
      f == assemblez_to(e, "call", << [LongConst(0) EXCEPT !.m = "MAIN"] >>, Temp1)
  IN  assemble_routine_end(assemblez(f, "quit", <<>>), FALSE)

CompileStep(c) ==
  CASE c.def.s # "" -> RoutineStep(c)
    [] c.def.s = "" /\ c.phase = "program" -> parse_directive(c)
    [] c.def.s = "" /\ c.phase = "globals" -> [find_the_actions(c) EXCEPT !.phase = "veneer"]
    [] c.def.s = "" /\ c.phase = "veneer" ->
         IF Called(c) # {} THEN compile_veneer(c, NextCalled(c))
         ELSE [compile_symbol_table_routine(c) EXCEPT !.phase = "compiled"]

\* The state before the first directive.
begin_pass(source) ==
  LET c == [src |-> source, pos |-> 1, circ |-> <<>>, back |-> 0, tok |-> Token("EOF", ""),
            en |-> {}, raw |-> 0, spvar |-> FALSE, locals |-> <<>>, replaced |-> {},
            sym |-> stockup_symbols, names |-> StockNames, renamed |-> {}, err |-> 0, ice |-> 0,
            dfclosed |-> FALSE, dfquiet |-> FALSE, dffun |-> NoFunction,
            refs |-> (NoFunction :> {}), economy |-> FALSE, abbr |-> <<>>, sorted |-> FALSE,
            low |-> <<>>, strs |-> <<>>, dict |-> <<>>, dtree |-> <<>>, root |-> 0, val |-> 0,
            code |-> <<>>, bps |-> <<>>, hold |-> <<>>, loff |-> <<>>, lsym |-> <<>>,
            nlab |-> 0, lused |-> {}, dead |-> {}, funcs |-> <<>>, ex |-> <<>>,
            globals |-> [n \in 0 .. 239 |-> zero_operand], nglob |-> 0,
            dynamic |-> [i \in 1 .. 480 |-> 0], static |-> <<>>,
            array |-> [static |-> FALSE, base |-> 0, start |-> 0, size |-> 0],
            arrays |-> <<>>, zbps |-> <<>>, needed |-> <<>>, vivc |-> FALSE, took |-> FALSE,
            nattr |-> 0, nindiv |-> 72, nobjects |-> 0, objects |-> <<>>, classes |-> <<>>,
            props |-> <<>>, indiv |-> <<>>, commons |-> <<>>, ob |-> NewObject("", <<>>, 0, FALSE),
            iverbs |-> <<>>, adjectives |-> <<>>, parsers |-> <<>>, actions |-> <<>>, nfake |-> 0,
            lines |-> <<>>, everbs |-> <<>>, gver |-> 1, phase |-> "program",
            def |-> NoDefinition, ifs |-> <<>>, release |-> 1, serial |-> <<>>, statusline |-> 0,
            system |-> FALSE, constmade |-> FALSE, veneer |-> TRUE, vaddress |-> <<>>, vnext |-> 1,
            idn |-> <<>>, at |-> <<>>, mem |-> <<>>]
  IN  [objects_begin_pass(compile_initial_routine(c)) EXCEPT !.veneer = FALSE]

-----------------------------------------------------------------------------
(***************************************************************************)
(* Inform 6: the story file (tables.c, with the names of symbols.c, the    *)
(* backpatching of bpatch.c and the output of files.c), for version 3.     *)
(*                                                                         *)
(*   idn  the addresses of the names of symbols                            *)
(*   at   where each table is, by the name of the compiler's variable      *)
(*   mem  zmachine_paged_memory, then the whole story file                 *)
(* The alphabet, Unicode and terminating-characters tables, the map of the *)
(* memory and the debugging file are left out.                             *)
(***************************************************************************)

------------------------------------------------------------------------------
\* write_the_identifier_names: c.idn, the addresses of the names of properties,
\* attributes, actions and arrays.

\* The symbols, by number; a name that left the table has none.
Symbols(c) == { n \in DOMAIN c.names : Known(c, c.names[n]) /\ c.sym[c.names[n]].no = n }

SymbolName(c, text) == compile_string(c, text, "SYMBOL")

\* An aliased name goes with up to three later ones of the same value.
Aliases(c, n) ==
  LET s == c.names[n]
      same == { k \in Symbols(c) : /\ k > n
                                   /\ c.sym[c.names[k]].ty = c.sym[s].ty
                                   /\ c.sym[c.names[k]].v = c.sym[s].v }
      order == Ascending(same, Len(c.names))
  IN  Folded(LAMBDA text, k : text \o << "/" >> \o Letters(c.names[k]), Letters(s),
               SubSeq(order, 1, IF Len(order) < 3 THEN Len(order) ELSE 3))

\* Symbol n, one of a kind whose names are in the table and have the value empty
\* before they are known.
NameOne(c, n, table, empty) ==
  LET s == c.names[n]
      v == c.sym[s].v
      aliased == Has(c, s, "ALIASED")
      d == SymbolName(c, IF aliased THEN Aliases(c, n) ELSE Letters(s))
  IN  IF aliased /\ c.idn[table][v] # empty THEN c ELSE [d EXCEPT !.idn[table][v] = d.val]

NameSymbol(c, n) ==
  LET s == c.names[n]
      ty == c.sym[s].ty
      d == IF ty \in {"PROPERTY", "INDIVIDUAL_PROPERTY"} THEN NameOne(c, n, "properties", 0) ELSE c
      e == IF ty = "ATTRIBUTE" THEN NameOne(d, n, "attributes", c.idn.unknown) ELSE d
      f == SymbolName(e, Letters(SubSeq(s, 1, Len(s) - 3)))
  IN  IF Has(c, s, "ACTION") THEN [f EXCEPT !.idn.actions[c.sym[s].v] = f.val] ELSE e

NameFake(c, n) ==
  LET s == c.names[n]
      d == SymbolName(c, Letters(SubSeq(s, 1, Len(s) - 3)))
  IN  [d EXCEPT !.idn.actions[c.sym[s].v - lowest_fake_action(c) + Len(c.actions)] = d.val]

NameArray(c, a) ==
  LET d == SymbolName(c, Letters(c.arrays[a].s)) IN [d EXCEPT !.idn.arrays[a] = d.val]

write_the_identifier_names(c) ==
  LET d == SymbolName(c, Letters("<unknown attribute>"))
      e == [d EXCEPT !.idn =
              [unknown |-> d.val, properties |-> [n \in 0 .. c.nindiv - 1 |-> 0],
               attributes |-> [n \in 0 .. 47 |-> d.val],
               actions |-> [n \in 0 .. Len(c.actions) + c.nfake - 1 |-> 0],
               arrays |-> [a \in DOMAIN c.arrays |-> 0]]]
      f == Folded(NameSymbol, e, Ascending(Symbols(c), Len(c.names)))
      fakes == { n \in Symbols(c) : c.sym[c.names[n]].ty = "FAKE_ACTION" }
      g == Folded(NameFake, f, Ascending(fakes, Len(c.names)))
  IN  Folded(NameArray, g, [a \in DOMAIN c.arrays |-> a])

------------------------------------------------------------------------------
\* The parts of the file.

\* The words of a function on an interval of numbers.
WordsOf(f, first, last) ==
  [i \in 1 .. 2 * (last - first + 1) |-> Word(f[first + (i - 1) \div 2])[2 - (i % 2)]]
Zeros(n) == [i \in 1 .. n |-> 0]
RoundUp(n, by) == n + ((- n) % by)

\* A verb that no word has is written without lines; in version 1 a line has six
\* tokens and the number of those that are no prepositions.
GrammarLine(c, line) ==
  LET toks == line.toks
      n == Cardinality({ i \in DOMAIN toks : toks[i][1] < 180 })
      Code(i) == IF i <= Len(toks) THEN toks[i][1] ELSE 0
  IN  CASE c.gver = 1 -> << n >> \o [i \in 1 .. 6 |-> Code(i)] \o << line.act % 256 >>
        [] c.gver = 2 -> Word(line.act)
                         \o Joined([i \in DOMAIN toks |-> << toks[i][1] >> \o Word(toks[i][2])])
                         \o << 15 >>
        [] c.gver = 3 -> Word(line.act)
                         \o Joined([i \in DOMAIN toks |-> << toks[i][1], toks[i][2] >>])

VerbLines(c, verb) ==
  LET lines == c.iverbs[verb + 1]
  IN  IF verb \notin locate_dead_grammar_lines(c) THEN <<0>>
      ELSE << Len(lines) >> \o Joined([i \in DOMAIN lines |-> GrammarLine(c, c.lines[lines[i]])])

Grammar(c) == [n \in 1 .. Len(c.iverbs) |-> VerbLines(c, n - 1)]

HeaderExtensionWords == 3

\* The tables in their order, and their sizes.
Sizes(c) ==
  << << "header", 64 >>, << "low_strings", 2 + Len(c.low) >>, << "abbrevs", 192 >>,
     << "headerext", 2 + 2 * HeaderExtensionWords >>,
     << "align", (Len(c.low) % 2) >>,
     << "prop_defaults", 62 >>, << "object_tree", 9 * c.nobjects >>,
     << "object_props", Len(c.props) >>, << "class_numbers", 2 * (Len(c.classes) + 1) >>,
     << "identifier_names", 2 * c.nindiv >>, << "attribute_names", 96 >>,
     << "action_names", 2 * (Len(c.actions) + c.nfake) >>, << "array_names", 2 * Len(c.arrays) >>,
     << "individuals", Len(c.indiv) >>, << "globals", Len(c.dynamic) >>,
     << "grammar_table", 2 * Len(c.iverbs) + Len(Joined(Grammar(c))) >>,
     << "actions", 2 * Len(c.actions) >>,
     << "preactions", IF c.gver = 2 THEN 0 ELSE 2 * Len(c.parsers) >>,
     << "adjectives", 2 + CASE c.gver = 1 -> 4 * Len(c.adjectives) [] c.gver = 2 -> 0
                            [] c.gver = 3 -> 2 * Len(c.adjectives) >>,
     << "dictionary", 7 + 7 * Len(c.dict) >>, << "static_arrays", Len(c.static) >> >>

Scale_factor == 2

\* The code starts at a packed address that is a long constant, the strings at
\* one after it.
Layout(c) ==
  LET Placed(at, part) == (part[1] :> at.end) @@ ("end" :> at.end + part[2]) @@ at
      tables == Folded(Placed, "end" :> 0, Sizes(c))
      code == Max({RoundUp(tables.end, 2), Scale_factor * 256})
  IN  ("code" :> code) @@ ("strings" :> RoundUp(code + Len(c.code), Scale_factor)) @@ tables

DictionaryWord(c, n) == c.at.dictionary + 7 + 7 * final_dict_order(c)[n]
Packed(c, v) == v + c.at.code \div Scale_factor

ObjectEntry(c, n) ==
  LET o == c.objects[n]
      before == Folded(LAMBDA sum, k : sum + c.objects[k].size, c.at.object_props,
                         [k \in 1 .. n - 1 |-> k])
  IN  SubSeq(AttributeBytes(o.atts), 1, 4) \o << o.parent % 256, o.next, o.child >> \o Word(before)

GrammarTable(c) ==
  LET verbs == Grammar(c)
      Start(n) == c.at.grammar_table + 2 * Len(verbs) + Len(Joined(SubSeq(verbs, 1, n - 1)))
  IN  Joined([n \in DOMAIN verbs |-> Word(Start(n))]) \o Joined(verbs)

\* In version 1 the prepositions are in the order of their numbers.
Adjectives(c) ==
  LET n == Len(c.adjectives)
      Numbered1(i) == Word(DictionaryWord(c, c.adjectives[n + 1 - i])) \o << 0, 255 - n + i >>
  IN  CASE c.gver = 1 -> << 0, n % 256 >> \o Joined([i \in 1 .. n |-> Numbered1(i)])
        [] c.gver = 2 -> << 0, 0 >>
        [] c.gver = 3 -> << 0, n % 256 >>
                         \o Joined([i \in 1 .. n |-> Word(DictionaryWord(c, c.adjectives[i]))])

DictionaryTable(c) ==
  LET order == InOrder(c.dtree, c.root)
      Entry3(e) == e.w \o << e.p1 % 256, e.p2 % 256, e.p3 % 256 >>
  IN  << 3, CodeOf["."], CodeOf[","], CodeOf["\""], 7 >> \o Word(Len(c.dict))
      \o Joined([i \in DOMAIN order |-> Entry3(c.dict[order[i]])])

StoryHeader(c) ==
  << 3, 2 * c.statusline >> \o Word(c.release) \o Word(c.at.code) \o Word(c.at.code + 1)
  \o Word(c.at.dictionary) \o Word(c.at.prop_defaults) \o Word(c.at.globals)
  \o Word(c.at.grammar_table) \o << 0, 0 >>
  \o [i \in 1 .. 6 |-> CodeOf[c.serial[i]]] \o Word(c.at.abbrevs)
  \o Word((c.at.strings + Len(c.strs)) \div 2) \o Zeros(26) \o Word(c.at.headerext) \o Zeros(4)
  \o << CodeOf["6"], CodeOf["."], CodeOf["4"], CodeOf["4"] >>

\* What is known before the backpatching; the routines of actions and tokens are
\* written already.
PagedMemory(c) ==
  LET dynamic == [i \in DOMAIN c.dynamic |->
                    IF i > 480 THEN c.dynamic[i] ELSE Word(c.globals[(i - 1) \div 2].v)[2 - (i % 2)]]
      abbreviations == Joined([i \in DOMAIN c.abbr |-> Word(c.abbr[i].v)])
      default == Joined([i \in 1 .. 96 |-> << 0, 32 >>])
      tables ==
        << StoryHeader(c), << 128, 0 >>, c.low,
           SubSeq(default, 1, 64) \o abbreviations \o SubSeq(default, 65 + Len(abbreviations), 192),
           << 0, HeaderExtensionWords >>, Zeros(2 * HeaderExtensionWords),
           Zeros((Len(c.low) % 2)), << 0, 0 >>,
           Joined([i \in 1 .. 30 |-> IF i + 1 <= Len(c.commons) THEN Word(c.commons[i + 1].v)
                                         ELSE << 0, 0 >>]),
           Joined([n \in 1 .. c.nobjects |-> ObjectEntry(c, n)]), c.props,
           Joined([i \in DOMAIN c.classes |-> Word(c.classes[i].object)]), << 0, 0 >>,
           Word(c.nindiv), WordsOf(c.idn.properties, 1, c.nindiv - 1),
           WordsOf(c.idn.attributes, 0, 47),
           WordsOf(c.idn.actions, 0, Len(c.actions) + c.nfake - 1),
           WordsOf(c.idn.arrays, 1, Len(c.arrays)),
           c.indiv, dynamic, GrammarTable(c),
           Joined([i \in DOMAIN c.actions |-> Word(Packed(c, c.actions[i].at))]),
           IF c.gver = 2 THEN <<>>
           ELSE Joined([i \in DOMAIN c.parsers |-> Word(Packed(c, c.parsers[i]))]),
           Adjectives(c), DictionaryTable(c), c.static, Zeros(c.at.code - c.at.end) >>
  IN  Joined(tables)

------------------------------------------------------------------------------
\* Backpatching.

value_of_system_constant(c, name) ==
  CASE name = "actions_table" -> c.at.actions
    [] name \in {"classes_table", "class_objects_array", "cpv__end"} -> c.at.class_numbers
    [] name = "identifiers_table" -> c.at.identifier_names
    [] name = "preactions_table" -> c.at.preactions
    [] name = "adjectives_table" -> c.at.adjectives + 2
    [] name = "largest_object" -> 255 + c.nobjects
    [] name = "strings_offset" -> c.at.strings \div Scale_factor
    [] name = "code_offset" -> c.at.code \div Scale_factor
    [] name = "actual_largest_object" -> c.nobjects
    [] name \in {"static_memory_offset", "array__end", "grammar_table"} -> c.at.grammar_table
    [] name = "readable_memory_offset" -> c.at.code
    [] name = "cpv__start" -> c.at.object_props
    [] name = "ipv__start" -> c.at.individuals
    [] name \in {"ipv__end", "globals_array"} -> c.at.globals
    [] name = "array__start" -> c.at.globals + 480
    [] name = "highest_attribute_number" -> c.nattr - 1
    [] name = "highest_object_number" -> c.nobjects - 1
    [] name = "highest_class_number" -> Len(c.classes) - 1
    [] name = "highest_action_number" -> Len(c.actions) - 1
    [] name = "dictionary_table" -> c.at.dictionary
    [] name = "array_names_offset" -> c.at.array_names

WordAt(mem, at) == 256 * mem[at + 1] + mem[at + 2]

Result(c, v) == [c EXCEPT !.val = v]

MainRoutine(c) ==
  IF ~ Known(c, "Main") \/ (Known(c, "Main") /\ c.sym["Main"].ty # "ROUTINE") THEN Result(Error(c), 0)
  ELSE Result(c, Packed(c, c.sym["Main"].v))

\* The value of a symbol, where its type puts it.
Placed(c, s) ==
  LET v == c.sym[s].v
  IN  CASE c.sym[s].ty = "ROUTINE" -> Packed(c, v)
        [] c.sym[s].ty = "ARRAY" -> v + c.at.globals
        [] c.sym[s].ty = "STATIC_ARRAY" -> v + c.at.static_arrays
        [] OTHER -> v

\* backpatch_value_z: c.val is the value that v, marked m, stands for.  A constant
\* whose own value was not final is settled the first time it is met.
RECURSIVE backpatch_value(_, _, _)
backpatch_value(c, m, v) ==
  LET s == c.names[v]
      missing == Has(c, s, "UNKNOWN")
      first == missing /\ ~ Has(c, s, "UERROR")
      d == backpatch_value([c EXCEPT !.sym[s].fl = @ \ {"CHANGE"}], c.sym[s].m, c.sym[s].v)
      settled == IF ~ missing /\ Has(c, s, "CHANGE") THEN [d EXCEPT !.sym[s].v = d.val]
                 ELSE WithFlag(ErrorIf(first, c), s, IF missing THEN "UERROR" ELSE "USED")
  IN  CASE m = "STRING" -> Result(c, v + c.at.strings \div Scale_factor)
        [] m = "ARRAY" -> Result(c, v + c.at.globals)
        [] m = "STATIC_ARRAY" -> Result(c, v + c.at.static_arrays)
        [] m = "IROUTINE" -> Result(c, Packed(c, v))
        [] m = "VROUTINE" ->
             LET name == VeneerNames[v + 1]
             IN  Result(c, Packed(c, IF name \in DOMAIN c.vaddress THEN c.vaddress[name] ELSE 0))
        [] m = "NO_OBJS" -> Result(c, c.nobjects)
        [] m = "INCON" -> Result(c, value_of_system_constant(c, SystemConstantList[v]))
        [] m = "DWORD" -> Result(c, DictionaryWord(c, v))
        [] m = "INHERIT" -> Result(c, WordAt(c.mem, v + c.at.object_props))
        [] m = "INHERIT_INDIV" -> Result(c, WordAt(c.mem, v + c.at.individuals))
        [] m = "INDIVPT" -> Result(c, v + c.at.individuals)
        [] m = "MAIN" -> MainRoutine(c)
        [] m = "ACTION" -> Result(c, v)
        [] m = "SYMBOL" -> Result(settled, Placed(settled, s))
        [] OTHER -> Result(CompilerError(c), v)

AreaOffset(c, za) ==
  CASE za = "PROP_DEFAULTS" -> c.at.prop_defaults
    [] za = "PROP" -> c.at.object_props
    [] za = "INDIVIDUAL_PROP" -> c.at.individuals
    [] za = "DYNAMIC_ARRAY" -> c.at.globals
    [] za = "STATIC_ARRAY" -> c.at.static_arrays

PutWord(c, at) == [c EXCEPT !.mem[at + 1] = Word(c.val)[1], !.mem[at + 2] = Word(c.val)[2]]

backpatch_zmachine_image(c) ==
  LET One(d, bp) == LET at == AreaOffset(c, bp.za) + bp.at
                    IN  PutWord(backpatch_value(d, bp.m, WordAt(d.mem, at)), at)
  IN  Folded(One, c, c.zbps)

\* The names, once the strings have their place.
BackpatchNames(c) ==
  LET first == c.at.identifier_names
      n == (c.at.individuals - first) \div 2
      One(d, i) == LET v == WordAt(d.mem, first + 2 * i)
                   IN  IF v = 0 THEN d
                       ELSE PutWord(Result(d, v + c.at.strings \div Scale_factor), first + 2 * i)
  IN  Folded(One, c, [i \in 1 .. n - 1 |-> i])

\* In version 2 the tokens of a line that are words or routines.
BackpatchLine(c, at) ==
  LET code == c.mem[at + 1]
      v == WordAt(c.mem, at + 1)
      value == CASE code \div 64 = 1 -> DictionaryWord(c, v)
                 [] code \div 64 = 2 -> Packed(c, v)
                 [] OTHER -> v
  IN  PutWord(Result(c, value), at + 1)

BackpatchGrammar(c) ==
  LET verbs == Grammar(c)
      start == c.at.grammar_table + 2 * Len(verbs)
      used == locate_dead_grammar_lines(c)
      Lines(n) == IF n - 1 \in used THEN c.iverbs[n] ELSE <<>>
      \* <<state, the address of the next byte>>
      Token3(p, tok) == << BackpatchLine(p[1], p[2]), p[2] + 3 >>
      Line(p, l) == LET q == Folded(Token3, << p[1], p[2] + 2 >>, c.lines[l].toks)
                    IN  << q[1], q[2] + 1 >>
      Verb(p, n) == Folded(Line, << p[1], p[2] + 1 >>, Lines(n))
  IN  IF c.gver # 2 THEN c ELSE Folded(Verb, << c, start >>, [n \in DOMAIN verbs |-> n])[1]

\* The code, as it is written to the file.
BackpatchCode(c) ==
  LET One(d, bp) ==
        LET i == bp.at + 1
            e == backpatch_value(d, bp.m, IF bp.short THEN d.code[i] ELSE WordAt(d.code, bp.at))
        IN  IF bp.short THEN [e EXCEPT !.code[i] = e.val % 256]
            ELSE [e EXCEPT !.code[i] = Word(e.val)[1], !.code[i + 1] = Word(e.val)[2]]
  IN  Folded(One, c, c.bps)

------------------------------------------------------------------------------
\* The passes.

\* The serial number when the program gives none and the date is not known.
NoDate == << "9", "7", "0", "0", "0", "0" >>

\* construct_storyfile_z.
construct_storyfile(c) ==
  LET d == write_the_identifier_names(IF c.serial = <<>> THEN [c EXCEPT !.serial = NoDate] ELSE c)
      e == [d EXCEPT !.at = Layout(d)]
      f == [e EXCEPT !.mem = PagedMemory(e)]
  IN  IF e.at.code > 65534 THEN Error(f)
      ELSE BackpatchGrammar(BackpatchNames(backpatch_zmachine_image(f)))

\* output_file_z: the length is in words; the sum of the bytes after the header
\* is in it, and the file ends on a page.
output_file(c) ==
  LET d == BackpatchCode(c)
      mem == c.mem \o d.code \o Zeros(c.at.strings - c.at.code - Len(d.code)) \o d.strs
      sum == Folded(+, 0, SubSeq(mem, 65, Len(mem)))
      whole == mem \o Zeros(RoundUp(Len(mem), 512) - Len(mem))
  IN  [d EXCEPT !.mem = [whole EXCEPT ![29] = Word(sum)[1], ![30] = Word(sum)[2]]]

\* A pass and its output, a step at a time; there is no output after an error.
StoryStep(c) ==
  CASE c.phase = "compiled" -> [construct_storyfile(c) EXCEPT !.phase = "constructed"]
    [] c.phase = "constructed" ->
         [(IF c.err > 0 THEN c ELSE output_file(c)) EXCEPT !.phase = "written"]
    [] OTHER -> CompileStep(c)

=============================================================================
