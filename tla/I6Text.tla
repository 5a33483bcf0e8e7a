------------------------------- MODULE I6Text -------------------------------
(***************************************************************************)
(* Inform 6: the lexical analyser (lexer.c) and the symbol table           *)
(* (symbols.c), for the Z-code target.                                     *)
(*                                                                         *)
(* The whole state of a compilation is one record c, threaded through the  *)
(* operators of the I6 modules the way the compiler's global variables are *)
(* through its functions.  The fields of this module:                      *)
(*   src, pos   the lexemes of the source and the index of the next one    *)
(*   circ, back the tokens read since the last release, and how many of    *)
(*              them are put back                                          *)
(*   tok        the current token: token_type, token_text, token_value     *)
(*   en         the keyword groups that are enabled                        *)
(*   raw        dont_enter_into_symbol_table: 0, 1 or -2                   *)
(*   spvar      return_sp_as_variable                                      *)
(*   locals     the names of the current routine's local variables         *)
(*   replaced   the system functions that have been Replaced               *)
(*   sym, names the symbol table, and the names in the order of their      *)
(*              numbers: code and tables refer to a symbol by its number     *)
(*   renamed    the mappings of "Replace X Y"                              *)
(*   err, ice   the number of errors reported, and of internal errors      *)
(* Characters are not modelled: a lexeme is a string, "" the end of file,  *)
(* and a name has one spelling: the case of letters, which the compiler    *)
(* does not regard in names, is the one used here.                         *)
(* Line numbers, warnings and tracing are left out.                        *)
(***************************************************************************)
EXTENDS Integers, Sequences, FiniteSets, TLC, Bitwise, SequencesExt

CONSTANTS Numerals,  \* [lexeme -> the number it is written for]
          Quoted,    \* [lexeme -> the characters between double quotes]
          Primed,    \* [lexeme -> the characters between single quotes]
          Hashed     \* [lexeme -> <<separator, name>>], as in ##Name and #n$Name

\* FoldLeft and FlattenSeq by halves, so that TLC's work and stack stay small.
Folded(op(_, _), base, seq) ==
  LET RECURSIVE Go(_, _, _)
      Go(r, i, j) ==
        IF i > j THEN r
        ELSE IF i = j THEN op(r, seq[i])
        ELSE LET m == (i + j) \div 2
             IN  CHOOSE all \in { Go(half, m + 1, j) : half \in { Go(r, i, m) } } : TRUE
  IN  Go(base, 1, Len(seq))

\* Step, again and again while Goes: once, twice, four times and so on, by halves.
Repeated(Step(_), Goes(_), start) ==
  LET RECURSIVE Go(_, _), Grow(_, _)
      Go(x, k) == LET half == Go(x, k - 1)
                  IN  IF k = 0 THEN Step(x) ELSE IF Goes(half) THEN Go(half, k - 1) ELSE half
      Grow(x, k) == LET y == Go(x, k) IN IF Goes(y) THEN Grow(y, k + 1) ELSE y
  IN  IF Goes(start) THEN Grow(start, 0) ELSE start

\* Next of x, which TLC works out before it begins with Next.
Then(x, Next(_)) == CHOOSE all \in { Next(done) : done \in { x } } : TRUE

Joined(seqs) ==
  LET RECURSIVE Go(_, _)
      Go(i, j) == IF i > j THEN <<>>
                  ELSE IF i = j THEN seqs[i]
                  ELSE LET m == (i + j) \div 2 IN Go(i, m) \o Go(m + 1, j)
  IN  Go(1, Len(seqs))

\* The numbers of a set, in increasing order; the largest is at most n.
Ascending(S, n) == SelectSeq([i \in 1 .. n |-> i], LAMBDA i : i \in S)

Error(c) == [c EXCEPT !.err = @ + 1]
\* compiler_error: an internal inconsistency, reported only if no error was.
CompilerError(c) == IF c.err > 0 THEN c ELSE [c EXCEPT !.ice = @ + 1]
ErrorIf(bad, c) == IF bad THEN Error(c) ELSE c

------------------------------------------------------------------------------
\* Keywords.

separators ==
  { "->", "-->", "--", "-", "++", "+", "*", "/", "%", "||", "|", "&&", "&", "~~",
    "~=", "~", "==", "=", ">=", ">", "<=", "<", "(", ")", ",", ".&", ".#", "..&",
    "..#", "..", ".", "::", ":", "@", ";", "[", "]", "{", "}", "$", "?~", "?",
    "#a$", "#g$", "#n$", "#r$", "#w$", "##", "#" }

opcode_list_z ==
  { "je", "jl", "jg", "dec_chk", "inc_chk", "jin", "test", "or", "and",
    "test_attr", "set_attr", "clear_attr", "store", "insert_obj", "loadw",
    "loadb", "get_prop", "get_prop_addr", "get_next_prop", "add", "sub", "mul",
    "div", "mod", "call", "storew", "storeb", "put_prop", "sread", "print_char",
    "print_num", "random", "push", "pull", "split_window", "set_window",
    "output_stream", "input_stream", "sound_effect", "jz", "get_sibling",
    "get_child", "get_parent", "get_prop_len", "inc", "dec", "print_addr",
    "remove_obj", "print_obj", "ret", "jump", "print_paddr", "load", "not",
    "rtrue", "rfalse", "print", "print_ret", "nop", "save", "restore", "restart",
    "ret_popped", "pop", "quit", "new_line", "show_status", "verify",
    \* later versions of the Z-machine only
    "call_2s", "call_vs", "aread", "call_vs2", "erase_window", "erase_line",
    "set_cursor", "get_cursor", "set_text_style", "buffer_mode", "read_char",
    "scan_table", "call_1s", "call_2n", "set_colour", "throw", "call_vn",
    "call_vn2", "tokenise", "encode_text", "copy_table", "print_table",
    "check_arg_count", "call_1n", "catch", "log_shift", "art_shift", "set_font",
    "save_undo", "restore_undo" }

directives ==
  { "abbreviate", "array", "attribute", "class", "constant", "default",
    "dictionary", "end", "endif", "extend", "fake_action", "global", "ifdef",
    "ifndef", "ifnot", "ifv3", "ifv5", "iftrue", "iffalse", "import", "include",
    "link", "lowstring", "message", "nearby", "object", "origsource", "property",
    "release", "replace", "serial", "switches", "statusline", "stub",
    "system_file", "trace", "undef", "verb", "version", "zcharacter" }

trace_keywords ==
  { "dictionary", "symbols", "objects", "verbs", "assembly", "expressions",
    "lines", "tokens", "linker", "on", "off" }

segment_markers == { "class", "has", "private", "with" }

directive_keywords ==
  { "alias", "long", "additive", "score", "time", "noun", "held", "multi",
    "multiheld", "multiexcept", "multiinside", "creature", "special", "number",
    "scope", "topic", "reverse", "meta", "only", "replace", "first", "last",
    "string", "table", "buffer", "data", "initial", "initstr", "with", "private",
    "has", "class", "error", "fatalerror", "warning", "terminating", "static",
    "individual" }

misc_keywords ==
  { "char", "name", "the", "a", "an", "The", "number", "roman", "reverse", "bold",
    "underline", "fixed", "on", "off", "to", "address", "string", "object",
    "near", "from", "property", "A" }

statements ==
  { "box", "break", "continue", "default", "do", "else", "font", "for", "give",
    "if", "inversion", "jump", "move", "new_line", "objectloop", "print",
    "print_ret", "quit", "read", "remove", "restore", "return", "rfalse", "rtrue",
    "save", "spaces", "string", "style", "switch", "until", "while" }

conditions == { "has", "hasnt", "in", "notin", "ofclass", "or", "provides" }

SystemFunctionList ==
  << "child", "children", "elder", "eldest", "indirect", "parent", "random",
     "sibling", "younger", "youngest", "metaclass", "glk" >>

system_functions == { SystemFunctionList[n] : n \in DOMAIN SystemFunctionList }

\* The ones whose values value_of_system_constant_z gives for the tables that
\* this model lays out; the others belong to options that are never on.
SystemConstantList ==
  << "actions_table", "classes_table", "identifiers_table", "preactions_table",
     "adjectives_table", "largest_object", "strings_offset", "code_offset",
     "actual_largest_object", "static_memory_offset", "readable_memory_offset",
     "cpv__start", "cpv__end", "ipv__start", "ipv__end", "array__start",
     "array__end", "highest_attribute_number", "class_objects_array",
     "highest_object_number", "grammar_table", "dictionary_table", "globals_array",
     "highest_class_number", "highest_action_number", "version_number",
     "array_names_offset", "oddeven_packing" >>

system_constants == { SystemConstantList[n] : n \in DOMAIN SystemConstantList }

\* keyword_groups, in the order in which they are searched.
Groups ==
  << [g |-> "opcodes",   w |-> opcode_list_z,      t |-> "OPCODE_NAME"],
     [g |-> "directives",w |-> directives,         t |-> "DIRECTIVE"],
     [g |-> "trace",     w |-> trace_keywords,     t |-> "TRACE_KEYWORD"],
     [g |-> "segments",  w |-> segment_markers,    t |-> "SEGMENT_MARKER"],
     [g |-> "dirwords",  w |-> directive_keywords, t |-> "DIR_KEYWORD"],
     [g |-> "misc",      w |-> misc_keywords,      t |-> "MISC_KEYWORD"],
     [g |-> "statements",w |-> statements,         t |-> "STATEMENT"],
     [g |-> "conditions",w |-> conditions,         t |-> "CND"],
     [g |-> "sysfuns",   w |-> system_functions,   t |-> "SYSFUN"],
     [g |-> "sysconsts", w |-> system_constants,   t |-> "SYSTEM_CONSTANT"] >>

Enable(c, groups)  == [c EXCEPT !.en = @ \cup groups]
Disable(c, groups) == [c EXCEPT !.en = @ \ groups]

------------------------------------------------------------------------------
\* The symbol table: [name -> [ty, v, fl, m, no]].

Unknown == [ty |-> "CONSTANT", v |-> 256, fl |-> {"UNKNOWN"}, m |-> "NULL", no |-> 0]

Known(c, s) == s \in DOMAIN c.sym
Has(c, s, flag) == flag \in c.sym[s].fl
WithFlag(c, s, flag) == [c EXCEPT !.sym[s].fl = @ \cup {flag}]

\* A reference of the function being compiled (0 is the global namespace), which
\* the removal of unused routines follows.
df_note_function_symbol(c, s) ==
  IF \/ c.dfclosed \/ c.dfquiet \/ c.dead # {}
     \/ ~ (c.sym[s].ty = "ROUTINE" \/ (c.sym[s].ty = "CONSTANT" /\ Has(c, s, "UNKNOWN")))
    THEN c
    ELSE [c EXCEPT !.refs[c.dffun] = @ \cup {s}]

symbol_index(c, s) ==
  LET found == IF Known(c, s) THEN c
               ELSE [c EXCEPT !.sym = (s :> [Unknown EXCEPT !.no = Len(c.names) + 1]) @@ @,
                              !.names = Append(@, s)]
  IN  df_note_function_symbol(found, s)

\* Undef, and a new symbol whose token is put back.
end_symbol_scope(c, s) ==
  [c EXCEPT !.sym = [n \in DOMAIN c.sym \ {s} |-> c.sym[n]]]

assign_symbol_base(c, s, v, ty) ==
  [c EXCEPT !.sym[s].v = v, !.sym[s].ty = ty, !.sym[s].fl = @ \ {"UNKNOWN"}]

assign_symbol(c, s, v, ty) ==
  [assign_symbol_base(c, s, v, ty) EXCEPT !.sym[s].m = "NULL"]

assign_marked_symbol(c, s, m, v, ty) ==
  [assign_symbol_base(c, s, v, ty) EXCEPT !.sym[s].m = m]

\* stockup_symbols: what is defined before the first line of the source, in the
\* order of the numbers: <<name, value, type>>.
Stock ==
  << << "TARGET_ZCODE", 0, "CONSTANT" >>, << "nothing", 0, "OBJECT" >>,
     << "name", 1, "PROPERTY" >>, << "true", 1, "CONSTANT" >>, << "false", 0, "CONSTANT" >>,
     << "Grammar__Version", 1, "CONSTANT" >>, << "WORDSIZE", 2, "CONSTANT" >>,
     << "DICT_ENTRY_BYTES", 7, "CONSTANT" >>, << "DICT_WORD_SIZE", 4, "CONSTANT" >>,
     << "NUM_ATTR_BYTES", 4, "CONSTANT" >>, << "temp_global", 255, "GLOBAL_VARIABLE" >>,
     << "temp__global2", 254, "GLOBAL_VARIABLE" >>, << "temp__global3", 253, "GLOBAL_VARIABLE" >>,
     << "temp__global4", 252, "GLOBAL_VARIABLE" >>, << "self", 251, "GLOBAL_VARIABLE" >>,
     << "sender", 250, "GLOBAL_VARIABLE" >>, << "sw__var", 249, "GLOBAL_VARIABLE" >>,
     << "sys__glob0", 16, "GLOBAL_VARIABLE" >>, << "sys__glob1", 17, "GLOBAL_VARIABLE" >>,
     << "sys__glob2", 18, "GLOBAL_VARIABLE" >>, << "create", 64, "INDIVIDUAL_PROPERTY" >>,
     << "recreate", 65, "INDIVIDUAL_PROPERTY" >>, << "destroy", 66, "INDIVIDUAL_PROPERTY" >>,
     << "remaining", 67, "INDIVIDUAL_PROPERTY" >>, << "copy", 68, "INDIVIDUAL_PROPERTY" >>,
     << "call", 69, "INDIVIDUAL_PROPERTY" >>, << "print", 70, "INDIVIDUAL_PROPERTY" >>,
     << "print_to_array", 71, "INDIVIDUAL_PROPERTY" >> >>

StockNames == [n \in DOMAIN Stock |-> Stock[n][1]]

stockup_symbols ==
  [s \in { StockNames[n] : n \in DOMAIN Stock } |->
     LET n == CHOOSE i \in DOMAIN Stock : StockNames[i] = s
     IN  [ty |-> Stock[n][3], v |-> Stock[n][2], m |-> "NULL", no |-> n,
          fl |-> {"USED", "SYSTEM"}
                 \cup IF s \in {"Grammar__Version", "DICT_ENTRY_BYTES"} THEN {"REDEFINABLE"}
                      ELSE {}]]

\* "Replace X Y": Y names the routine that X's replacement replaces.
add_symbol_replacement_mapping(c, original, new) ==
  IF original = new THEN Error(c)
  ELSE LET double  == \E p \in c.renamed : p[1] = original
           chained == \E p \in c.renamed : p[1] = new
       IN  [ErrorIf(double, ErrorIf(chained, c)) EXCEPT !.renamed = @ \cup {<<original, new>>}]

find_symbol_replacement(c, s) ==
  IF \E p \in c.renamed : p[1] = s THEN (CHOOSE p \in c.renamed : p[1] = s)[2] ELSE s

------------------------------------------------------------------------------
\* Tokens.

Token(t, x) == [t |-> t, x |-> x, v |-> 0, new |-> FALSE]

add_local_variable(c, name) == [c EXCEPT !.locals = Append(@, name)]

LocalIndex(c, x) == CHOOSE i \in DOMAIN c.locals : c.locals[i] = x
IsLocal(c, x) == \E i \in DOMAIN c.locals : c.locals[i] = x

interpret_identifier(c, x) ==
  LET Matches(n) == /\ Groups[n].g \in c.en /\ x \in Groups[n].w
                    /\ ~ (Groups[n].g = "sysfuns" /\ x \in c.replaced)
  IN  CASE c.raw # 0 ->
             Token(IF c.raw = -2 /\ x \in directives THEN "DIRECTIVE" ELSE "UQ", x)
        [] c.raw = 0 /\ c.spvar /\ x = "sp" -> Token("LOCAL_VARIABLE", x)
        [] c.raw = 0 /\ ~ (c.spvar /\ x = "sp") /\ "locals" \in c.en /\ IsLocal(c, x) ->
             [Token("LOCAL_VARIABLE", x) EXCEPT !.v = LocalIndex(c, x)]
        [] OTHER ->
             IF \E n \in DOMAIN Groups : Matches(n)
               THEN Token(Groups[CHOOSE n \in DOMAIN Groups :
                                   Matches(n) /\ \A k \in 1 .. n - 1 : ~ Matches(k)].t, x)
               ELSE [Token("SYMBOL", x) EXCEPT !.new = ~ Known(c, x)]

\* The characters of one lexeme, for get_next_token: a number in any radix, a
\* quoted text, a separator, or an identifier.
ReadLexeme(c, x) ==
  CASE x = "" -> Token("EOF", x)
    [] x \in DOMAIN Numerals -> [Token("NUMBER", x) EXCEPT !.v = Numerals[x]]
    [] x \in DOMAIN Quoted -> Token("DQ", x)
    [] x \in DOMAIN Primed -> Token("SQ", x)
    [] x \in separators \cup DOMAIN Hashed -> Token("SEP", x)
    [] OTHER -> interpret_identifier(c, x)

lexical_context(c) == <<c.en, c.raw, c.spvar>>

\* token_type, token_text and token_value are set; a new name enters the symbols.
Export(c, token) ==
  LET seen == IF token.t = "SYMBOL" THEN symbol_index(c, token.x) ELSE c
  IN  [seen EXCEPT !.tok = token]

IsIdentifier(token) == token.t \notin {"EOF", "NUMBER", "DQ", "SQ", "SEP", "UQ"}

get_next_token(c) ==
  IF c.back > 0
  THEN LET i == Len(c.circ) - c.back + 1
           old == c.circ[i]
           again == IF old.ctx # lexical_context(c) /\ IsIdentifier(old.k)
                      THEN interpret_identifier(c, old.k.x) ELSE old.k
       IN  Export([c EXCEPT !.back = @ - 1,
                            !.circ[i] = [k |-> again, ctx |-> lexical_context(c)]], again)
  ELSE LET x == IF c.pos > Len(c.src) THEN "" ELSE c.src[c.pos]
           token == ReadLexeme(c, x)
       IN  Export([c EXCEPT !.pos = @ + 1,
                            !.circ = Append(@, [k |-> token, ctx |-> lexical_context(c)])],
                  token)

\* A symbol that this token created leaves the table, and is read again when the
\* token is.
put_token_back(c) ==
  LET i == Len(c.circ) - c.back
      token == c.circ[i].k
      fresh == token.t = "SYMBOL" /\ token.new
      gone == IF fresh THEN end_symbol_scope(c, token.x) ELSE c
  IN  [gone EXCEPT !.back = @ + 1,
                   !.circ[i] = IF fresh THEN [k |-> [token EXCEPT !.new = FALSE],
                                              ctx |-> <<>>]
                               ELSE @]

release_token_texts(c) ==
  [c EXCEPT !.circ = SubSeq(@, Len(@) - c.back + 1, Len(@))]

------------------------------------------------------------------------------
\* The current token.

IsSep(c, x) == c.tok.t = "SEP" /\ c.tok.x = x
IsToken(c, t, x) == c.tok.t = t /\ c.tok.x = x

\* get_next_token, then an error and the token put back unless it is x.
Expect(c, x) ==
  LET d == get_next_token(c)
  IN  IF IsSep(d, x) THEN d ELSE put_token_back(Error(d))

\* The name after ##, #n$, #r$, #a$ and the like, and the separator.
HashName(c) == Hashed[c.tok.x][2]
IsHash(c, sep) == c.tok.t = "SEP" /\ c.tok.x \in DOMAIN Hashed /\ Hashed[c.tok.x][1] = sep

-----------------------------------------------------------------------------
(***************************************************************************)
(* Inform 6: text and dictionary (text.c, with the alphabets of chars.c).  *)
(*                                                                         *)
(* A text is a sequence of characters, each a string of length one (but    *)
(* "grave"), or an escape, a name in the domain of Escapes.  Fields of     *)
(* this module:                                                            *)
(*   economy  -e: texts use the abbreviations                              *)
(*   abbr     the abbreviations, [text, v], and sorted: whether the lookup *)
(*            table has been made                                          *)
(*   low, strs  the bytes of the low strings and of the static strings     *)
(*   dict     the dictionary entries, in order of accession: the sort code *)
(*            (four bytes) and the three data bytes                        *)
(*   root, dtree  the red-black tree that sorts them; node numbers are     *)
(*            indices of dict, 0 is VACANT; red: the colour of the branch  *)
(*            to the parent                                                *)
(* Accented and Unicode characters, the contraction of double spaces and   *)
(* the transcript are left out.                                            *)
(***************************************************************************)

CONSTANT Escapes  \* [name -> [k: zscii, string or symbol; v, the number or the name]]

Ascii ==
  << " ", "!", "\"", "#", "$", "%", "&", "'", "(", ")", "*", "+", ",", "-", ".",
     "/", "0", "1", "2", "3", "4", "5", "6", "7", "8", "9", ":", ";", "<", "=", ">",
     "?", "@", "A", "B", "C", "D", "E", "F", "G", "H", "I", "J", "K", "L", "M", "N",
     "O", "P", "Q", "R", "S", "T", "U", "V", "W", "X", "Y", "Z", "[", "\\", "]", "^",
     "_", "grave", "a", "b", "c", "d", "e", "f", "g", "h", "i", "j", "k", "l", "m", "n",
     "o", "p", "q", "r", "s", "t", "u", "v", "w", "x", "y", "z", "{", "|", "}", "~" >>

CodeOf == [ch \in ToSet(Ascii) |-> 31 + (CHOOSE i \in DOMAIN Ascii : Ascii[i] = ch)]

Max_dynamic_strings == 32

\* The third alphabet, from its second letter; ~ stands for the double quote
\* and ^ for the new line.
A2 == << "^", "0", "1", "2", "3", "4", "5", "6", "7", "8", "9", ".", ",", "!", "?",
         "_", "#", "'", "~", "/", "\\", "-", ":", "(", ")" >>

\* iso_to_alphabet_grid: k + 26 * (the number of the alphabet), or minus the code.
iso_to_alphabet_grid ==
  [ch \in ToSet(Ascii) |->
     LET n == CodeOf[ch]
     IN  CASE n \in 97 .. 122 -> n - 97
           [] n \in 65 .. 90  -> n - 65 + 26
           [] ch \in ToSet(A2) -> 52 + (CHOOSE i \in DOMAIN A2 : A2[i] = ch)
           [] OTHER -> - n]

\* The same of a ZSCII code: no code is the new line's, and ~ is the tilde.
zscii_to_alphabet_grid(z) ==
  IF z \in 32 .. 126 /\ z \notin {94, 126} THEN iso_to_alphabet_grid[Ascii[z - 31]] ELSE - z

------------------------------------------------------------------------------
\* Z-characters.

Zchars(place) ==
  CASE place \in 0 .. 25  -> << place + 6 >>
    [] place \in 26 .. 51 -> << 4, place - 20 >>
    [] place \in 52 .. 77 -> << 5, place - 46 >>
    [] OTHER -> << 5, 6, ((- place) \div 32) % 32, (- place) % 32 >>

Dynamic(n) == << n \div 32 + 1, n % 32 >>

write_zscii(z) == IF z = 32 THEN <<0>> ELSE Zchars(zscii_to_alphabet_grid(z))

zchar_weight(ch) ==
  IF ch \in DOMAIN Escapes \/ ch = "@" THEN 4
  ELSE IF ch = " " THEN 1
       ELSE LET place == iso_to_alphabet_grid[ch]
            IN  IF place < 0 THEN 4 ELSE IF place < 26 THEN 1 ELSE 2

\* Three Z-characters to a word, the last word marked and padded with 5s.
Words(z) ==
  LET n == (Len(z) + 2) \div 3
      At(i) == IF i <= Len(z) THEN z[i] ELSE 5
      Packed3(k) == At(3 * k - 2) * 1024 + At(3 * k - 1) * 32 + At(3 * k) + IF k = n THEN 32768 ELSE 0
  IN  Joined([k \in 1 .. n |-> << Packed3(k) \div 256, Packed3(k) % 256 >>])

StartsAt(text, j, a) ==
  j + Len(a) - 1 <= Len(text) /\ SubSeq(text, j, j + Len(a) - 1) = a

\* The cheapest way to write the text from each place on, from the last place to the
\* first: the number of Z-characters, and the abbreviation to begin with, if any
\* (0: none).
Schedule(abbr, text) ==
  LET Extended(rest, j) ==
        LET After(n) == rest[n].score
            plain == [score |-> zchar_weight(text[j]) + After(1), use |-> 0]
            Better(best, k) ==
              IF /\ StartsAt(text, j, abbr[k].text)
                 /\ best.score > 2 + After(Len(abbr[k].text))
                THEN [score |-> 2 + After(Len(abbr[k].text)), use |-> k] ELSE best
        IN  << Folded(Better, plain, [k \in DOMAIN abbr |-> k]) >> \o rest
  IN  Folded(Extended, << [score |-> 0, use |-> 0] >>, Reverse([i \in DOMAIN text |-> i]))

\* make_abbrevs_lookup: in descending order of their texts.
RECURSIVE Below(_, _)
Below(a, b) ==
  /\ b # <<>>
  /\ \/ a = <<>>
     \/ CodeOf[a[1]] < CodeOf[b[1]]
     \/ a[1] = b[1] /\ Below(Tail(a), Tail(b))

make_abbrevs_lookup(c) ==
  [c EXCEPT !.abbr = SortSeq(@, LAMBDA a, b : Below(b.text, a.text)), !.sorted = TRUE]

\* The Z-characters of one item of a text.
ItemZchars(c, item) ==
  IF item \notin DOMAIN Escapes
  THEN IF item = " " THEN <<0>> ELSE Zchars(iso_to_alphabet_grid[item])
  ELSE LET e == Escapes[item]
       IN  CASE e.k = "zscii"  -> write_zscii(e.v)
             [] e.k = "string" -> IF e.v < Max_dynamic_strings THEN Dynamic(e.v) ELSE <<0>>
             [] e.k = "symbol" ->
                  IF /\ Known(c, e.v) /\ ~ Has(c, e.v, "UNKNOWN")
                     /\ c.sym[e.v].ty = "CONSTANT" /\ c.sym[e.v].m = "NULL"
                     /\ c.sym[e.v].v < Max_dynamic_strings
                    THEN Dynamic(c.sym[e.v].v) ELSE <<0>>

BadItem(c, item) ==
  /\ item \in DOMAIN Escapes
  /\ Escapes[item].k # "zscii"
  /\ ItemZchars(c, item) = <<0>>

\* The text is written from its beginning: an abbreviation stands for all its
\* characters, which are passed over.
TextZchars(c, text, schedule) ==
  LET Writing(w, i) ==
        LET use == IF schedule = <<>> THEN 0 ELSE schedule[i].use
        IN  CASE i < w.next -> w
              [] i >= w.next /\ use # 0 ->
                   [z |-> w.z \o Dynamic(use - 1 + Max_dynamic_strings), next |-> i + Len(c.abbr[use].text)]
              [] OTHER -> [z |-> w.z \o ItemZchars(c, text[i]), next |-> i + 1]
  IN  Folded(Writing, [z |-> <<>>, next |-> 1], [i \in DOMAIN text |-> i]).z

\* translate_text: the Z-characters of a text; an abbreviation or a low string
\* uses no abbreviations itself.
translate_text(c, text, low) ==
  IF text = <<>> THEN <<5>>
  ELSE TextZchars(c, text,
                  IF c.economy /\ ~ low THEN Schedule(c.abbr, text) ELSE <<>>)

Looked(c, low) == IF ~ c.sorted /\ c.abbr # <<>> /\ ~ low THEN make_abbrevs_lookup(c) ELSE c

Checked(c, text) ==
  LET used == { Escapes[text[i]].v : i \in { k \in DOMAIN text :
                  text[k] \in DOMAIN Escapes /\ Escapes[text[k]].k = "symbol" } }
  IN  [c EXCEPT !.err = @ + Cardinality({ i \in DOMAIN text : BadItem(c, text[i]) }),
                !.sym = [s \in DOMAIN @ |->
                           IF s \in used THEN [@[s] EXCEPT !.fl = @ \cup {"USED"}] ELSE @[s]]]

\* compile_string: c.val is the low-string word address, or the packed address
\* of the static string.
compile_string(c, text, context) ==
  LET low == context \in {"ABBREV", "LOWSTRING"}
      d == Checked(Looked(c, low), text)
      bytes == Words(translate_text(d, text, low))
      padded == IF Len(bytes) % 2 = 0 THEN bytes ELSE Append(bytes, 0)
  IN  IF c.dead # {} /\ context # "ABBREV" THEN [c EXCEPT !.val = 0]
      ELSE IF low THEN [d EXCEPT !.low = @ \o bytes, !.val = 33 + Len(d.low) \div 2]
           ELSE [d EXCEPT !.strs = @ \o padded, !.val = Len(d.strs) \div 2]

\* make_abbreviation: without -e nothing is kept.
make_abbreviation(c, text) ==
  IF ~ c.economy THEN c
  ELSE LET d == compile_string(c, text, "ABBREV")
       IN  [d EXCEPT !.abbr = Append(@, [text |-> text, v |-> d.val])]

------------------------------------------------------------------------------
\* The dictionary.

Verb_dflag   == 1
Meta_dflag   == 2
Plural_dflag == 4
Prep_dflag   == 8
Sing_dflag   == 16
Noun_dflag   == 128

SlashesAt(text, j) == j < Len(text) /\ text[j] = "/" /\ text[j + 1] = "/"

\* The letters of a dictionary word and the flags after its //.
WordLetters(text) ==
  IF \E j \in DOMAIN text : SlashesAt(text, j)
    THEN SubSeq(text, 1, (CHOOSE j \in DOMAIN text :
                            SlashesAt(text, j) /\ \A k \in 1 .. j - 1 : ~ SlashesAt(text, k)) - 1)
    ELSE text

WordFlags(text) == SubSeq(text, Len(WordLetters(text)) + 3, Len(text))

DflagOf == ("p" :> Plural_dflag) @@ ("s" :> Sing_dflag) @@ ("n" :> Noun_dflag)

\* <<the flags set, the flags denied, the errors>>; ~ denies the next one.
RECURSIVE ReadFlags(_, _, _)
ReadFlags(marks, negated, found) ==
  IF marks = <<>> THEN found
  ELSE LET x == Head(marks)
           at == IF negated THEN 2 ELSE 1
       IN  CASE x = "~" -> ReadFlags(Tail(marks), ~ negated,
                             IF Len(marks) = 1 THEN [found EXCEPT ![3] = @ + 1] ELSE found)
             [] x \in DOMAIN DflagOf ->
                  ReadFlags(Tail(marks), FALSE, [found EXCEPT ![at] = @ | DflagOf[x]])
             [] OTHER -> ReadFlags(Tail(marks), negated, [found EXCEPT ![3] = @ + 1])

LowerCase(ch) == IF CodeOf[ch] \in 65 .. 90 THEN Ascii[CodeOf[ch] - 31 + 32] ELSE ch

\* The Z-characters of a word: ^ is the apostrophe and " the tilde.
WordZchars(letters) ==
  LET Of(ch) == CASE ch = "^" -> iso_to_alphabet_grid["'"]
                  [] ch = "\"" -> iso_to_alphabet_grid["~"]
                  [] OTHER -> iso_to_alphabet_grid[LowerCase(ch)]
  IN  Folded(LAMBDA z, ch : z \o Zchars(Of(ch)), <<>>, letters)

\* dictionary_prepare_z: a sort code of six Z-characters, cut anywhere or padded,
\* and the flags.  The flags are dropped when a letter was read with all six
\* written (LONG_DICT_FLAG_BUG).
dictionary_prepare(text) ==
  LET letters == WordLetters(text)
      z == WordZchars(letters)
      six == [i \in 1 .. 6 |-> IF i <= Len(z) THEN z[i] ELSE 5]
      long == letters # <<>> /\ Len(WordZchars(Front(letters))) >= 6
      flags == ReadFlags(IF long THEN <<>> ELSE WordFlags(text), FALSE, <<0, 0, 0>>)
  IN  [w |-> Words(six), pos |-> flags[1], neg |-> flags[2], err |-> flags[3]]

\* compare_sorts, as the sign of the difference.
compare_sorts(d1, d2) ==
  LET at == { i \in 1 .. 4 : d1[i] # d2[i] }
  IN  IF at = {} THEN 0
      ELSE LET first == CHOOSE i \in at : \A k \in at : i <= k
           IN  IF d1[first] > d2[first] THEN 1 ELSE -1

RECURSIVE FindFrom(_, _, _)
FindFrom(c, w, at) ==
  IF at = 0 THEN 0
  ELSE LET n == compare_sorts(w, c.dict[at].w)
       IN  IF n = 0 THEN at ELSE FindFrom(c, w, c.dtree[at].b[IF n > 0 THEN 2 ELSE 1])

\* The accession number (from 1) of a word, 0 if it is not there.
dictionary_find(c, text) == FindFrom(c, dictionary_prepare(text).w, c.root)

\* Hang node n where gf hung from ggf.
Rehang(c, p, n) ==
  IF p.ggf = 0 THEN [c EXCEPT !.root = n] ELSE [c EXCEPT !.dtree[p.ggf].b[p.ggfr] = n]

Other(side) == 3 - side

\* The rotation when at and f are both red: <<state, path>>.
Rotate(c, p) ==
  LET f == p.f
      gf == p.gf
      at == p.at
      up == [p EXCEPT !.gf = p.ggf, !.gfr = p.ggfr]
  IN  IF p.fr = p.gfr
      THEN LET d == Rehang(c, p, f)
           IN  << [d EXCEPT !.dtree[gf].b[p.gfr] = d.dtree[f].b[Other(p.fr)],
                            !.dtree[gf].red = TRUE,
                            !.dtree[f].b[Other(p.fr)] = gf,
                            !.dtree[f].red = FALSE],
                  up >>
      ELSE LET d == Rehang(c, p, at)
               r == Other(p.r)
           IN  << [d EXCEPT !.dtree[f].b[p.fr] = d.dtree[at].b[p.gfr],
                            !.dtree[gf].b[p.gfr] = d.dtree[at].b[p.fr],
                            !.dtree[gf].red = TRUE,
                            !.dtree[at].b = [side \in 1 .. 2 |-> IF side = p.gfr THEN f ELSE gf],
                            !.dtree[at].red = FALSE],
                  [up EXCEPT !.at = IF r = p.fr THEN f ELSE gf, !.f = at, !.r = r,
                             !.fr = Other(r)] >>

RotateIfRed(c, p) ==
  IF p.f # 0 /\ p.gf # 0 /\ c.dtree[p.f].red THEN Rotate(c, p) ELSE << c, p >>

\* A node with two red branches: the colour moves up.
SplitNode(c, p) ==
  LET a == c.dtree[p.at].b[1]
      b == c.dtree[p.at].b[2]
  IN  IF a # 0 /\ b # 0 /\ c.dtree[a].red /\ c.dtree[b].red
        THEN RotateIfRed([c EXCEPT !.dtree[a].red = FALSE, !.dtree[b].red = FALSE,
                                   !.dtree[p.at].red = TRUE], p)
        ELSE << c, p >>

CreateEntry(c, entry) ==
  [c EXCEPT !.dict = Append(@, entry), !.val = Len(c.dict) + 1,
            !.dtree = Append(@, [b |-> <<0, 0>>, red |-> FALSE])]

RECURSIVE InsertFrom(_, _, _)
InsertFrom(c, p, entry) ==
  LET n == compare_sorts(entry.w, c.dict[p.at].w)
  IN  IF n = 0
      THEN [c EXCEPT !.val = p.at,
                     !.dict[p.at] = [@ EXCEPT !.p1 = @ | entry.p1, !.p2 = @ | entry.p2,
                                              !.p3 = @ | entry.p3]]
      ELSE LET split == SplitNode(c, [p EXCEPT !.r = IF n > 0 THEN 2 ELSE 1])
               d == split[1]
               q == split[2]
               next == d.dtree[q.at].b[q.r]
           IN  IF next # 0
               THEN InsertFrom(d, [at |-> next, r |-> q.r, f |-> q.at, fr |-> q.r,
                                   gf |-> q.f, gfr |-> q.fr, ggf |-> q.gf, ggfr |-> q.gfr],
                               entry)
               ELSE LET leaf == RotateIfRed([d EXCEPT !.dtree[q.at].red = TRUE], q)
                    IN  CreateEntry([leaf[1] EXCEPT
                                       !.dtree[leaf[2].at].b[leaf[2].r] = Len(c.dict) + 1],
                                    entry)

\* dictionary_add: c.val is the accession number; a word that is there has its
\* data or-ed.
dictionary_add(c, text, flag1, flag2, flag3) ==
  LET prepared == dictionary_prepare(text)
      entry == [w |-> prepared.w, p1 |-> (flag1 & (255 - prepared.neg)) | prepared.pos,
                p2 |-> flag2, p3 |-> flag3]
      d == [c EXCEPT !.err = @ + prepared.err]
  IN  IF c.root = 0 THEN CreateEntry([d EXCEPT !.root = 1], entry)
      ELSE InsertFrom(d, [at |-> c.root, r |-> 1, f |-> 0, fr |-> 1, gf |-> 0, gfr |-> 1,
                          ggf |-> 0, ggfr |-> 1], entry)

dictionary_set_verb_number(c, word, verb) == [c EXCEPT !.dict[word].p2 = 255 - verb]

\* recursively_sort: the nodes in alphabetical order, and the place of each.
RECURSIVE InOrder(_, _)
InOrder(dtree, n) ==
  IF n = 0 THEN <<>>
  ELSE InOrder(dtree, dtree[n].b[1]) \o <<n>> \o InOrder(dtree, dtree[n].b[2])

final_dict_order(c) ==
  LET order == InOrder(c.dtree, c.root)
  IN  [n \in DOMAIN c.dict |-> (CHOOSE i \in DOMAIN order : order[i] = n) - 1]

=============================================================================
