----------------------------- MODULE I6Objects ------------------------------
(***************************************************************************)
(* Inform 6: attributes, properties, objects and classes (objects.c), for  *)
(* version 3.                                                              *)
(*                                                                         *)
(*   nattr, nindiv  the numbers of attributes and of individual properties *)
(*              (which start at 72)                                        *)
(*   commons    the common properties, [v: the default, add: additive]     *)
(*   objects    [sym, parent, next, child, atts, size: of the properties]  *)
(*   classes    [object: its number, sym, at: of its property block]       *)
(*   props, indiv  the bytes of the property blocks, and of the tables of  *)
(*              individual properties                                      *)
(*   ob         the definition being parsed (full_object): sym, text (its  *)
(*              short name, if one was given), parent (-1: not given),     *)
(*              class, pp (its properties, [num, ao: the values]), atts,   *)
(*              from (the classes it inherits from), indiv (whether it has *)
(*              individual properties), seen (the names given)             *)
(* Attributes are a set of numbers.                                        *)
(***************************************************************************)
EXTENDS I6Statements

Letters(name) == [i \in 1 .. Len(name) |-> SubSeq(name, i, i)]

\* Errors after which the rest of a directive is skipped, its ";" put back.
Abandon(c) == put_token_back(Panic(c))


------------------------------------------------------------------------------
\* The Attribute and Property directives.

Max_attributes == 32
Max_properties == 32

\* "alias old": new names the same attribute or property.
Alias(c, new, ty) ==
  LET d == get_next_token(c)
      old == d.tok.x
  IN  IF IsSymbolOf(d, ty)
        THEN WithFlag(WithFlag(assign_symbol(d, new, d.sym[old].v, ty), old, "ALIASED"),
                      new, "ALIASED")
        ELSE Abandon(d)

make_attribute(c) ==
  LET named == get_next_token(c)
      new == named.tok.x
      d == DirKeyword(named)
  IN  CASE c.nattr = Max_attributes -> Abandon(c)
        [] c.nattr < Max_attributes /\ ~ IsUnknown(named) -> Abandon(named)
        [] OTHER -> IF IsDirWord(d, "alias") THEN Alias(d, new, "ATTRIBUTE")
                    ELSE put_token_back([assign_symbol(d, new, d.nattr, "ATTRIBUTE")
                                           EXCEPT !.nattr = @ + 1])

\* The words before the name of a property; c.val is <<those read, the same but
\* for the last one>>.
RECURSIVE PropertyWords(_, _, _)
PropertyWords(c, words, before) ==
  LET d == get_next_token(Enable(c, {"dirwords"}))
  IN  IF d.tok.t = "DIR_KEYWORD" /\ d.tok.x \in {"long", "additive", "individual"}
        THEN PropertyWords(d, words \cup {d.tok.x}, words)
        ELSE [d EXCEPT !.val = << words, before >>]

\* The name is the next token, or else the last of the words.
PropertyName(c) ==
  LET d == PropertyWords(c, {}, {})
      e == get_next_token(put_token_back(Disable(d, {"dirwords"})))
  IN  IF e.tok.t # "SYMBOL" /\ d.val[1] # {}
        THEN [get_next_token(put_token_back(put_token_back(e))) EXCEPT !.val = d.val[2]]
        ELSE [e EXCEPT !.val = d.val[1]]

\* A new common property, with a default value perhaps.
CommonProperty(c, new, additive) ==
  LET d == put_token_back(c)
      e == parse_expression(d, "CONSTANT")
      valued == ~ IsSep(c, ";")
      f == IF valued /\ e.val.m # "NULL"
             THEN backpatch_zmachine(e, e.val.m, "PROP_DEFAULTS", 2 * Len(c.commons))
             ELSE IF valued THEN e ELSE d
  IN  [assign_symbol(f, new, Len(c.commons) + 1, "PROPERTY") EXCEPT
         !.commons = Append(@, [v |-> IF valued THEN e.val.v ELSE 0, add |-> additive])]

make_property(c) ==
  LET named == PropertyName(c)
      new == named.tok.x
      words == named.val
      additive == "additive" \in words
      d == DirKeyword(named)
  IN  CASE ~ IsUnknown(named) -> Abandon(named)
        [] IsUnknown(named) /\ "individual" \in words ->
             IF additive THEN Abandon(named)
             ELSE [assign_symbol(named, new, named.nindiv, "INDIVIDUAL_PROPERTY")
                     EXCEPT !.nindiv = @ + 1]
        [] OTHER ->
             CASE IsDirWord(d, "alias") ->
                    IF additive THEN Abandon(d) ELSE Alias(d, new, "PROPERTY")
               [] ~ IsDirWord(d, "alias") /\ Len(d.commons) + 1 = Max_properties -> Abandon(d)
               [] OTHER -> CommonProperty(d, new, additive)

------------------------------------------------------------------------------
\* Inheritance.

NewObject(sym, text, parent, class) ==
  [sym |-> sym, text |-> text, parent |-> parent, class |-> class, pp |-> <<>>,
   atts |-> {}, from |-> <<>>, indiv |-> FALSE, seen |-> <<>>]

PropByte(c, at) == c.props[at + 1]
IndivByte(c, at) == c.indiv[at + 1]
IndivWord(c, at) == 256 * IndivByte(c, at) + IndivByte(c, at + 1)

\* The attributes of a class are in the six bytes before its block.
ClassAttributes(c, class) ==
  { n \in 0 .. 47 : (PropByte(c, c.classes[class].at - 6 + n \div 8) \div 2 ^ (7 - (n % 8))) % 2 = 1 }

\* class is an object number.
add_class_to_inheritance_list(c, class) ==
  LET n == CHOOSE i \in DOMAIN c.classes : c.classes[i].object = class
  IN  [c EXCEPT !.ob.from = Append(@, n), !.ob.atts = @ \cup ClassAttributes(c, n)]

\* The properties of the block at an offset: [num, at, n: of values].
RECURSIVE Block(_, _)
Block(c, at) ==
  LET size == PropByte(c, at)
      n == (1 + size \div 32) \div 2
  IN  IF size = 0 THEN <<>>
      ELSE << [num |-> size % 32, at |-> at + 1, n |-> n] >>
           \o Block(c, at + 2 + size \div 32)

\* The records of the table of individual properties from an offset up to the
\* end of the table, or the zero word that ends it: [id, at, size].
RECURSIVE Records(_, _)
Records(c, at) ==
  IF at >= Len(c.indiv) \/ IndivWord(c, at) = 0 THEN <<>>
  ELSE << [id |-> IndivWord(c, at), at |-> at, size |-> IndivByte(c, at + 2)] >>
       \o Records(c, at + 3 + IndivByte(c, at + 2))

\* A record whose values are the ones of another.
InheritRecord(c, r) ==
  LET n == r.size \div 2
      start == Len(c.indiv) + 3
      d == [c EXCEPT !.indiv =
              @ \o Word(r.id) \o << r.size >>
                \o Joined([y \in 1 .. n |-> Word(r.at + 3 + 2 * (y - 1))])]
  IN  Folded(LAMBDA e, y : backpatch_zmachine(e, "INHERIT_INDIV", "INDIVIDUAL_PROP",
                                                start + 2 * (y - 1)),
               d, [y \in 1 .. n |-> y])

\* The records of a class's table that the one from start has not.
InheritRecords(c, table, start) ==
  LET Present(d, id) == \E k \in DOMAIN Records(d, start) : Records(d, start)[k].id = id
  IN  Folded(LAMBDA d, r : IF Present(d, r.id) THEN d ELSE InheritRecord(d, r),
               c, Records(c, table))

Inherited(at, n) ==
  [i \in 1 .. n |-> [LongConst(at + 2 * (i - 1)) EXCEPT !.m = "INHERIT"]]

IndivTable(c) == [num |-> 3, ao |-> << [LongConst(Len(c.indiv)) EXCEPT !.m = "INDIVPT"] >>]

\* Property p of a class; k is where the object gives it, 0 if it does not.
InheritProperty(c, p) ==
  LET has == { k \in DOMAIN c.ob.pp : c.ob.pp[k].num = p.num }
      k == CHOOSE n \in has : \A j \in has : n <= j
      additive == p.num = 1 \/ c.commons[p.num].add
      table == 256 * PropByte(c, p.at) + PropByte(c, p.at + 1)
  IN  IF has = {}
      THEN CASE p.num # 3 ->
                  [c EXCEPT !.ob.pp = Append(@, [num |-> p.num, ao |-> Inherited(p.at, p.n)])]
             [] p.num = 3 ->
                  InheritRecords([c EXCEPT !.ob.pp = Append(@, IndivTable(c)), !.ob.indiv = TRUE],
                                 table, Len(c.indiv))
      ELSE CASE additive ->
                  [ErrorIf(Len(c.ob.pp[k].ao) + p.n > 4, c)
                     EXCEPT !.ob.pp[k].ao = @ \o Inherited(p.at, p.n)]
             [] p.num = 3 -> InheritRecords(c, table, c.ob.pp[k].ao[1].v)
             [] OTHER -> c

\* property_inheritance_z.
property_inheritance(c) ==
  LET d == Folded(LAMBDA e, class : Folded(InheritProperty, e, Block(e, e.classes[class].at)),
                    c, c.ob.from)
  IN  IF d.ob.indiv THEN [d EXCEPT !.indiv = @ \o <<0, 0>>] ELSE d

------------------------------------------------------------------------------
\* The final object.

Max_objects == 255

\* write_properties_between: in descending order of their numbers.
WriteProperty(c, p) ==
  LET start == Len(c.props) + 1
      n == Len(p.ao)
      d == [c EXCEPT !.props = @ \o << (p.num + (2 * n - 1) * 32) % 256 >>
                                 \o Joined([k \in 1 .. n |-> Word(p.ao[k].v)])]
  IN  Folded(LAMBDA e, k : IF p.ao[k].m = "NULL" THEN e
                             ELSE backpatch_zmachine(e, p.ao[k].m, "PROP", start + 2 * (k - 1)),
               d, [k \in 1 .. n |-> k])

write_properties_between(c, from, to) ==
  LET Of(n) == SelectSeq(c.ob.pp, LAMBDA p : p.num = n)
      all == Joined([i \in 1 .. to - from + 1 |-> Of(to + 1 - i)])
      d == Folded(WriteProperty, c, all)
  IN  [d EXCEPT !.props = Append(@, 0)]

AttributeBytes(atts) ==
  [i \in 1 .. 6 |->
     Folded(LAMBDA b, n : b + IF 8 * (i - 1) + n \in atts THEN 2 ^ (7 - n) ELSE 0,
              0, << 0, 1, 2, 3, 4, 5, 6, 7 >>)]

ShortName(c, text) ==
  LET d == Checked(Looked(c, FALSE), text)
      bytes == Words(translate_text(d, text, FALSE))
      kept == IF Len(bytes) > 510 THEN <<>> ELSE bytes
  IN  [ErrorIf(Len(bytes) > 510, d) EXCEPT !.props = @ \o << Len(kept) \div 2 >> \o kept]

\* write_property_block_z: a class's block is after its attributes.
write_property_block(c) ==
  LET d == ShortName(c, c.ob.text[1])
      table == write_properties_between(d, 3, 3)
      bytes == table.props \o AttributeBytes(c.ob.atts)
      e == [table EXCEPT !.props = bytes,
                         !.classes = Append(@, [object |-> c.nobjects + 1, sym |-> c.ob.sym,
                                                at |-> Len(bytes)])]
  IN  write_properties_between(IF c.ob.class THEN e ELSE d, 1, 31)

RECURSIVE LastChild(_, _)
LastChild(objects, n) == IF objects[n].next = 0 THEN n ELSE LastChild(objects, objects[n].next)

\* Object n, the newest, becomes its parent's youngest child.
Adopt(objects, parent, n) ==
  CASE parent = 0 -> objects
    [] parent > 0 -> IF objects[parent].child = 0 THEN [objects EXCEPT ![parent].child = n]
                     ELSE [objects EXCEPT ![LastChild(objects, objects[parent].child)].next = n]

manufacture_object(c) ==
  LET d == property_inheritance(Enable(Disable(c, {"segments"}), {"directives"}))
      e == write_property_block(d)
      n == c.nobjects + 1
      object == [sym |-> c.ob.sym, parent |-> c.ob.parent, next |-> 0, child |-> 0,
                 atts |-> IF c.ob.class THEN {} ELSE c.ob.atts,
                 size |-> Len(e.props) - Len(c.props)]
  IN  [ErrorIf(n = Max_objects + 1, e) EXCEPT
         !.nobjects = n, !.objects = Adopt(Append(@, object), c.ob.parent, n)]

------------------------------------------------------------------------------
\* The segments of a definition.

EndsSegment(c) == c.tok.t \in {"SEGMENT_MARKER", "EOF"} \/ IsSep(c, ";")

\* An embedded routine leaves the lexer as in the middle of a definition.
EmbeddedRoutine(c) ==
  LET d == parse_routine(c, "", TRUE)
  IN  [Enable(Disable(d, LineGroups), {"segments"} \cup (d.en \cap {"opcodes", "dirwords"}))
         EXCEPT !.val = [LongConst(d.val) EXCEPT !.m = "IROUTINE"]]

\* One value of property p, whose first token is current.
PropertyValue(c, p) ==
  LET d == dictionary_add(c, Quoted[c.tok.x], Noun_dflag, 0, 0)
  IN  CASE IsSep(c, "[") -> EmbeddedRoutine(c)
        [] c.tok.t = "DQ" /\ p.num = 1 ->
             [d EXCEPT !.val = [LongConst(d.val) EXCEPT !.m = "DWORD"]]
        [] OTHER -> parse_expression(put_token_back(c), "ARRAY")

\* The values of a property, [num, ao] (num is 0 for an individual one); c.val is
\* the property.
RECURSIVE PropertyValues(_, _)
PropertyValues(c, p) ==
  LET d == get_next_token_with_directives(c)
      e == PropertyValue(d, p)
      n == Len(p.ao)
      start == Len(c.indiv) + 3 + 2 * n
      noted == IF p.num = 0 /\ e.val.m # "NULL"
                 THEN backpatch_zmachine(e, e.val.m, "INDIVIDUAL_PROP", start) ELSE e
      full == n = 32 \/ (p.num # 0 /\ n = 4)
  IN  CASE d.tok.t = "SEGMENT_MARKER" -> [put_token_back(d) EXCEPT !.val = p]
        [] d.tok.t = "EOF" \/ IsSep(d, ";") \/ IsSep(d, ",") -> [d EXCEPT !.val = p]
        [] OTHER -> IF full THEN [Error(e) EXCEPT !.val = p]
                    ELSE PropertyValues(noted, [p EXCEPT !.ao = Append(@, e.val)])

\* A property that has been named: its values, and where they are kept.
GivenProperty(c, s, private) ==
  LET individual == c.sym[s].ty = "INDIVIDUAL_PROPERTY"
      again == { i \in DOMAIN c.ob.seen : c.sym[c.ob.seen[i]].v = c.sym[s].v }
      first == IF individual /\ ~ c.ob.indiv THEN << IndivTable(c) >> ELSE <<>>
      d == WithFlag([c EXCEPT !.err = @ + Cardinality(again), !.ob.seen = Append(@, s),
                              !.ob.indiv = @ \/ individual, !.ob.pp = @ \o first], s, "USED")
      e == PropertyValues(d, [num |-> IF individual THEN 0 ELSE c.sym[s].v, ao |-> <<>>])
      ao == IF e.val.ao = <<>> THEN << LongConst(0) >> ELSE e.val.ao
      id == c.sym[s].v + IF private THEN 32768 ELSE 0
  IN  IF individual
        THEN [e EXCEPT !.indiv = @ \o Word(id) \o << 2 * Len(ao) >>
                                   \o Joined([k \in DOMAIN ao |-> Word(ao[k].v)])]
        ELSE [e EXCEPT !.ob.pp = Append(@, [e.val EXCEPT !.ao = ao])]

\* properties_segment_z: "with" or "private".
RECURSIVE properties_segment(_, _)
properties_segment(c, private) ==
  LET d == get_next_token_with_directives(c)
      s == d.tok.x
      ty == d.sym[s].ty
      new == IF IsUnknown(d)
               THEN [assign_symbol(d, s, d.nindiv, "INDIVIDUAL_PROPERTY") EXCEPT !.nindiv = @ + 1]
               ELSE d
      e == GivenProperty(ErrorIf(private /\ ty = "PROPERTY", new), s, private)
  IN  CASE EndsSegment(d) -> put_token_back(d)
        [] ~ EndsSegment(d) /\ d.tok.t # "SYMBOL" -> Error(d)
        [] OTHER -> IF ~ (IsUnknown(d) \/ ty \in {"PROPERTY", "INDIVIDUAL_PROPERTY"}) THEN Error(d)
                    ELSE IF e.tok.t = "EOF" \/ IsSep(e, ";") THEN put_token_back(e)
                    ELSE properties_segment(e, private)

\* "has": set is whether the next attribute is given or taken away.
RECURSIVE attributes_segment(_, _)
attributes_segment(c, set) ==
  LET d == get_next_token_with_directives(c)
      s == d.tok.x
      n == d.sym[s].v
      e == WithFlag([d EXCEPT !.ob.atts = IF set THEN @ \cup {n} ELSE @ \ {n}], s, "USED")
  IN  CASE EndsSegment(d) -> put_token_back(ErrorIf(~ set, d))
        [] IsSep(d, ",") -> d
        [] IsSep(d, "~") -> attributes_segment(d, ~ set)
        [] OTHER -> IF IsSymbolOf(d, "ATTRIBUTE") THEN attributes_segment(e, TRUE) ELSE Error(d)

RECURSIVE classes_segment(_)
classes_segment(c) ==
  LET d == get_next_token_with_directives(c)
      s == d.tok.x
      e == add_class_to_inheritance_list(WithFlag(d, s, "USED"), d.sym[s].v)
  IN  CASE EndsSegment(d) -> put_token_back(d)
        [] IsSep(d, ",") -> d
        [] OTHER -> IF ~ IsSymbolOf(d, "CLASS") \/ (d.ob.class /\ s = d.ob.sym) THEN Error(d)
                    ELSE classes_segment(e)

\* parse_body_of_definition: commas is the number read in a row.
RECURSIVE BodyFrom(_, _)
BodyFrom(c, commas) ==
  LET d == get_next_token_with_directives(c)
      e == ErrorIf(commas > 1, d)
  IN  CASE IsSep(d, ",") -> BodyFrom(d, commas + 1)
        [] IsSep(d, ";") -> ErrorIf(commas > 0, e)
        [] d.tok.t = "EOF" -> Error(ErrorIf(commas > 0, e))
        [] d.tok.t = "SEGMENT_MARKER" ->
             BodyFrom(CASE d.tok.x = "with"    -> properties_segment(e, FALSE)
                        [] d.tok.x = "private" -> properties_segment(e, TRUE)
                        [] d.tok.x = "has"     -> attributes_segment(e, TRUE)
                        [] d.tok.x = "class"   -> classes_segment(e), 0)
        [] OTHER -> Error(e)

parse_body_of_definition(c) == BodyFrom(c, 0)

------------------------------------------------------------------------------
\* The Object and Nearby directives.

end_of_header(c) == IsSep(c, ";") \/ IsSep(c, ",") \/ c.tok.t = "SEGMENT_MARKER"

\* The arrows before the name; c.val is their number.
RECURSIVE Arrows(_, _)
Arrows(c, n) == IF IsSep(c, "->") THEN Arrows(get_next_token(c), n + 1) ELSE [c EXCEPT !.val = n]

ParentName(c) ==
  LET d == WithFlag([c EXCEPT !.ob.parent = c.sym[c.tok.x].v], c.tok.x, "USED")
      e == get_next_token_with_directives(IF IsSymbolOf(c, "OBJECT") \/ IsSymbolOf(c, "CLASS") THEN d
                          ELSE Error(c))
  IN  ErrorIf(~ end_of_header(e), e)

LastName(c) ==
  LET d == get_next_token(c) IN IF end_of_header(d) THEN d ELSE ParentName(d)

SecondName(c) ==
  LET d == get_next_token_with_directives(c)
      named == d.tok.t = "SYMBOL" /\ ~ IsUnknown(d)
  IN  CASE end_of_header(d) -> d
        [] d.tok.t = "DQ" -> LastName(IF d.ob.text # <<>> THEN Error(d)
                                      ELSE [d EXCEPT !.ob.text = << Quoted[d.tok.x] >>])
        [] OTHER -> IF ~ end_of_header(d) /\ named THEN ParentName(d) ELSE LastName(Error(d))

\* The header up to the token that ends it, which is put back: an internal name,
\* a short name and a parent, in this order, each of which may be left out.  (A
\* number where a parent should be is taken for a symbol by its number; this is
\* left out.)
Header(c) ==
  put_token_back(
    CASE end_of_header(c) -> c
      [] c.tok.t = "DQ" -> SecondName([c EXCEPT !.ob.text = << Quoted[c.tok.x] >>])
      [] OTHER -> IF end_of_header(c) \/ IsUnknown(c)
                    THEN SecondName([c EXCEPT !.ob.sym = c.tok.x])
                    ELSE SecondName(Error(c)))

RECURSIVE Level(_, _)
Level(objects, n) == IF objects[n].parent = 0 THEN 0 ELSE 1 + Level(objects, objects[n].parent)

\* The most recent object at a level of the tree; classes and their metaclasses
\* are no parents of this kind.  0 if there is none.
RecentAt(c, level) ==
  LET fit == { n \in 5 .. c.nobjects : /\ c.objects[n].parent # 1
                                       /\ Level(c.objects, n) = level }
  IN  IF fit = {} THEN 0 ELSE Max(fit)

\* The parent, by name or by arrows, and the short name there is without one.
Settled(c, depth) ==
  LET n == c.nobjects + 1
      given == c.ob.parent # -1
      parent == IF given THEN c.ob.parent
                ELSE IF depth = 0 THEN 0 ELSE RecentAt(c, depth - 1)
      name == IF c.ob.sym = "" THEN ToString(n) ELSE c.ob.sym
      text == IF c.ob.text # <<>> THEN c.ob.text[1]
              ELSE << "(" >> \o Letters(name) \o << ")" >>
      d == IF c.ob.sym = "" THEN c ELSE assign_symbol(c, c.ob.sym, n, "OBJECT")
      e == ErrorIf(Len(text) > 765, d)
      kept == IF Len(text) > 765 THEN SubSeq(text, 1, 765) ELSE text
      bad == IF given THEN depth > 0 ELSE depth > 0 /\ parent = 0
  IN  [ErrorIf(bad, e) EXCEPT !.ob = NewObject(c.ob.sym, << kept >>, parent, FALSE)]

\* class: what the object is an instance of, 0 for nothing.
make_object(c, nearby, class) ==
  LET d == get_next_token([Disable(c, {"directives"}) EXCEPT
                             !.ob = NewObject("", <<>>, -1, FALSE)])
      e == Arrows(ErrorIf(nearby /\ IsSep(d, "->"), d), IF nearby THEN 1 ELSE 0)
      f == Settled(Header(Enable(e, {"segments"})), e.val)
      g == IF class = 0 THEN f ELSE add_class_to_inheritance_list(f, class)
  IN  manufacture_object(parse_body_of_definition(g))

------------------------------------------------------------------------------
\* The Class directive.

\* The number of duplicates to make, one more than is asked for; c.val.
Duplicates(c) ==
  LET d == get_next_token(c)
      e == parse_expression(d, "CONSTANT")
      unknown == e.val.m # "NULL"
      n == e.val.v
      bad == ~ unknown /\ n > 10000
      f == match_close_bracket(ErrorIf(bad, ErrorIf(unknown, e)))
  IN  IF IsSep(d, "(") THEN [f EXCEPT !.val = 1 + IF bad \/ unknown THEN 0 ELSE n]
      ELSE [put_token_back(d) EXCEPT !.val = 0]

\* A duplicate is a child of its class.
Duplicate(c, class, name) ==
  manufacture_object(add_class_to_inheritance_list(
    [Disable(c, {"directives"}) EXCEPT !.ob = NewObject("", << name >>, class, FALSE)], class))

NewClass(c, s, parent) ==
  LET n == c.nobjects + 1
      d == assign_symbol(c, s, n, "CLASS")
  IN  [d EXCEPT !.ob = [NewObject(s, << Letters(s) >>, parent, TRUE) EXCEPT
                          !.pp = << [num |-> 2, ao |-> << [LongConst(n) EXCEPT !.m = "OBJECT"] >>] >>]]

make_metaclass(c, s) ==
  LET d == NewClass(symbol_index(Disable(c, {"directives"}), s), s, 0)
  IN  manufacture_object(WithFlag(d, s, "SYSTEM"))

make_class(c) ==
  LET named == get_next_token(Disable(c, {"directives"}))
      s == named.tok.x
      class == c.nobjects + 1
      d == Duplicates(NewClass(named, s, 1))
      e == manufacture_object(parse_body_of_definition(d))
  IN  IF ~ IsUnknown(named) THEN Panic(named)
      ELSE Folded(LAMBDA f, n : Duplicate(f, class, Letters(s) \o << "_" >> \o Letters(ToString(n))),
                    e, [n \in 1 .. d.val |-> n])

\* objects_begin_pass: the properties name, class inheritance, and the table of
\* individual properties; and the four metaclasses (make_class, from
\* inform.c's begin_pass).
objects_begin_pass(c) ==
  Folded(make_metaclass,
           [c EXCEPT !.nattr = 0, !.nindiv = 72, !.nobjects = 0, !.objects = <<>>,
                     !.classes = <<>>, !.props = <<>>, !.indiv = <<>>,
                     !.commons = << [v |-> 0, add |-> TRUE], [v |-> 0, add |-> TRUE],
                                    [v |-> 0, add |-> FALSE] >>],
           << "Class", "Object", "Routine", "String" >>)

-----------------------------------------------------------------------------
(***************************************************************************)
(* Inform 6: actions and grammar (verbs.c), for the Z-machine.             *)
(*                                                                         *)
(*   gver       Grammar__Version, 1 to 3                                   *)
(*   nfake      the number of fake actions                                 *)
(*   adjectives, parsers  the prepositions, by accession number, and the   *)
(*              addresses of the parsing routines (versions 1 and 3)       *)
(*   everbs     the English verbs: [w: accession number, v: the Inform     *)
(*              verb, -1 before it is known]                               *)
(*   iverbs     the Inform verbs, from 0: the grammar lines of each        *)
(*   lines      all the grammar lines: [act: the action word, toks: <<code,*)
(*              data>>]                                                    *)
(* Whether an action is "meta" is only kept by an option that is never on. *)
(***************************************************************************)

set_grammar_version(c, n) ==
  IF n \notin 1 .. 3 THEN Error(c)
  ELSE [c EXCEPT !.gver = n, !.sym["Grammar__Version"].v = n]

\* Constant Grammar__Version: only before there is any grammar.
set_grammar_option_constant(c, o) ==
  CASE o.m # "NULL" -> Error(c)
    [] o.m = "NULL" /\ o.v = c.gver -> c
    [] OTHER -> IF c.nfake > 0 \/ c.lines # <<>> THEN Error(c) ELSE set_grammar_version(c, o.v)

lowest_fake_action(c) == IF c.gver = 1 THEN 256 ELSE 4096

make_fake_action(c) ==
  LET d == get_next_token(c)
      s == d.tok.x \o "__A"
      e == symbol_index(d, s)
  IN  CASE d.tok.t # "SYMBOL" -> Panic(d)
        [] d.tok.t = "SYMBOL" /\ ~ Has(e, s, "UNKNOWN") -> Panic(e)
        [] OTHER -> [assign_symbol(e, s, lowest_fake_action(e) + e.nfake, "FAKE_ACTION")
                       EXCEPT !.nfake = @ + 1]

\* Every action has a routine.
FindAction(c, i) ==
  LET s == c.actions[i].name \o "Sub"
      d == symbol_index(c, s)
  IN  IF d.sym[s].ty # "ROUTINE" THEN Error(d)
      ELSE WithFlag([d EXCEPT !.actions[i].at = d.sym[s].v], s, "USED")

find_the_actions(c) == Folded(FindAction, c, [i \in DOMAIN c.actions |-> i])

IsQuoted(c) == c.tok.t \in {"DQ", "SQ"}
QuotedText(c) == IF c.tok.t = "DQ" THEN Quoted[c.tok.x] ELSE Primed[c.tok.x]

------------------------------------------------------------------------------
\* Tokens of a grammar line.  c.val: a number, then [code, word].

IndexOf(seq, x) == Min({ i \in DOMAIN seq : seq[i] = x }) - 1

\* Prepositions count down from 255, a routine's or a version 3 one up from 0.
make_adjective_v1(c, text) ==
  LET w == dictionary_prepare(text).w
      same == { i \in DOMAIN c.adjectives : c.dict[c.adjectives[i]].w = w }
      n == Len(c.adjectives)
      d == dictionary_add(c, text, Prep_dflag, 0, 255 - n)
  IN  CASE n >= 255 -> [Error(c) EXCEPT !.val = 0]
        [] n < 255 /\ same # {} -> [c EXCEPT !.val = 256 - Min(same)]
        [] OTHER -> [d EXCEPT !.adjectives = Append(@, d.val), !.val = 255 - n]

make_adjective_v3(c, text) ==
  LET n == Len(c.adjectives)
      d == dictionary_add(c, text, Prep_dflag, 0, 0)
  IN  CASE n >= 255 -> [Error(c) EXCEPT !.val = 0]
        [] n < 255 /\ d.val \in ToSet(d.adjectives) ->
             [d EXCEPT !.val = IndexOf(d.adjectives, d.val)]
        [] OTHER -> [d EXCEPT !.adjectives = Append(@, d.val), !.val = n]

make_parsing_routine(c, address) ==
  IF address \in ToSet(c.parsers) THEN [c EXCEPT !.val = IndexOf(c.parsers, address)]
  ELSE [c EXCEPT !.parsers = Append(@, address), !.val = Len(c.parsers)]

GrammarToken(c, code, word) == [c EXCEPT !.val = [code |-> code % 256, word |-> word]]
ByVersion(c, v1, code, word) ==
  IF c.gver = 1 THEN GrammarToken(c, v1, 0) ELSE GrammarToken(c, code, word)
Abandoned(c) == [Panic(c) EXCEPT !.val = [code |-> -1, word |-> 0]]

Preposition(c) ==
  LET text == QuotedText(c)
      d == CASE c.gver = 1 -> make_adjective_v1(c, text)
             [] c.gver = 2 -> dictionary_add(c, text, Prep_dflag, 0, 0)
             [] c.gver = 3 -> make_adjective_v3(c, text)
  IN  ByVersion(d, d.val, 66, d.val)

\* The current token names a routine.
RoutineToken(c, base, code) ==
  LET address == c.sym[c.tok.x].v
      d == WithFlag(c, c.tok.x, "USED")
      e == make_parsing_routine(d, address)
  IN  IF c.gver = 2 THEN GrammarToken(d, code, address) ELSE ByVersion(e, base + e.val, code, e.val)

\* "=" and the name of a routine.
NamedRoutine(c, base, code) ==
  LET d == get_next_token(c)
  IN  IF IsSymbolOf(d, "ROUTINE") THEN RoutineToken(d, base, code) ELSE Abandoned(d)

NumberedTokens ==
  << "held", "multi", "multiheld", "multiexcept", "multiinside", "creature", "special",
     "number" >>

KeywordToken(c, x) ==
  LET d == get_next_token(c)
      n == IndexOf(NumberedTokens, x) + 1
  IN  CASE x = "noun" -> IF IsSep(d, "=") THEN NamedRoutine(d, 16, 131)
                         ELSE ByVersion(put_token_back(d), 0, 1, 0)
        [] x = "scope" -> IF IsSep(d, "=") THEN NamedRoutine(d, 80, 133) ELSE Abandoned(d)
        [] x = "topic" -> ByVersion(ErrorIf(c.gver = 1, c), 0, 1, 9)
        [] x \in ToSet(NumberedTokens) -> ByVersion(c, n, 1, n)
        [] OTHER -> Abandoned(c)

ReadGrammarToken(c) ==
  CASE IsQuoted(c) -> Preposition(c)
    [] c.tok.t = "DIR_KEYWORD" -> KeywordToken(c, c.tok.x)
    [] IsSymbolOf(c, "ROUTINE") -> RoutineToken(c, 48, 134)
    [] IsSymbolOf(c, "ATTRIBUTE") ->
         LET n == c.sym[c.tok.x].v
         IN  ByVersion(WithFlag(c, c.tok.x, "USED"), 128 + n, 4, n)
    [] OTHER -> Abandoned(c)

------------------------------------------------------------------------------
\* Grammar lines.

\* A slash joins the preposition before it and the one after it.
ApplySlash(c, toks) ==
  IF toks = <<>> THEN << Error(c), toks >>
  ELSE LET code == Last(toks)[1]
       IN  << ErrorIf(code % 16 # 2, c), [toks EXCEPT ![Len(toks)][1] = code | 32] >>

\* The tokens up to "->"; g is [toks, n: how many, slash: whether a "/" (or the
\* "*") came last, mode: whether the next one is joined].  c.val is g, or
\* [n |-> -1] when the directive ends.
RECURSIVE GrammarTokens(_, _)
GrammarTokens(c, g) ==
  LET d == get_next_token(c)
      divide == IsSep(d, "/")
      e == ErrorIf(divide /\ g.slash, ErrorIf(divide /\ c.gver = 1, d))
      slashed == ApplySlash(e, g.toks)
      f == ReadGrammarToken(e)
      joined == g.slash /\ g.mode
      code == IF joined THEN f.val.code | 16 ELSE f.val.code
      kept == CASE c.gver = 1 -> g.n < 6 [] c.gver = 2 -> TRUE [] c.gver = 3 -> g.n < 31
  IN  CASE IsSep(d, ";") -> [Error(d) EXCEPT !.val = [n |-> -1]]
        [] IsSep(d, "->") -> [ErrorIf(g.slash /\ g.n > 0, d) EXCEPT !.val = g]
        [] divide /\ ~ g.slash ->
             GrammarTokens(slashed[1], [g EXCEPT !.toks = slashed[2], !.slash = TRUE, !.mode = TRUE])
        [] OTHER ->
             IF f.val.code = -1 THEN [f EXCEPT !.val = [n |-> -1]]
             ELSE GrammarTokens(ErrorIf(kept /\ joined /\ f.val.code # 66, f),
                    [toks |-> IF ~ kept THEN g.toks
                              ELSE Append(g.toks, << code, IF c.gver = 3 THEN f.val.word % 256
                                                           ELSE f.val.word >>),
                     n |-> g.n + 1, slash |-> FALSE, mode |-> joined])

\* "reverse" and "meta"; c.val is whether the first was there.
RECURSIVE ActionFlags(_, _)
ActionFlags(c, reverse) ==
  LET d == get_next_token(c)
  IN  CASE IsDirWord(d, "reverse") -> ActionFlags(ErrorIf(c.gver = 1, d), TRUE)
        [] IsDirWord(d, "meta") -> ActionFlags(Error(d), reverse)
        [] OTHER -> [put_token_back(d) EXCEPT !.val = reverse]

\* The action after "->".
GrammarAction(c, g) ==
  LET d == [get_next_token([c EXCEPT !.raw = 1]) EXCEPT !.raw = 0]
      named == action_of_name(d, d.tok.x)
      n == named.val.v
      e == ActionFlags(ErrorIf(n >= lowest_fake_action(named), named), FALSE)
      word == (n + (IF c.gver = 3 THEN g.n * 2048 ELSE 0) + IF e.val THEN 1024 ELSE 0) % 65536
  IN  IF d.tok.t # "UQ" THEN [Panic(d) EXCEPT !.val = FALSE]
      ELSE [e EXCEPT !.lines[Len(e.lines)] = [act |-> word, toks |-> g.toks], !.val = TRUE]

\* c.val is whether there was a line.
grammar_line(c) ==
  LET d == get_next_token(c)
      started == [d EXCEPT !.lines = Append(@, [act |-> 0, toks |-> <<>>])]
      e == GrammarTokens(started, [toks |-> <<>>, n |-> 0, slash |-> TRUE, mode |-> FALSE])
  IN  CASE IsSep(d, ";") -> [d EXCEPT !.val = FALSE]
        [] ~ IsSep(d, ";") /\ ~ IsSep(d, "*") -> [Panic(d) EXCEPT !.val = FALSE]
        [] OTHER -> IF e.val.n = -1 THEN [e EXCEPT !.val = FALSE] ELSE GrammarAction(e, e.val)

\* c.val is the lines up to the end of the directive, by number.
RECURSIVE GrammarLines(_, _)
GrammarLines(c, found) ==
  LET d == grammar_line(c)
  IN  IF d.val THEN GrammarLines(d, Append(found, Len(c.lines) + 1)) ELSE [d EXCEPT !.val = found]

------------------------------------------------------------------------------
\* Verbs.

Trunc_dflag == 64
Max_verbs == 255

\* The Inform verb of a dictionary word, -1 if there is none.
VerbOf(c, word) ==
  LET at == { i \in DOMAIN c.everbs : c.everbs[i].w = word }
  IN  IF at = {} THEN -1 ELSE c.everbs[Min(at)].v

IsVerb(c, word) == \E i \in DOMAIN c.everbs : c.everbs[i].w = word

\* get_existing_verb, of the current token: c.val is the verb, or -1.
get_existing_verb(c) ==
  LET word == IF IsQuoted(c) THEN dictionary_find(c, QuotedText(c)) ELSE 0
      verb == IF word = 0 THEN -1 ELSE VerbOf(c, word)
  IN  [ErrorIf(verb = -1, c) EXCEPT !.val = verb]

SetVerb(c, i, verb) ==
  dictionary_set_verb_number([c EXCEPT !.everbs[i].v = verb], c.everbs[i].w, verb)

\* mode: where the new lines go.
do_extend_verb(c, verb, mode) ==
  LET d == GrammarLines(c, <<>>)
      old == d.iverbs[verb + 1]
  IN  [d EXCEPT !.iverbs[verb + 1] = CASE mode = "replace" -> d.val
                                       [] mode = "first"   -> d.val \o old
                                       [] mode = "last"    -> old \o d.val]

ExtendGroups(c) == Disable(Enable(c, {"dirwords"}), {"directives"})
AfterExtend(c)  == Enable(Disable(c, {"dirwords"}), {"directives"})

\* The words of a Verb directive that has begun with a known one: c.val is the
\* verb if all of them are that verb's.
RECURSIVE SameVerb(_, _, _)
SameVerb(c, flags, verb) ==
  LET d == dictionary_add(c, QuotedText(c), flags, 0, 0)
  IN  IF ~ IsQuoted(c) THEN [c EXCEPT !.val = verb]
      ELSE IF VerbOf(d, d.val) # verb THEN [d EXCEPT !.val = -1]
      ELSE SameVerb(get_next_token(d), flags, verb)

\* The words: c.val is whether they extended a verb instead, which ends the
\* directive.  Two definitions of a word are an error; its later ones are read on.
RECURSIVE VerbWords(_, _, _)
VerbWords(c, flags, first) ==
  LET d == dictionary_add(c, QuotedText(c), flags, 0, 0)
      verb == VerbOf(d, d.val)
      same == SameVerb(get_next_token(d), flags, verb)
      extended == do_extend_verb(ExtendGroups(put_token_back(same)), verb, "last")
      again == Error(IF first THEN put_token_back(same) ELSE d)
      new == [d EXCEPT !.everbs = Append(@, [w |-> d.val, v |-> -1])]
  IN  CASE ~ IsQuoted(c) -> [c EXCEPT !.val = FALSE]
        [] IsQuoted(c) /\ ~ IsVerb(d, d.val) -> VerbWords(get_next_token(new), flags, FALSE)
        [] OTHER -> IF first /\ same.val >= 0 /\ IsSep(same, "*")
                      THEN [AfterExtend(extended) EXCEPT !.val = TRUE]
                      ELSE VerbWords(get_next_token(again), flags, FALSE)

\* The English verbs from number n on become the verb's.
SetVerbs(c, n, verb) ==
  Folded(LAMBDA d, i : IF i < n THEN d ELSE SetVerb(d, i, verb), c,
           [i \in DOMAIN c.everbs |-> i])

\* = 'word': the verb is an old one.
VerbEquals(c, n) ==
  LET d == get_existing_verb(get_next_token(c))
      e == get_next_token(d)
  IN  IF d.val = -1 THEN d
      ELSE Disable(SetVerbs(ErrorIf(~ IsSep(e, ";"), e), n, d.val), {"dirwords"})

NewVerb(c, n) ==
  LET verb == Len(c.iverbs)
      d == SetVerbs([c EXCEPT !.iverbs = Append(@, <<>>)], n, verb)
      e == GrammarLines(put_token_back(d), <<>>)
  IN  IF verb >= Max_verbs THEN Panic(c)
      ELSE Disable([e EXCEPT !.iverbs[verb + 1] = e.val], {"dirwords"})

make_verb(c) ==
  LET d == get_next_token(Enable(c, {"dirwords"}))
      meta == IsDirWord(d, "meta")
      flags == Verb_dflag + Trunc_dflag + IF meta THEN Meta_dflag ELSE 0
      e == VerbWords(IF meta THEN get_next_token(d) ELSE d, flags, TRUE)
      n == Len(c.everbs) + 1
  IN  CASE e.val -> e
        [] ~ e.val /\ Len(e.everbs) < n -> Panic(e)
        [] OTHER -> IF IsSep(e, "=") THEN VerbEquals(e, n) ELSE NewVerb(e, n)

------------------------------------------------------------------------------
\* Extend only: the words given leave their verb for a new one; c.val is the verb
\* of the last, or -1 if one has none.  Without any word, what is copied is not
\* defined; this is left out.
RECURSIVE OnlyWords(_, _)
OnlyWords(c, verb) ==
  LET d == get_next_token(c)
      e == get_existing_verb(d)
      word == dictionary_find(e, QuotedText(e))
      i == Min({ k \in DOMAIN e.everbs : e.everbs[k].w = word })
  IN  CASE ~ IsQuoted(d) -> [d EXCEPT !.val = verb]
        [] IsQuoted(d) /\ e.val = -1 -> e
        [] OTHER -> OnlyWords(SetVerb(e, i, Len(c.iverbs)), e.val)

\* How the lines are added: c.val is the verb.
ExtendBy(c) ==
  LET mode == IF c.tok.t = "DIR_KEYWORD" /\ c.tok.x \in {"replace", "first", "last"} THEN c.tok.x
              ELSE "last"
      d == CASE IsSep(c, "*") -> put_token_back(c)
             [] ~ IsSep(c, "*") /\ IsDirWord(c, mode) -> c
             [] OTHER -> Error(c)
  IN  AfterExtend(do_extend_verb(d, c.val, mode))

extend_verb(c) ==
  LET d == get_next_token(ExtendGroups(c))
      only == OnlyWords(d, -1)
      copied == [only EXCEPT !.iverbs = Append(@, only.iverbs[only.val + 1]),
                             !.val = Len(only.iverbs)]
      found == get_existing_verb(d)
      e == IF IsDirWord(d, "only") THEN only ELSE found
  IN  CASE IsDirWord(d, "only") /\ Len(d.iverbs) >= Max_verbs -> Panic(d)
        [] ~ (IsDirWord(d, "only") /\ Len(d.iverbs) >= Max_verbs) /\ e.val = -1 -> e
        [] OTHER -> ExtendBy(IF IsDirWord(d, "only") THEN copied
                             ELSE [get_next_token(found) EXCEPT !.val = found.val])

\* A verb that every word has left is not written.
locate_dead_grammar_lines(c) == { c.everbs[i].v : i \in DOMAIN c.everbs }

verbs_begin_pass(c) ==
  [c EXCEPT !.iverbs = <<>>, !.adjectives = <<>>, !.parsers = <<>>, !.actions = <<>>,
            !.nfake = 0, !.lines = <<>>, !.everbs = <<>>, !.gver = 1]

=============================================================================
