---------------------------- MODULE StoryLanguage ----------------------------
(***************************************************************************)
(* A part of the Inform language that stories are written in: the text of  *)
(* a program, for the compiler, and what the program prints.               *)
(*                                                                         *)
(* A program is a record:                                                  *)
(*   globals     [x: the name, v: the first value]                         *)
(*   arrays      [x: the name, v: the words]                               *)
(*   attributes, properties   the names                                    *)
(*   objects     [name, title, in: the name of the parent or "",           *)
(*               with: [p: a property, v: its words], has: attributes]     *)
(*   routines    [name, args, locals, body]; Main is the first to run      *)
(*   buffers     [x: the name, v: the number of bytes]                     *)
(*   words       the words of the dictionary                               *)
(*   lines       what the player types                                     *)
(*   first, last lexemes before and after the rest                         *)
(* whose fields are sequences, in the order of the text.                   *)
(* An expression or a statement is a tuple that begins with its kind.      *)
(***************************************************************************)
EXTENDS Integers, Sequences, FiniteSets, TLC
LOCAL INSTANCE Bitwise
LOCAL INSTANCE SequencesExt

\* The characters of a lexeme in double quotes, and their codes; ^ is the new line
\* and ~ the double quote.
Tilde == "@@126"
Characters(x, i, j) ==
  LET Escape(k) == k >= i /\ SubSeq(x, k, k + 1) = "@@"
      begins == SelectSeq([k \in 1 .. j - i + 1 |-> k + i - 1], LAMBDA k : \A d \in 1 .. 4 : ~ Escape(k - d))
  IN  [n \in DOMAIN begins |-> IF Escape(begins[n]) THEN Tilde ELSE SubSeq(x, begins[n], begins[n])]

Visible == "!\"#$%&'()*+,-./0123456789:;<=>?@ABCDEFGHIJKLMNOPQRSTUVWXYZ[\\]^_"
LowerRow == "abcdefghijklmnopqrstuvwxyz{|}"
Position(ch, row) == CHOOSE i \in 1 .. Len(row) : SubSeq(row, i, i) = ch
Occurs(ch, row) == \E i \in 1 .. Len(row) : SubSeq(row, i, i) = ch
Code(ch) == CASE ch = " " -> 32
              [] ch = "^" -> 13
              [] ch = "~" -> 34
              [] ch = Tilde -> 126
              [] Occurs(ch, Visible) -> 32 + Position(ch, Visible)
              [] OTHER -> 96 + Position(ch, LowerRow)
CodesOf(x) == LET s == Characters(x, 3, Len(x) - 2) IN [i \in DOMAIN s |-> Code(s[i])]

N(k) == << "n", k >>
V(x) == << "v", x >>
Op(a, op, b) == << "op", op, a, b >>
Un(op, a) == << "un", op, a >>
Set(x, e) == << "set", x, e >>
Pre(op, x) == << "pre", op, x >>
Post(x, op) == << "post", op, x >>
At(a, i) == << "at", a, i >>              \* a-->i
Byte(a, i) == << "byte", a, i >>          \* a->i
WordEntry(w) == << "word", w >>               \* the dictionary's entry, 'w'
Nothing == << "nothing" >>
Prop(o, p) == << "prop", o, p >>          \* o.p
Apply(f, args) == << "call", f, args >>

Just(e) == << "do", e >>
Say(items) == << "print", items >>
When(e, then, else) == << "if", e, then, else >>
Repeat(e, body) == << "while", e, body >>
Until(body, e) == << "until", body, e >>
Count(first, e, step, body) == << "for", first, e, step, body >>
Select(e, cases) == << "switch", e, cases >>   \* cases: << values, body >>
Objectloop(x, o, body) == << "objectloop", x, o, body >>
Break == << "break" >>
Continue == << "continue" >>
Answer(e) == << "return", e >>
Move(a, b) == << "move", a, b >>
TakeOut(a) == << "remove", a >>
Mark(a, n, on) == << "give", a, n, on >>
ReadLine == << "read" >>                  \* into the arrays text and parse

------------------------------------------------------------------------------
\* The text.

Comparisons == { "==", "~=", "<", ">", "<=", ">=" }
Binding(op) == CASE op \in { "&&", "||" } -> 2
                 [] op \in Comparisons \cup { "in", "notin", "has", "hasnt", "provides" } -> 3
                 [] op \in { "+", "-" } -> 4
                 [] op \in { "*", "/", "%", "&", "|" } -> 5

Strength(e) == CASE e[1] = "n" -> IF e[2] < 0 THEN 7 ELSE 10
              [] e[1] = "op" -> Binding(e[2])
              [] e[1] = "un" -> IF e[2] = "~~" THEN 2 ELSE 7
              [] e[1] = "set" -> 1
              [] e[1] \in { "at", "byte" } -> 6
              [] e[1] \in { "pre", "post" } -> 8
              [] e[1] = "prop" -> 9
              [] OTHER -> 10

\* Of(i) for each i from lo to hi, one after the other; with a lexeme between them.
Chain(Of(_), lo, hi) ==
  LET RECURSIVE Go(_, _)
      Go(m, n) == IF m > n THEN <<>>
                  ELSE IF m = n THEN Of(m)
                  ELSE LET h == (m + n) \div 2 IN Go(m, h) \o Go(h + 1, n)
  IN  Go(lo, hi)
\* What becomes of s by a sequence of things, one after the other: by halves, and
\* the first half before the second, so that TLC's stack stays small.
InTurn(By(_, _), s, seq) ==
  LET RECURSIVE Go(_, _, _)
      Go(r, m, n) ==
        IF m > n THEN r
        ELSE IF m = n THEN By(r, seq[m])
        ELSE LET h == (m + n) \div 2
             IN  CHOOSE all \in { Go(half, h + 1, n) : half \in { Go(r, m, h) } } : TRUE
  IN  Go(s, 1, Len(seq))
Listed(Of(_), n, between) ==
  Chain(LAMBDA i : (IF i = 1 THEN <<>> ELSE << between >>) \o Of(i), 1, n)

\* An expression where the operators around it bind at the level n.
RECURSIVE Lexemes(_, _)
Bare(e) ==
  CASE e[1] = "n" -> IF e[2] < 0 THEN << "-", ToString(- e[2]) >> ELSE << ToString(e[2]) >>
    [] e[1] = "v" -> << e[2] >>
    [] e[1] = "op" ->
         LET n == Binding(e[2]) IN Lexemes(e[3], IF n = 3 THEN 4 ELSE n) \o << e[2] >> \o Lexemes(e[4], n + 1)
    [] e[1] = "un" -> << e[2] >> \o Lexemes(e[3], 8)
    [] e[1] = "set" -> Lexemes(e[2], 6) \o << "=" >> \o Lexemes(e[3], 1)
    [] e[1] = "at" -> << e[2], "-->" >> \o Lexemes(e[3], 7)
    [] e[1] = "byte" -> << e[2], "->" >> \o Lexemes(e[3], 7)
    [] e[1] = "word" -> << e[2] >>
    [] e[1] = "nothing" -> << "0" >>
    [] e[1] = "prop" -> Lexemes(e[2], 10) \o << ".", e[3] >>
    [] e[1] = "pre" -> << e[2] >> \o Lexemes(e[3], 8)
    [] e[1] = "post" -> Lexemes(e[3], 8) \o << e[2] >>
    [] e[1] = "call" ->
         << e[2], "(" >> \o Listed(LAMBDA i : Lexemes(e[3][i], 1), Len(e[3]), ",") \o << ")" >>
Lexemes(e, n) == IF Strength(e) < n THEN << "(" >> \o Bare(e) \o << ")" >> ELSE Bare(e)

Whole(e) == Lexemes(e, 1)

\* An item of print: a text, a character, the name of an object, or a number.
Item(i) == CASE i[1] = "s" -> << i[2] >>
             [] i[1] = "char" -> << "(", "char", ")" >> \o Lexemes(i[2], 10)
             [] i[1] = "name" -> << "(", "object", ")" >> \o Lexemes(i[2], 10)
             [] OTHER -> Whole(i)

RECURSIVE Blocks(_)
Body(b) == << "{" >> \o Blocks(b) \o << "}" >>
Statement(t) ==
  CASE t[1] = "do" -> Whole(t[2]) \o << ";" >>
    [] t[1] = "print" -> << "print" >> \o Listed(LAMBDA i : Item(t[2][i]), Len(t[2]), ",") \o << ";" >>
    [] t[1] = "if" -> << "if", "(" >> \o Whole(t[2]) \o << ")" >> \o Body(t[3])
                      \o (IF t[4] = <<>> THEN <<>> ELSE << "else" >> \o Body(t[4]))
    [] t[1] = "while" -> << "while", "(" >> \o Whole(t[2]) \o << ")" >> \o Body(t[3])
    [] t[1] = "until" -> << "do" >> \o Body(t[2]) \o << "until", "(" >> \o Whole(t[3]) \o << ")", ";" >>
    [] t[1] = "for" -> << "for", "(" >> \o Whole(t[2]) \o << ":" >> \o Whole(t[3]) \o << ":" >>
                       \o Whole(t[4]) \o << ")" >> \o Body(t[5])
    [] t[1] = "switch" ->
         LET Value(v) == IF Len(v) = 1 THEN Whole(N(v[1])) ELSE Whole(N(v[1])) \o << "to" >> \o Whole(N(v[2]))
             Case(c) == (IF c[1] = <<>> THEN << "default" >>
                         ELSE Listed(LAMBDA i : Value(c[1][i]), Len(c[1]), ",")) \o << ":" >> \o Blocks(c[2])
         IN  << "switch", "(" >> \o Whole(t[2]) \o << ")", "{" >>
             \o Chain(LAMBDA i : Case(t[3][i]), 1, Len(t[3])) \o << "}" >>
    [] t[1] = "objectloop" ->
         << "objectloop", "(", t[2], "in" >> \o Whole(t[3]) \o << ")" >> \o Body(t[4])
    [] t[1] \in { "break", "continue" } -> << t[1], ";" >>
    [] t[1] = "return" -> << "return" >> \o Whole(t[2]) \o << ";" >>
    [] t[1] = "move" -> << "move" >> \o Whole(t[2]) \o << "to" >> \o Whole(t[3]) \o << ";" >>
    [] t[1] = "remove" -> << "remove" >> \o Whole(t[2]) \o << ";" >>
    [] t[1] = "give" -> << "give" >> \o Whole(t[2]) \o (IF t[4] THEN <<>> ELSE << "~" >>) \o << t[3], ";" >>
    [] t[1] = "read" -> << "read", "text", "parse", ";" >>
Blocks(b) == Chain(LAMBDA i : Statement(b[i]), 1, Len(b))

Numbers(ns) == Chain(LAMBDA i : Bare(N(ns[i])), 1, Len(ns))
Declared(kind, names) == Chain(LAMBDA i : << kind, names[i], ";" >>, 1, Len(names))
Object(o) ==
  << "object", o.name, o.title >> \o (IF o.in = "" THEN <<>> ELSE << o.in >>)
  \o (IF o.with = <<>> THEN <<>>
      ELSE << "with" >> \o Listed(LAMBDA i : << o.with[i].p >> \o Numbers(o.with[i].v), Len(o.with), ","))
  \o (IF o.has = <<>> THEN <<>> ELSE << "has" >> \o o.has) \o << ";" >>
Routine(r) == << "[", r.name >> \o r.args \o r.locals \o << ";" >> \o Blocks(r.body) \o << "]", ";" >>

ProgramText(p) ==
  p.first \o Declared("attribute", p.attributes) \o Declared("property", p.properties)
  \o Chain(LAMBDA i : << "global", p.globals[i].x, "=" >> \o Bare(N(p.globals[i].v)) \o << ";" >>, 1, Len(p.globals))
  \o Chain(LAMBDA i : << "array", p.arrays[i].x, "-->" >> \o Numbers(p.arrays[i].v) \o << ";" >>, 1, Len(p.arrays))
  \o Chain(LAMBDA i : << "array", p.buffers[i].x, "->" >> \o Numbers(<< p.buffers[i].v >>) \o << ";" >>, 1, Len(p.buffers))
  \o Chain(LAMBDA i : Object(p.objects[i]), 1, Len(p.objects))
  \o Chain(LAMBDA i : Routine(p.routines[i]), 1, Len(p.routines)) \o p.last

------------------------------------------------------------------------------
\* The meaning.  The state of a run: g, l, a and b hold the globals, the locals,
\* the arrays and the buffers; lines what the player has not yet typed; kids the children of each object, by its name, and has and with
\* what it has; out what has been printed; flow why the statements that follow
\* are passed over, "" if they are not; v the value of the last expression.  An
\* object's value is its name, a word's is its lexeme, and that of none is "".

Wrapped(n) == ((n + 32768) % 65536) - 32768
Bits(n) == n % 65536
AsWord(b) == IF b THEN 1 ELSE 0

Ratio(a, b) ==
  LET q == (IF a < 0 THEN - a ELSE a) \div (IF b < 0 THEN - b ELSE b)
  IN  IF (a < 0) = (b < 0) THEN q ELSE - q

\* A sum of constants that is not a word is refused.
Overflows(a, op, b) ==
  /\ a[1] = "n" /\ b[1] = "n"
  /\ LET n == CASE op = "+" -> a[2] + b[2] [] op = "-" -> a[2] - b[2] [] op = "*" -> a[2] * b[2] [] OTHER -> 0
     IN  n # Wrapped(n)

Combined(a, op, b) ==
  CASE op = "+" -> Wrapped(a + b)
    [] op = "-" -> Wrapped(a - b)
    [] op = "*" -> Wrapped(a * b)
    [] op = "/" -> Wrapped(Ratio(a, b))
    [] op = "%" -> a - b * Ratio(a, b)
    [] op = "&" -> Wrapped(Bits(a) & Bits(b))
    [] op = "|" -> Wrapped(Bits(a) | Bits(b))
    [] op = "==" -> AsWord(a = b)
    [] op = "~=" -> AsWord(a # b)
    [] op = "<" -> AsWord(a < b)
    [] op = ">" -> AsWord(a > b)
    [] op = "<=" -> AsWord(a <= b)
    [] op = ">=" -> AsWord(a >= b)

Parent(s, o) == IF \E q \in DOMAIN s.kids : o \in ToSet(s.kids[q])
                THEN CHOOSE q \in DOMAIN s.kids : o \in ToSet(s.kids[q]) ELSE ""
Child(s, o) == IF s.kids[o] = <<>> THEN "" ELSE Head(s.kids[o])
Sibling(s, o) ==
  LET row == s.kids[Parent(s, o)]
      i == CHOOSE n \in DOMAIN row : row[n] = o
  IN  IF Parent(s, o) = "" \/ i = Len(row) THEN "" ELSE row[i + 1]
Detached(s, o) == [s EXCEPT !.kids = [q \in DOMAIN @ |-> SelectSeq(@[q], LAMBDA k : k # o)]]

Relation(s, f, o) ==
  CASE f = "parent" -> Parent(s, o)
    [] f = "child" -> Child(s, o)
    [] f = "sibling" -> Sibling(s, o)
    [] f = "children" -> Len(s.kids[o])

InLocals(s, x) == x \in DOMAIN s.l
Giving(s, v) == [s EXCEPT !.v = v]

\* A variable, an entry of an array or a property: its value, and an assignment.
Held(p, s, x, i) ==
  CASE x[1] = "v" -> CASE InLocals(s, x[2]) -> s.l[x[2]]
                       [] ~ InLocals(s, x[2]) /\ x[2] \in DOMAIN s.g -> s.g[x[2]]
                       [] OTHER -> x[2]
    [] x[1] = "at" -> s.a[x[2]][i + 1]
    [] x[1] = "byte" -> s.b[x[2]][i + 1]
    [] x[1] = "prop" -> s.with[i][x[3]][1]

Stored(s, x, i, v) ==
  CASE x[1] = "v" -> IF InLocals(s, x[2]) THEN [s EXCEPT !.l[x[2]] = v, !.v = v]
                                          ELSE [s EXCEPT !.g[x[2]] = v, !.v = v]
    [] x[1] = "at" -> [s EXCEPT !.a[x[2]][i + 1] = v, !.v = v]
    [] x[1] = "byte" -> [s EXCEPT !.b[x[2]][i + 1] = v, !.v = v]
    [] x[1] = "prop" -> [s EXCEPT !.with[i][x[3]][1] = v, !.v = v]

Digit(n) == << 48 + n >>
RECURSIVE Decimal(_)
Decimal(n) == IF n < 0 THEN << 45 >> \o Decimal(- n)
              ELSE (IF n < 10 THEN <<>> ELSE Decimal(n \div 10)) \o Digit(n % 10)

RECURSIVE Value(_, _, _)
RECURSIVE Follow(_, _, _)

\* The values of a list of expressions, evaluated in turn.
EachValue(p, s, es) ==
  LET Next(r, e) == LET t == Value(p, r, e) IN [t EXCEPT !.v = Append(r.v, @)]
  IN  InTurn(Next, Giving(s, <<>>), es)

Place(p, s, x) == CASE x[1] = "v" -> s
                    [] x[1] \in { "at", "byte" } -> Value(p, s, x[3])
                    [] x[1] = "prop" -> Value(p, s, x[2])

Invoked(p, s, f, args) ==
  LET r == p.routines[CHOOSE n \in DOMAIN p.routines : p.routines[n].name = f]
      given == [n \in DOMAIN r.args |-> IF n <= Len(args) THEN args[n] ELSE 0]
      names == ToSet(r.args \o r.locals)
      frame == [x \in names |-> IF x \in ToSet(r.args)
                                THEN given[CHOOSE n \in DOMAIN r.args : r.args[n] = x] ELSE 0]
      t == Follow(p, [s EXCEPT !.l = frame], r.body)
  IN  [t EXCEPT !.l = s.l, !.flow = IF @ = "quit" THEN @ ELSE "",
                !.v = IF t.flow = "return" THEN @ ELSE 1]

Value(p, s, e) ==
  CASE e[1] = "n" -> Giving(s, Wrapped(e[2]))
    [] e[1] = "word" -> Giving(s, e[2])
    [] e[1] = "nothing" -> Giving(s, "")
    [] e[1] \in { "v", "at", "byte", "prop" } ->
         LET t == Place(p, s, e) IN Giving(t, Held(p, t, e, t.v))
    [] e[1] = "op" /\ e[2] \in { "&&", "||" } ->
         LET t == Value(p, s, e[3])
             u == Value(p, t, e[4])
         IN  IF (t.v # 0) = (e[2] = "||") THEN Giving(t, AsWord(t.v # 0)) ELSE Giving(u, AsWord(u.v # 0))
    [] e[1] = "op" /\ e[2] \in { "in", "notin" } ->
         LET t == Value(p, s, e[3])
             u == Value(p, t, e[4])
         IN  Giving(u, AsWord((Parent(u, t.v) = u.v) = (e[2] = "in")))
    [] e[1] = "op" /\ e[2] \in { "has", "hasnt" } ->
         LET t == Value(p, s, e[3]) IN Giving(t, AsWord((e[4][2] \in t.has[t.v]) = (e[2] = "has")))
    [] e[1] = "op" /\ e[2] = "provides" ->
         LET t == Value(p, s, e[3]) IN Giving(t, AsWord(e[4][2] \in DOMAIN t.with[t.v]))
    [] e[1] = "op" /\ e[2] \in Comparisons \cup { "+", "-", "*", "/", "%", "&", "|" } ->
         LET t == Value(p, s, e[3])
             u == Value(p, t, e[4])
         IN  Giving(u, Combined(t.v, e[2], u.v))
    [] e[1] = "un" -> LET t == Value(p, s, e[3])
                      IN  Giving(t, CASE e[2] = "-" -> Wrapped(- t.v)
                                      [] e[2] = "~" -> -1 - t.v
                                      [] e[2] = "~~" -> AsWord(t.v = 0))
    [] e[1] = "set" -> LET t == Place(p, s, e[2])
                           u == Value(p, t, e[3])
                       IN  Stored(u, e[2], t.v, u.v)
    [] e[1] \in { "pre", "post" } ->
         LET t == Place(p, s, e[3])
             old == Held(p, t, e[3], t.v)
             new == Wrapped(IF e[2] = "++" THEN old + 1 ELSE old - 1)
         IN  Giving(Stored(t, e[3], t.v, new), IF e[1] = "pre" THEN new ELSE old)
    [] e[1] = "call" ->
         LET t == EachValue(p, s, e[3])
         IN  IF \E n \in DOMAIN p.routines : p.routines[n].name = e[2] THEN Invoked(p, t, e[2], t.v)
             ELSE Giving(t, Relation(t, e[2], t.v[1]))

Shown(p, s, i) ==
  LET t == IF i[1] \in { "char", "name" } THEN Value(p, s, i[2]) ELSE Value(p, s, i)
      text == CASE i[1] = "char" -> << t.v >>
                [] i[1] = "name" -> CodesOf(p.objects[CHOOSE n \in DOMAIN p.objects : p.objects[n].name = t.v].title)
                [] OTHER -> Decimal(t.v)
  IN  IF i[1] = "s" THEN [s EXCEPT !.out = @ \o CodesOf(i[2])] ELSE [t EXCEPT !.out = @ \o text]

ShownAll(p, s, items) == InTurn(LAMBDA r, i : Shown(p, r, i), s, items)

\* A loop: its condition, its body, and what is done before the next turn.
RECURSIVE Loop(_, _, _, _, _)
Loop(p, s, e, body, step) ==
  LET t == Value(p, s, e)
      done == Follow(p, t, body)
      on == [done EXCEPT !.flow = IF @ = "continue" THEN "" ELSE @]
  IN  IF t.v = 0 THEN t
      ELSE IF on.flow # "" THEN [on EXCEPT !.flow = IF @ = "break" THEN "" ELSE @]
      ELSE Loop(p, Value(p, on, step), e, body, step)

RECURSIVE LoopUntil(_, _, _, _)
LoopUntil(p, s, body, e) ==
  LET done == Follow(p, s, body)
      on == [done EXCEPT !.flow = IF @ = "continue" THEN "" ELSE @]
      t == Value(p, on, e)
  IN  IF on.flow # "" THEN [on EXCEPT !.flow = IF @ = "break" THEN "" ELSE @]
      ELSE IF t.v # 0 THEN t ELSE LoopUntil(p, t, body, e)

\* The child that comes next is that of the object as it is after the body.
RECURSIVE EachChild(_, _, _, _, _)
EachChild(p, s, x, o, body) ==
  LET t == Stored(s, V(x), 0, o)
      done == Follow(p, t, body)
      on == [done EXCEPT !.flow = IF @ = "continue" THEN "" ELSE @]
  IN  IF o = "" THEN t
      ELSE IF on.flow # "" THEN [on EXCEPT !.flow = IF @ = "break" THEN "" ELSE @]
      ELSE EachChild(p, on, x, Sibling(on, o), body)

Chosen(v, cases) ==
  LET Covers(w) == IF Len(w) = 1 THEN v = w[1] ELSE v \in w[1] .. w[2]
      hits == { i \in DOMAIN cases : \/ cases[i][1] = <<>>
                                     \/ \E n \in DOMAIN cases[i][1] : Covers(cases[i][1][n]) }
  IN  IF hits = {} THEN <<>>
      ELSE cases[CHOOSE i \in hits : \A k \in hits : i <= k][2]

\* The words of a line: what is between spaces, and the separators by themselves.
Separators == { 44, 46, 34 }
RECURSIVE SplitWords(_, _)
SplitWords(typed, word) ==
  LET ended == IF word = <<>> THEN <<>> ELSE << word >>
  IN  IF typed = <<>> THEN ended
      ELSE IF Head(typed) = 32 THEN ended \o SplitWords(Tail(typed), <<>>)
      ELSE IF Head(typed) \in Separators THEN ended \o << << Head(typed) >> >> \o SplitWords(Tail(typed), <<>>)
      ELSE SplitWords(Tail(typed), Append(word, Head(typed)))

\* The dictionary knows words of letters by the first six.
Six(word) == IF Len(word) > 6 THEN SubSeq(word, 1, 6) ELSE word
Spelt(w) == [n \in 1 .. Len(w) - 2 |-> Code(SubSeq(w, n + 1, n + 1))]
Recognised(p, word) ==
  LET same == { n \in DOMAIN p.words : Six(Spelt(p.words[n])) = Six(word) }
  IN  IF same = {} THEN "" ELSE p.words[CHOOSE n \in same : TRUE]

\* A character that the text buffer has no room for rings the bell.
LineRead(p, s) ==
  LET keys == CodesOf(Head(s.lines))
      room == s.b["text"][1] - 1
      typed == IF Len(keys) > room THEN SubSeq(keys, 1, room) ELSE keys
      words == SplitWords(typed, <<>>)
      most == IF Len(words) > s.b["parse"][1] THEN s.b["parse"][1] ELSE Len(words)
  IN  [s EXCEPT !.lines = Tail(@), !.b["parse"][2] = most,
                !.out = @ \o [n \in DOMAIN keys |-> IF n <= room THEN keys[n] ELSE 7] \o << 13 >>,
                !.a["parse"] = [n \in 1 .. 2 * most |-> IF n % 2 = 0 THEN Recognised(p, words[n \div 2]) ELSE ""]]

Effect(p, s, t) ==
  CASE t[1] = "do" -> Value(p, s, t[2])
    [] t[1] = "print" -> ShownAll(p, s, t[2])
    [] t[1] = "if" -> LET u == Value(p, s, t[2]) IN Follow(p, u, IF u.v # 0 THEN t[3] ELSE t[4])
    [] t[1] = "while" -> Loop(p, s, t[2], t[3], N(0))
    [] t[1] = "until" -> LoopUntil(p, s, t[2], t[3])
    [] t[1] = "for" -> Loop(p, Value(p, s, t[2]), t[3], t[5], t[4])
    [] t[1] = "switch" -> LET u == Value(p, s, t[2])
                              w == Follow(p, u, Chosen(u.v, t[3]))
                          IN  [w EXCEPT !.flow = IF @ = "break" THEN "" ELSE @]
    [] t[1] = "objectloop" -> LET u == Value(p, s, t[3]) IN EachChild(p, u, t[2], Child(u, u.v), t[4])
    [] t[1] \in { "break", "continue" } -> [s EXCEPT !.flow = t[1]]
    [] t[1] = "return" -> [Value(p, s, t[2]) EXCEPT !.flow = "return"]
    [] t[1] = "move" -> LET u == Value(p, s, t[2])
                            w == Value(p, u, t[3])
                        IN  [Detached(w, u.v) EXCEPT !.kids[w.v] = << u.v >> \o @]
    [] t[1] = "remove" -> LET u == Value(p, s, t[2]) IN Detached(u, u.v)
    [] t[1] = "give" -> LET u == Value(p, s, t[2])
                        IN  [u EXCEPT !.has[u.v] = IF t[4] THEN @ \cup { t[3] } ELSE @ \ { t[3] }]
    [] t[1] = "read" -> LineRead(p, s)

\* One statement after the other.
Follow(p, s, b) == InTurn(LAMBDA r, t : IF r.flow = "" THEN Effect(p, r, t) ELSE r, s, b)

\* What the program prints.  The objects declared inside another are its children
\* in the order of the text.
Table(pairs) == [x \in { pairs[i].x : i \in DOMAIN pairs } |->
                   pairs[CHOOSE i \in DOMAIN pairs : pairs[i].x = x].v]
Meaning(p) ==
  LET names == { p.objects[i].name : i \in DOMAIN p.objects }
      Named(n) == p.objects[CHOOSE i \in DOMAIN p.objects : p.objects[i].name = n]
      Inside(n) == SelectSeq([i \in DOMAIN p.objects |-> p.objects[i].name], LAMBDA k : Named(k).in = n)
      Properties(n) == [i \in DOMAIN Named(n).with |-> [x |-> Named(n).with[i].p, v |-> Named(n).with[i].v]]
      s == [g |-> Table(p.globals), l |-> <<>>, a |-> [parse |-> <<>>] @@ Table(p.arrays),
            b |-> [x \in { p.buffers[i].x : i \in DOMAIN p.buffers } |-> [n \in 1 .. 32 |-> 0]],
            lines |-> p.lines, kids |-> [n \in names |-> Inside(n)],
            has |-> [n \in names |-> ToSet(Named(n).has)], with |-> [n \in names |-> Table(Properties(n))],
            out |-> <<>>, flow |-> "", v |-> 0]
  IN  Invoked(p, s, "Main", <<>>).out

------------------------------------------------------------------------------
\* What is on the terminal, but for the breaks of its lines: the words with one
\* space after each.  A word that is longer than a line is cut.
Blank(ch) == ch \in { 13, 32 }
Squeezed(s) ==
  LET keep == SelectSeq([i \in DOMAIN s |-> i], LAMBDA i : ~ Blank(s[i]) \/ (i > 1 /\ ~ Blank(s[i - 1])))
  IN  [k \in DOMAIN keep |-> IF Blank(s[keep[k]]) THEN 32 ELSE s[keep[k]]]

CutLong(s, width) ==
  LET Start(i) == CHOOSE k \in 1 .. i : (k = 1 \/ Blank(s[k - 1])) /\ \A j \in k .. i : ~ Blank(s[j])
      Cut(i) == ~ Blank(s[i]) /\ i # Start(i) /\ (i - Start(i)) % width = 0
  IN  Chain(LAMBDA i : IF Cut(i) THEN << 32, s[i] >> ELSE << s[i] >>, 1, Len(s))
=============================================================================
