---------------------------- MODULE StoryPrograms ----------------------------
(***************************************************************************)
(* The programs that are compiled and run, and what the compiler's lexer   *)
(* is to know of their lexemes and of the veneer's.                        *)
(***************************************************************************)
EXTENDS StoryLanguage
LOCAL INSTANCE I6Veneer
LOCAL INSTANCE SequencesExt

I == V("i")
J == V("j")
K == V("k")
G == V("g")
H == V("h")
T(x) == << "s", x >>
Space == T("'' ''")
Yes(x) == << Say(<< T(x) >>) >>

Proc(name, args, body) == [name |-> name, args |-> args, locals |-> << "i", "j", "k" >>, body |-> body]

Program(routines) ==
  [first |-> <<>>, last |-> <<>>, attributes |-> <<>>, properties |-> <<>>,
   globals |-> << [x |-> "g", v |-> 5], [x |-> "h", v |-> 0] >>,
   arrays |-> << [x |-> "a", v |-> << 10, 20, 30, 40 >>] >>, buffers |-> <<>>, objects |-> <<>>,
   routines |-> routines, words |-> <<>>, lines |-> <<>>]
Main(body) == Program(<< Proc("Main", <<>>, body) >>)

------------------------------------------------------------------------------
\* Arithmetic: two numbers as constants and in variables.

Pairs == << << 1, 2 >>, << 32767, 1 >>, << -32768, -1 >>, << -7, 3 >>, << 7, -3 >>, << 256, 256 >>, << 0, -1 >> >>

Sums(op) ==
  Main(Chain(LAMBDA n :
    LET a == N(Pairs[n][1])
        b == N(Pairs[n][2])
    IN  << Just(Set(I, a)), Just(Set(J, b)), Say(<< Op(I, op, J), Space >>) >>
        \o (IF Overflows(a, op, b) THEN <<>> ELSE << Say(<< Op(a, op, b), Space >>) >>), 1, Len(Pairs)))

\* A comparison as a value, and as a condition whose branch is short or long.
LongText == Say(<< T("''The branch over these words is too long for a byte, so that it takes a word, which is longer.''") >>)
Compared(op) ==
  Main(Chain(LAMBDA n :
    << Just(Set(I, N(Pairs[n][1]))), Just(Set(J, N(Pairs[n][2]))), Say(<< Op(I, op, J) >>),
       When(Op(I, op, J), Yes("''y''"), Yes("''n''")) >>, 1, Len(Pairs))
    \o << When(Op(G, op, N(5)), << LongText >>, Yes("''n''")) >>)

\* Constants of which the sum or the product is not a word are refused, and a division by zero.
Edge(a, op, b) == Main(<< Say(<< Op(N(a), op, N(b)) >>) >>)

\* The order in which operators bind, and what is only evaluated when it matters.
Grouped ==
  LET x == N(2) y == N(3) z == N(-4)
      Odd(e) == Apply("Odd", << e >>)
  IN  Program(<<
        Proc("Main", <<>>,
          << Just(Set(I, x)), Just(Set(J, y)), Just(Set(K, z)),
             Say(<< Op(I, "+", Op(J, "*", K)), Space, Op(Op(I, "+", J), "*", K), Space, Op(I, "-", Op(J, "-", K)),
                    Space, Op(Op(I, "-", J), "-", K), Space, Un("-", Op(I, "+", J)), Space,
                    Op(Un("-", I), "+", J), Space, Un("~", Op(I, "|", J)), Space,
                    Op(Op(I, "%", J), "/", x), Space >>),
             When(Op(Op(Odd(J), "&&", Odd(I)), "||", Odd(J)), Yes("''one''"), Yes("''none''")),
             When(Op(Odd(I), "&&", Op(Odd(I), "||", Odd(J))), Yes("''two''"), Yes("''none''")),
             When(Un("~~", Op(Odd(I), "&&", Odd(J))), Yes("''three''"), Yes("''none''")),
             Say(<< Space, Op(Op(I, "<", J), "&&", Op(J, ">", K)), Un("~~", I), H, Space >>) >>),
        Proc("Odd", << "n" >>, << Just(Post(H, "++")), Answer(Op(V("n"), "%", N(2))) >>) >>)

\* Assignments and steps of every kind of variable.
Steps ==
  Main(<< Just(Set(I, Op(Set(J, N(3)), "+", N(1)))), Say(<< I, J, Space, Post(I, "++"), Pre("++", I), Space >>),
          Say(<< Post(G, "--"), Pre("--", G), G, Space >>),
          Just(Set(At("a", N(1)), Op(At("a", N(0)), "+", N(1)))),
          Say(<< At("a", N(1)), Space, Post(At("a", N(1)), "++"), Space, Pre("--", At("a", N(2))), Space >>),
          Just(Set(K, N(3))), Just(Set(At("a", K), Op(At("a", Op(K, "-", N(1))), "*", N(-1)))),
          Say(<< At("a", N(3)), Space, At("a", N(1)), Space >>),
          Just(Set(H, N(32767))), Just(Post(H, "++")), Say(<< H >>) >>)

------------------------------------------------------------------------------
\* Control.

Exits == [none |-> <<>>, break |-> << When(Op(I, "==", N(3)), << Break >>, <<>>) >>,
          continue |-> << When(Op(Op(I, "%", N(2)), "==", N(0)), << Continue >>, <<>>) >>]
Turn == Just(Post(I, "++"))
Shown3 == << Say(<< I, T("'',''") >>) >>

Looping(kind, exit) ==
  LET inner == Count(Set(J, N(0)), Op(J, "<", N(2)), Post(J, "++"), << Say(<< J >>) >>)
      body == Exits[exit] \o << inner >> \o Shown3
  IN  Main(<< CASE kind = "while" -> Repeat(Op(I, "<", N(5)), << Turn >> \o body)
                [] kind = "until" -> Until(<< Turn >> \o body, Op(I, ">=", N(5)))
                [] kind = "for" -> Count(Set(I, N(0)), Op(I, "<", N(5)), Post(I, "++"), body \o << LongText >>) >>
           \o Yes("''.^''"))

Switching ==
  LET Case(v, x) == << v, Yes(x) >>
  IN  Main(<< Count(Set(I, N(-2)), Op(I, "<=", N(9)), Post(I, "++"),
                << Select(I, << Case(<< << -1 >> >>, "''minus ''"), Case(<< << 2, 4 >>, << 7 >> >>, "''some ''"),
                               << << << 5 >> >>, << When(Op(G, "==", N(5)), << Break >>, <<>>) >> \o Yes("''five ''") >>,
                               Case(<< << 9 >>, << 1 >>, << 300 >> >>, "''odd ''"), Case(<<>>, "''else ''") >>) >>) >>)

\* Calls: with fewer arguments than there are, of itself, and past a return.
Calling ==
  Program(<<
    Proc("Main", <<>>,
      << Say(<< Apply("Product", << N(6) >>), Space, Apply("Two", << N(7) >>), Space,
                Op(Apply("Two", << N(1), N(2) >>), "+", Apply("Two", << N(3), N(4) >>)), Space,
                Apply("Nest", << N(4) >>), Space, I, J, K >>) >>),
    Proc("Product", << "n" >>,
      << When(Op(V("n"), "<", N(2)), << Answer(N(1)) >>, <<>>),
         Just(Set(I, Apply("Product", << Op(V("n"), "-", N(1)) >>))), Answer(Op(I, "*", V("n"))) >>),
    Proc("Two", << "n", "m" >>,
      << Just(Set(I, Op(V("m"), "*", N(10)))), Answer(Op(I, "+", V("n"))), Say(<< T("''never''") >>) >>),
    Proc("Nest", << "n" >>,
      << When(Op(V("n"), ">", N(0)),
              << Say(<< V("n") >>), Just(Apply("Nest", << Op(V("n"), "-", N(1)) >>)), Say(<< V("n") >>) >>, <<>>) >>) >>)

\* Calls that go deeper than the interpreter's stack, and more turns than it gives.
Deep == Program(<<
    Proc("Main", <<>>, << Just(Apply("Down", << N(1) >>)), Say(<< T("''up''") >>) >>),
    Proc("Down", << "n", "p", "q", "r", "s", "t", "u", "v", "w", "x", "y", "z" >>,
                            << Say(<< V("n"), Space >>),
                               When(Op(V("n"), "<", N(6)), << Just(Apply("Down", << Op(V("n"), "+", N(1)) >>)) >>, <<>>) >>) >>)
Endless == Main(<< Say(<< T("''long ''") >>),
                   Repeat(Op(I, "<", N(9)),
                     << Turn, Count(Set(J, N(0)), Op(J, "<", N(9)), Post(J, "++"),
                                << Count(Set(K, N(0)), Op(K, "<", N(6)), Post(K, "++"), <<>>), Say(<< K >>) >>),
                        Say(<< I, Space >>) >>) >>)

------------------------------------------------------------------------------
\* Objects.

Thing(name, title, in, with, has) == [name |-> name, title |-> title, in |-> in, with |-> with, has |-> has]
Field(p, v) == [p |-> p, v |-> v]
OfObjects(body) ==
  [Main(body) EXCEPT
     !.attributes = << "light", "open" >>, !.properties = << "weight", "size", "tags" >>,
     !.objects = << Thing("Hall", "''Hall''", "", << Field("size", << 9 >>) >>, << "light" >>),
                    Thing("Box", "''box''", "Hall", << Field("weight", << 300 >>), Field("size", << 4 >>) >>, << "open" >>),
                    Thing("Cup", "''cup''", "Box", << Field("tags", << 1, 2, 3 >>), Field("weight", << 1 >>) >>, <<>>),
                    Thing("Pin", "''Pin No.7''", "Box", <<>>, << "open", "light" >>),
                    Thing("Bag", "''bag''", "Hall", << Field("weight", << -1 >>) >>, <<>>) >>]
TheHall == V("Hall")
TheBox == V("Box")
TheCup == V("Cup")
ThePin == V("Pin")
TheBag == V("Bag")
NameOf(e) == << "name", e >>
InsideOf(o) == << Objectloop("i", o, << Say(<< NameOf(I), Space >>) >>), Say(<< Apply("children", << o >>), T("''; ''") >>) >>

Moving == OfObjects(
  InsideOf(TheHall) \o InsideOf(TheBox)
  \o << Move(TheCup, TheHall) >> \o InsideOf(TheHall) \o InsideOf(TheBox)
  \o << Move(TheBox, TheBag), TakeOut(ThePin), Move(ThePin, TheCup) >> \o InsideOf(TheHall) \o InsideOf(TheBag) \o InsideOf(TheBox)
  \o << When(Op(TheBox, "in", TheBag), Yes("''in''"), Yes("''out''")), When(Op(TheCup, "notin", TheBag), Yes("''out''"), Yes("''in''")),
        Say(<< NameOf(Apply("parent", << ThePin >>)), NameOf(Apply("child", << TheHall >>)),
               NameOf(Apply("sibling", << Apply("child", << TheHall >>) >>)) >>),
        TakeOut(TheCup) >> \o InsideOf(TheHall))

Holding == OfObjects(
  << When(Op(TheHall, "has", V("light")), Yes("''lit ''"), Yes("''dark ''")), Mark(TheHall, "light", FALSE),
     When(Op(TheHall, "hasnt", V("light")), Yes("''dark ''"), Yes("''lit ''")), Mark(TheCup, "open", TRUE),
     Mark(ThePin, "light", TRUE), When(Op(Op(TheCup, "has", V("open")), "&&", Op(ThePin, "has", V("open"))), Yes("''both ''"), <<>>),
     Say(<< Prop(TheBox, "weight"), Space, Prop(TheBox, "size"), Space, Prop(TheBag, "weight"), Space >>),
     Just(Set(Prop(TheBox, "weight"), Op(Prop(TheBox, "weight"), "+", N(5)))), Just(Set(I, TheCup)),
     Just(Set(Prop(I, "weight"), N(-300))), Say(<< Prop(TheBox, "weight"), Space, Prop(TheCup, "weight"), Space >>),
     Say(<< Post(Prop(TheHall, "size"), "++"), Pre("--", Prop(TheBox, "size")), Prop(TheHall, "size") >>) >>)
Providing == OfObjects(
  << When(Op(TheCup, "provides", V("tags")), Yes("''tags ''"), Yes("''none ''")), Just(Set(I, ThePin)),
     When(Op(I, "provides", V("weight")), Yes("''weight ''"), Yes("''none ''")) >>)

------------------------------------------------------------------------------
\* Text.

Wrapping == Main(<<
  Say(<< T("''The lines of this text are broken where the words end, and so is a line of exactly''"),
         T("'' twenty-four characters''"), T("'' or one_word_that_is_longer_than_a_line''"), T("''.^^New, old^''"),
         N(-32768), T("''..''"), N(0), T("'' ''") >>),
  Count(Set(I, N(65)), Op(I, "<", N(91)), Set(I, Op(I, "+", N(5))), << Say(<< << "char", I >>, << "char", Op(I, "+", N(32)) >> >>) >>) >>)
Punctuation == Main(<< Say(<< T("''!#'/-:()?_.,0123456789 Az ~ + * ;<=>[]{|} @@126 %&$''") >>) >>)
Abbreviated == [Wrapping EXCEPT !.first = << "switches", "e", ";", "abbreviate", "''the ''", "''line''", "''of ''", ";" >>]

\* Lines typed, of which the words are looked up.
Vocabulary == << "'take'", "'drop'", "'lamp'", "'axe'", "'zebra'", "'north'", "'lantern'", "'go'", "'inventory'", "'mud'", "'of'" >>
Listening ==
  LET Word == At("parse", Op(Op(N(2), "*", I), "-", N(1)))
      Which == Chain(LAMBDA n : << When(Op(Word, "==", WordEntry(Vocabulary[n])), << Say(<< N(n), Space >>) >>, <<>>) >>,
                     1, Len(Vocabulary))
  IN  [Main(<< Just(Set(Byte("text", N(0)), N(24))), Just(Set(Byte("parse", N(0)), N(4))),
               Count(Set(J, N(0)), Op(J, "<", N(3)), Post(J, "++"),
                 << Say(<< T("''> ''") >>), ReadLine, Just(Set(K, Byte("parse", N(1)))), Say(<< K, T("'':''") >>),
                    Count(Set(I, N(1)), Op(I, "<=", K), Post(I, "++"), Which \o
                      << When(Op(Word, "==", Nothing), Yes("''what? ''"), <<>>) >>) >>) >>)
       EXCEPT !.buffers = << [x |-> "text", v |-> 30], [x |-> "parse", v |-> 30] >>, !.words = Vocabulary,
              !.lines = << "''take lamp,drop axe''", "''inventories  of zebras.''", "''lanternjaw go mudd north of''" >>]

------------------------------------------------------------------------------
Programs ==
  [add |-> Sums("+"), sub |-> Sums("-"), mul |-> Sums("*"), div |-> Sums("/"), mod |-> Sums("%"),
   and |-> Sums("&"), or |-> Sums("|"),
   eq |-> Compared("=="), ne |-> Compared("~="), lt |-> Compared("<"), gt |-> Compared(">"),
   le |-> Compared("<="), ge |-> Compared(">="),
   edge1 |-> Edge(32766, "+", 1), edge2 |-> Edge(32767, "+", 1), edge3 |-> Edge(-32767, "-", 1),
   edge4 |-> Edge(-32768, "-", 1), edge5 |-> Edge(256, "*", 128), edge6 |-> Edge(-256, "*", 128),
   zero1 |-> Edge(7, "/", 0), zero2 |-> Edge(-7, "%", 0),
   nested |-> Grouped, steps |-> Steps,
   while0 |-> Looping("while", "none"), while1 |-> Looping("while", "break"), while2 |-> Looping("while", "continue"),
   until0 |-> Looping("until", "none"), until1 |-> Looping("until", "break"), until2 |-> Looping("until", "continue"),
   for0 |-> Looping("for", "none"), for1 |-> Looping("for", "break"), for2 |-> Looping("for", "continue"),
   switching |-> Switching, calling |-> Calling, deep |-> Deep, endless |-> Endless,
   moving |-> Moving, holding |-> Holding, providing |-> Providing,
   wrapping |-> Wrapping, symbols |-> Punctuation, abbreviated |-> Abbreviated, listening |-> Listening]

ProgramNames == DOMAIN Programs
ProgramSources == LET ps == Programs IN [n \in DOMAIN ps |-> ProgramText(ps[n])]
Refusals == { "edge2", "edge4", "edge5", "zero1", "zero2" }
ProgramEnds ==
  [n \in DOMAIN Programs |-> CASE n = "deep" -> "fault" [] n = "endless" -> "budget" [] OTHER -> "quit"]
ProgramFaults == LET faulty == { "calling", "wrapping" }
                 IN  [n \in DOMAIN Programs |-> IF n \in faulty THEN 0 .. 12 ELSE { 0 }]
LineWidth == 24
ProgramMeanings ==
  LET ps == Programs
      Terminal(out) == Squeezed(CutLong(out, LineWidth))
  IN  [n \in DOMAIN ps |-> IF n \in Refusals THEN << >>
                            ELSE CHOOSE t \in { Terminal(out) : out \in { Meaning(ps[n]) } } : TRUE]
\* The keys that are pressed; each line ends with a carriage return.
ProgramKeys == LET ps == Programs
               IN  [n \in DOMAIN ps |-> Chain(LAMBDA k : CodesOf(ps[n].lines[k]) \o << 13 >>, 1, Len(ps[n].lines))]

------------------------------------------------------------------------------
\* The lexemes of the programs and of the veneer, by their first characters.
Used == LET ss == ProgramSources
        IN  UNION { ToSet(ss[n]) : n \in DOMAIN ss } \cup UNION { ToSet(VeneerSource[r]) : r \in DOMAIN VeneerSource }
Begins(x, s) == Len(x) >= Len(s) /\ SubSeq(x, 1, Len(s)) = s

DigitRow == "0123456789"
HexDigits == << "0123456789abcdef", "0123456789ABCDEF" >>
RECURSIVE DecimalOf(_, _)
DecimalOf(x, n) == IF n = 0 THEN 0 ELSE 10 * DecimalOf(x, n - 1) + Position(SubSeq(x, n, n), DigitRow) - 1
RECURSIVE HexOf(_, _)
HexOf(x, n) ==
  LET ch == SubSeq(x, n, n)
  IN  IF n = 1 THEN 0
      ELSE 16 * HexOf(x, n - 1) + Position(ch, HexDigits[IF Occurs(ch, HexDigits[1]) THEN 1 ELSE 2]) - 1

Lexicon ==
  LET used == Used
      numerals == { x \in used : (Begins(x, "$") /\ Len(x) > 1) \/ (Len(x) > 0 /\ Occurs(SubSeq(x, 1, 1), DigitRow)) }
  IN  [numerals |-> [x \in numerals |-> IF Begins(x, "$") THEN HexOf(x, Len(x)) ELSE DecimalOf(x, Len(x))],
       texts |-> [x \in { x \in used : Begins(x, "''") } |-> Characters(x, 3, Len(x) - 2)],
       words |-> [x \in { x \in used : Begins(x, "'") /\ ~ Begins(x, "''") } |-> Characters(x, 2, Len(x) - 1)],
       hashes |-> [x \in { x \in used : Begins(x, "##") /\ Len(x) > 2 } |-> << "##", SubSeq(x, 3, Len(x)) >>],
       escapes |-> (Tilde :> [k |-> "zscii", v |-> 126])]
=============================================================================
