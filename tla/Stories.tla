------------------------------- MODULE Stories -------------------------------
(***************************************************************************)
(* A story from its source to the terminal: Inform 6 compiles it, and Z68  *)
(* runs what the compiler wrote.                                           *)
(***************************************************************************)
EXTENDS I6Program

CONSTANTS
  RamBudget, Columns, ArenaBytes, StepLimit,   \* of the interpreter; see Z68
  Names,      \* the programs
  Source,     \* [program -> its lexemes]
  Expected,   \* [program -> the characters that it prints, squeezed]
  Refused,    \* the programs that the compiler must refuse
  Stops,       \* [program -> why the interpreter stops, when the disk does not fail]
  Keys,       \* [program -> the keys that the player presses]
  Faults,     \* [program -> the disk reads of which one may fail, 0: none]

  \* The programs of the two machines: begin_pass and StoryStep of I6Program, and
  \* Load of Start, AwaitsLine and vm_run_loop of Z68.  They are handed over as constants
  \* because TLC, when it counts what it covers, unfolds every definition that an
  \* action names.
  BeginPass(_), PassStep(_), LoadStory(_, _, _), Waits(_),
  RunInstruction(_)

L == INSTANCE StoryLanguage

VARIABLES program, compiler, machine
vars == << program, compiler, machine >>

Exited == [phase |-> "exited"]
Refusal == [phase |-> "refused"]
Idle == [halt |-> "idle"]

Init ==
  \E n \in Names :
    /\ program = n
    /\ compiler = BeginPass(Source[n])
    /\ machine = Idle

\* inform6 -v3, a step of its pass over the source.
Compile(n) ==
  /\ compiler.phase \notin { "written", "exited", "refused" }
  /\ compiler' = PassStep(compiler)
  /\ UNCHANGED << program, machine >>

\* A program with errors has no story file.
Refuse(n) ==
  /\ compiler.phase = "written"
  /\ compiler.err > 0
  /\ compiler' = Refusal
  /\ UNCHANGED << program, machine >>

\* Z68 is started with the story file, on a disk that may fail once.
Boot(n) ==
  /\ compiler.phase = "written"
  /\ compiler.err = 0
  /\ \E fault \in Faults[n] :
       machine' = LoadStory(compiler.mem, fault, Keys[n])
  /\ compiler' = Exited
  /\ UNCHANGED program

\* One instruction, unless the player has no key left to press.
Execute(n) ==
  /\ machine.halt = ""
  /\ ~ Waits(machine)
  /\ machine' = RunInstruction(machine)
  /\ UNCHANGED << program, compiler >>

\* (The next-state relation has no name: TLC would unfold it while it reads the
\* modules.)
StoriesSpec ==
  Init /\ [][\E n \in Names : n = program /\ (Compile(n) \/ Refuse(n) \/ Boot(n) \/ Execute(n))]_vars

------------------------------------------------------------------------------
Starts(s, t) == Len(s) <= Len(t) /\ s = SubSeq(t, 1, Len(s))

\* The compiler refuses the programs that have an error in them and no others, and
\* none of its own checks fails (errors.c).
RefusesWhatItMust ==
  /\ compiler.phase = "refused" => program \in Refused
  /\ compiler.phase \in { "written", "exited" } /\ program \in Refused => compiler.phase = "written"
  /\ compiler.phase \notin { "exited", "refused" } => compiler.ice = 0

\* Whatever a program prints is what its source says, from the first character to
\* the last, and it ends by itself, unless the disk fails or the limits of the
\* interpreter stop it: then what it has printed is a beginning of that.
ProgramsRunAsWritten ==
  machine # Idle =>
    LET shown == L!Squeezed(machine.out)
        due == Expected[program]
    IN  /\ Starts(shown, due)
        /\ machine.halt = "quit" => shown = due
        /\ machine.halt # "" /\ Faults[program] = { 0 } => machine.halt = Stops[program]

\* What every instruction relies on in the story file: its parts in their order, as
\* many bytes as its header says, with its checksum; a dictionary in ascending
\* order, which the interpreter searches by halves; each object's properties in
\* descending order, which is where a search for one of them ends.
ObjectsAt(s) == WordAt(s, 10) + 62
Record(s, o) == ObjectsAt(s) + 9 * (o - 1)
PropertiesAt(s, o) == WordAt(s, Record(s, o) + 7)
Objects(s) == 1 .. (PropertiesAt(s, 1) - ObjectsAt(s)) \div 9

RECURSIVE Descends(_, _, _)
Descends(s, p, above) ==
  LET number == s[p + 1] % 32
  IN  number = 0 \/ (number < above /\ Descends(s, p + 2 + s[p + 1] \div 32, number))

RECURSIVE Sum(_, _, _)
Sum(s, i, j) ==
  IF i > j THEN 0
  ELSE IF i = j THEN s[i]
  ELSE LET h == (i + j) \div 2 IN Sum(s, i, h) + Sum(s, h + 1, j)

FileIsSound(s) ==
  LET bytes == 2 * WordAt(s, 26)
      words == WordAt(s, 8) + 1 + s[WordAt(s, 8) + 1]       \* after the separators
      Spelling(n) == << WordAt(s, words + 3 + s[words + 1] * n), WordAt(s, words + 5 + s[words + 1] * n) >>
      Before(u, v) == u[1] < v[1] \/ (u[1] = v[1] /\ u[2] < v[2])
  IN  /\ 64 <= WordAt(s, 24) /\ WordAt(s, 24) <= WordAt(s, 10)
      /\ WordAt(s, 10) < WordAt(s, 12) /\ WordAt(s, 12) + 480 <= WordAt(s, 14)
      /\ WordAt(s, 14) <= WordAt(s, 8) /\ WordAt(s, 8) < WordAt(s, 4)
      /\ WordAt(s, 4) <= WordAt(s, 6) /\ WordAt(s, 6) < bytes /\ bytes <= Len(s)
      /\ WordAt(s, 28) = Sum(s, 65, bytes) % 65536
      /\ \A n \in 1 .. WordAt(s, words + 1) - 1 : Before(Spelling(n - 1), Spelling(n))
      /\ \A o \in Objects(s) :
           LET p == PropertiesAt(s, o) IN Descends(s, p + 1 + 2 * s[p + 1], 32)

\* Whatever has been moved where, the objects are a forest: an object is in the list
\* of its parent's children, once, in no other list, and not inside itself.
TreeIsSound(s) ==
  LET Link(o, k) == s[Record(s, o) + 4 + k]
      Parent(o) == Link(o, 1)
      Pointing(o) == { << q, k >> \in Objects(s) \X { 2, 3 } : Link(q, k) = o }
      RECURSIVE Rooted(_, _)
      Rooted(o, n) == o = 0 \/ (n > 0 /\ Rooted(Parent(o), n - 1))
  IN  \A o \in Objects(s) :
        /\ Rooted(o, Cardinality(Objects(s)))
        /\ Cardinality(Pointing(o)) = (IF Parent(o) = 0 THEN 0 ELSE 1)
        /\ \A l \in Pointing(o) : Parent(o) = (IF l[2] = 3 THEN l[1] ELSE Parent(l[1]))

StoryIsSound ==
  /\ compiler.phase = "written" /\ compiler.err = 0 => FileIsSound(compiler.mem) /\ TreeIsSound(compiler.mem)
  /\ machine # Idle /\ machine.halt # "load" => TreeIsSound(machine.ram)

\* No line of the output is longer than the terminal is wide.  (What the player
\* types is not wrapped.)
LinesFit ==
  machine # Idle /\ Keys[program] = <<>> =>
    LET s == machine.out
        ends == { 0, Len(s) + 1 } \cup { i \in DOMAIN s : s[i] = 13 }
    IN  \A i \in ends : i <= Len(s) => \E j \in ends : j \in i + 1 .. i + Columns + 1
=============================================================================
