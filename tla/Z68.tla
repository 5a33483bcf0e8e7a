-------------------------------- MODULE Z68 ---------------------------------
(***************************************************************************)
(* Z68's input: a line read from the terminal (z/input.s), split into      *)
(* words that are looked up in the story's dictionary (z/dict.s), after    *)
(* the status line has been drawn (z/status.s).                            *)
(*                                                                         *)
(*   keys      the keys that the player will press, of which a line ends   *)
(*             with CR or LF                                               *)
(*   skiplf    the last line ended with CR: a LF that follows is dropped   *)
(*   terminal  the terminal has a status line                              *)
(*   budget    the instructions that may run before the next line          *)
(***************************************************************************)
EXTENDS Z68Execute

CONSTANT StepLimit       \* the instructions between two lines of input, 30000

CR == 13
LF == 10
Bell == 7
Backspace == 8
Delete == 127

------------------------------------------------------------------------------
\* The status line: the room that the first global variable names, then the
\* score and the moves, or the time.

LineWidth == 80
RoomWidth == 48

Score == << 83, 99, 111, 114, 101, 58, 32 >>
Moves == << 32, 77, 111, 118, 101, 115, 58, 32 >>
Time == << 84, 105, 109, 101, 58, 32 >>

StatusRoom(m) ==
  LET d == var_read(m, 16)
      shown == vm_do_print_obj([d EXCEPT !.r[1] = d.val])
      Dots(e) == [e EXCEPT !.status.line[46] = 46, !.status.line[47] = 46, !.status.line[48] = 46]
      room == IF d.val = 0 \/ d.carry THEN d ELSE shown
  IN  IF ~ room.carry /\ room.status.clipped THEN Dots(room) ELSE room

status_number(m, v) ==
  LET d == var_read(m, v) IN IF m.carry \/ d.carry THEN d ELSE vm_do_print_num(d, d.val)

status_two_digits(m, v, limit) ==
  LET d == var_read(m, v)
  IN  IF m.carry \/ d.carry THEN d
      ELSE IF d.val > limit THEN vars_fault(d)
      ELSE PutAll(d, << 48 + (d.val \div 10), 48 + (d.val % 10) >>)

StatusRight(m) ==
  LET at == [m EXCEPT !.status.at = RoomWidth + 1, !.status.limit = LineWidth]
      clock == (m.ram[2] \div 2) % 2 = 1
      hours == status_two_digits(PutAll(at, Time), 17, 23)
      score == status_number(PutAll(at, Score), 17)
  IN  IF m.carry THEN m
      ELSE IF clock THEN IF hours.carry THEN hours
                         ELSE status_two_digits(putc(hours, 58), 18, 59)
      ELSE IF score.carry THEN score ELSE status_number(PutAll(score, Moves), 18)

\* vm_do_show_status; the operands and the value are as they were before.
vm_do_show_status(m) ==
  LET blank == [on |-> TRUE, line |-> [n \in 1 .. LineWidth |-> Space], at |-> 1,
                limit |-> RoomWidth, clipped |-> FALSE]
      d == StatusRight(StatusRoom([m EXCEPT !.status = blank]))
  IN  IF ~ m.terminal THEN Good(m, 0)
      ELSE [d EXCEPT !.status.on = FALSE, !.r = m.r]

------------------------------------------------------------------------------
\* A line of input.

\* Whether the keys up to the end of a line have been pressed.
LineEnds(m) == { n \in DOMAIN m.keys : /\ m.keys[n] \in { CR, LF }
                                       /\ ~ (n = 1 /\ m.skiplf /\ m.keys[1] = LF) }
HasLine(m) == LineEnds(m) # {}

LowerCase(ch) == IF ch \in 65 .. 90 THEN ch + 32 ELSE ch
Echo(m, s) == [m EXCEPT !.out = @ \o s]

\* One key of the line typed so far, of at most limit characters.
Key(m, line, limit) ==
  LET ch == Head(m.keys)
      d == [m EXCEPT !.keys = Tail(@), !.skiplf = FALSE]
      shorter == SubSeq(line, 1, Len(line) - 1)
  IN  CASE ch \in { Backspace, Delete } ->
             IF line = <<>> THEN [m |-> d, line |-> line]
             ELSE [m |-> Echo(d, << Backspace, Space, Backspace >>), line |-> shorter]
        [] ch \in 32 .. 126 ->
             IF Len(line) >= limit THEN [m |-> Echo(d, << Bell >>), line |-> line]
             ELSE [m |-> Echo(d, << ch >>), line |-> Append(line, LowerCase(ch))]
        [] OTHER -> [m |-> d, line |-> line]

\* input_read_line: the machine and the line.
RECURSIVE input_read_line(_, _, _)
input_read_line(m, line, limit) ==
  LET ch == Head(m.keys)
      next == Key(m, line, limit)
      ended == pcrlf([m EXCEPT !.keys = Tail(@), !.skiplf = (ch = CR), !.wrap.column = 0])
  IN  IF m.skiplf /\ ch = LF
        THEN input_read_line([m EXCEPT !.keys = Tail(@), !.skiplf = FALSE], line, limit)
      ELSE IF ch \in { CR, LF } THEN [m |-> ended, line |-> line]
      ELSE input_read_line(next.m, next.line, limit)

------------------------------------------------------------------------------
\* The two buffers of sread: n and n bytes of text; n and n words of four bytes.

TextCapacity(m) == m.ram[m.r[1] + 1]

\* input_prepare_text
TextFits(m) ==
  /\ Operands(m, 2)
  /\ m.r[1] >= 64 /\ m.r[1] < DynamicSize(m)
  /\ TextCapacity(m) >= 2
  /\ m.r[1] + TextCapacity(m) < DynamicSize(m)

\* Sizes of early games are not numbers of words.
ParseCapacity(m) ==
  LET n == m.ram[m.r[2] + 1] IN IF n \in { 120, 240 } THEN 59 ELSE n

\* dict_prepare: the parse buffer is writable, and apart from the text buffer.
ParseFits(m) ==
  LET end == m.r[2] + 4 * ParseCapacity(m) + 1
  IN  /\ m.r[2] >= 64 /\ m.r[2] < DynamicSize(m)
      /\ ParseCapacity(m) # 0
      /\ end < DynamicSize(m)
      /\ end < m.r[1] \/ m.r[2] > m.r[1] + TextCapacity(m)

\* The header of the dictionary: the separators, and the table of entries.
DictAt(m) == Header(m, 8)

dict_header(m) ==
  LET n == memory_read_byte(m, DictAt(m))
      at == DictAt(m) + n.val + 1
      length == memory_read_byte(n, at)
      count == memory_read_word(length, at + 1)
      end == at + 3 + count.val * length.val
      last == memory_read_byte(count, end - 1)
      table == [separators |-> n.val, entries |-> at + 3, length |-> length.val,
                count |-> count.val]
  IN  IF n.carry \/ length.carry \/ count.carry THEN Halt(m, "dictionary")
      ELSE IF length.val < 4 \/ count.val >= 32768 \/ at + 3 > 65535 \/ end > 65536
        THEN Halt(m, "dictionary")
      ELSE IF count.val > 0 /\ last.carry THEN Halt(m, "dictionary")
      ELSE Good(IF count.val > 0 THEN last ELSE count, table)

------------------------------------------------------------------------------
\* A word of the line is encoded as six Z-characters, in two words of the story.

A2Code(ch) == { k \in 1 .. 25 : text_a2[k + 1] = ch }
ZCharsOf(ch) ==
  CASE ch = Space -> << 0 >>
    [] ch \in 97 .. 122 -> << ch - 91 >>
    [] OTHER -> IF A2Code(ch) # {} THEN << 5, 6 + CHOOSE k \in A2Code(ch) : TRUE >>
                ELSE << 5, 6, ch \div 32, ch % 32 >>

RECURSIVE ZString(_)
ZString(s) == IF s = <<>> THEN <<>> ELSE ZCharsOf(Head(s)) \o ZString(Tail(s))

dict_encode(word) ==
  LET z == SubSeq(ZString(word) \o << 5, 5, 5, 5, 5, 5 >>, 1, 6)
      Packed(a, b, c) == 1024 * a + 32 * b + c
  IN  << Packed(z[1], z[2], z[3]), 32768 + Packed(z[4], z[5], z[6]) >>

KeyBytes(key) == << High(key[1]), Low(key[1]), High(key[2]), Low(key[2]) >>

\* How the entry at a compares with the key, by its bytes.
RECURSIVE Compare(_, _, _, _)
Compare(m, a, key, n) ==
  LET d == memory_read_byte(m, a)
      b == KeyBytes(key)[n]
  IN  IF n > 4 THEN Good(m, "same")
      ELSE IF d.carry THEN Halt(d, "dictionary")
      ELSE IF d.val # b THEN Good(d, IF d.val < b THEN "before" ELSE "after")
      ELSE Compare(d, a + 1, key, n + 1)

\* dict_lookup: the address of the entry, or 0.
RECURSIVE dict_lookup(_, _, _, _, _)
dict_lookup(m, table, key, lower, upper) ==
  LET mid == lower + (upper - lower) \div 2
      a == table.entries + mid * table.length
      d == Compare(m, a, key, 1)
  IN  IF lower >= upper THEN Good(m, 0)
      ELSE IF d.carry THEN d
      ELSE IF d.val = "same" THEN Good(d, a)
      ELSE IF d.val = "before" THEN dict_lookup(d, table, key, mid + 1, upper)
      ELSE dict_lookup(d, table, key, lower, mid)

RECURSIVE SeparatorFrom(_, _, _, _)
SeparatorFrom(m, table, ch, n) ==
  LET d == memory_read_byte(m, DictAt(m) + n)
  IN  IF n > table.separators THEN Good(m, FALSE)
      ELSE IF d.carry THEN Halt(d, "dictionary")
      ELSE IF d.val = ch THEN Good(d, TRUE) ELSE SeparatorFrom(d, table, ch, n + 1)

dict_is_separator(m, table, ch) == SeparatorFrom(m, table, ch, 1)

\* The end of the word that goes on at position n of the line.
RECURSIVE WordEnd(_, _, _, _)
WordEnd(m, table, line, n) ==
  LET d == dict_is_separator(m, table, line[n])
  IN  IF n > Len(line) THEN Good(m, n)
      ELSE IF line[n] = Space THEN Good(m, n)
      ELSE IF d.carry THEN d
      ELSE IF d.val THEN Good(d, n) ELSE WordEnd(d, table, line, n + 1)

\* dict_tokenize, from position n: the words so far are k.
RECURSIVE dict_token_loop(_, _, _, _, _)
dict_token_loop(m, table, line, n, k) ==
  LET first == dict_is_separator(m, table, line[n])
      end == IF first.val THEN Good(first, n + 1) ELSE WordEnd(first, table, line, n + 1)
      word == SubSeq(line, n, end.val - 1)
      d == dict_lookup(end, table, dict_encode(word), 0, table.count)
      at == m.r[2] + 2 + 4 * k
      stored == [d EXCEPT !.ram[at + 1] = High(d.val), !.ram[at + 2] = Low(d.val),
                          !.ram[at + 3] = Len(word), !.ram[at + 4] = n]
  IN  IF k >= ParseCapacity(m) \/ n > Len(line)
        THEN Good([m EXCEPT !.ram[m.r[2] + 2] = k], 0)
      ELSE IF line[n] = Space THEN dict_token_loop(m, table, line, n + 1, k)
      ELSE IF first.carry THEN first
      ELSE IF end.carry THEN end
      ELSE IF d.carry THEN d
      ELSE dict_token_loop(stored, table, line, end.val, k + 1)

\* input_store_text: the characters and a zero; the rest of the buffer stays.
input_store_text(m, line) ==
  [m EXCEPT !.ram = [a \in DOMAIN @ |->
     IF a \in m.r[1] + 2 .. m.r[1] + 1 + Len(line) THEN line[a - m.r[1] - 1]
     ELSE IF a = m.r[1] + 2 + Len(line) THEN 0 ELSE @[a]]]

vm_do_sread(m) ==
  LET table == dict_header(m)
      drawn == vm_do_show_status(wrap_flush(table))
      typed == input_read_line(drawn, <<>>, TextCapacity(m) - 1)
      d == dict_token_loop([input_store_text(typed.m, typed.line) EXCEPT !.ram[m.r[2] + 2] = 0],
                           table.val, typed.line, 1, 0)
  IN  IF ~ TextFits(m) THEN Halt(m, "text")
      ELSE IF ~ ParseFits(m) THEN Halt(m, "dictionary")
      ELSE IF table.carry THEN table
      ELSE IF drawn.carry THEN drawn
      ELSE IF d.carry THEN d ELSE [d EXCEPT !.budget = StepLimit]

-----------------------------------------------------------------------------
(***************************************************************************)
(* Z68, the story interpreter: the state before a story runs, and one      *)
(* instruction (z/execute.s, z/ops.s, z/handlers.s, z68.s).                *)
(***************************************************************************)

\* start: nothing of the story has been read.
Start(file, disk, keys, terminal, entropy) ==
  [file |-> file, ram |-> <<>>, disk |-> disk, indexed |-> FALSE,
   slots |-> [s \in 1 .. 2 |-> [valid |-> FALSE, tag |-> 0, sector |-> 0]], recent |-> 1,
   val |-> 0, carry |-> FALSE, halt |-> "", out |-> <<>>,
   wrap |-> [on |-> FALSE, column |-> 0, word |-> <<>>, spaces |-> 0],
   status |-> [on |-> FALSE, line |-> <<>>, at |-> 0, limit |-> 0, clipped |-> FALSE],
   eval |-> <<>>, locals |-> <<>>, frames |-> <<>>, inst |-> NoInstruction,
   r |-> << 0, 0, 0, 0 >>, pc |-> 0, rnd |-> << 0, 0 >>, entropy |-> entropy,
   keys |-> keys, skiplf |-> FALSE, terminal |-> terminal, budget |-> StepLimit]

\* vm_run: the capabilities in the story's Flags 1: no split window, a fixed
\* pitch, a status line when the terminal has one.
Capabilities(m) ==
  LET f == m.ram[2]
      kept == (f \div 128) * 128 + (f % 32)
      fixed == IF (kept \div 16) % 2 = 1 THEN kept ELSE kept + 16
  IN  [m EXCEPT !.ram[2] = IF m.terminal THEN fixed - 16 ELSE fixed]

Load(m) ==
  LET d == memory_load(rnd_init(m))
  IN  IF d.carry THEN d
      ELSE [Capabilities(d) EXCEPT !.pc = Header(m, 6), !.wrap.on = TRUE]

op_dispatch(m) ==
  LET op == m.inst.op
  IN  CASE op \in Unimplemented -> Halt(m, "unimplemented")
        [] op = "sread" -> vm_do_sread(m)
        [] op = "show_status" -> vm_do_show_status(m)
        [] op \in { Opcodes.op0[n] : n \in DOMAIN Opcodes.op0 } \ (Unimplemented \cup { "show_status" }) ->
             Zero(m, op)
        [] op \in { Opcodes.op1[n] : n \in DOMAIN Opcodes.op1 } -> One(m, op)
        [] op \in { Opcodes.op2[n] : n \in DOMAIN Opcodes.op2 } -> Two(m, op)
        [] OTHER -> Var(m, op)

\* However the interpreter stops, the word that waits is printed.
Stopped(m) == IF m.halt = "" THEN m ELSE wrap_finish(m)

Counted(m) ==
  IF m.budget = 1 THEN Halt([m EXCEPT !.budget = 0], "budget") ELSE [m EXCEPT !.budget = @ - 1]

\* vm_run_loop: one instruction.
Instruction(m) ==
  LET decoded == vm_decode(m)
      resolved == ResolveFrom(decoded, 1)
      done == op_dispatch(resolved)
  IN  CASE decoded.carry -> vm_run_error(decoded)
        [] ~ decoded.carry /\ resolved.carry -> resolved
        [] OTHER -> IF done.carry THEN done ELSE Counted(done)

vm_run_loop(m) == [Stopped(Instruction(m)) EXCEPT !.val = 0]

\* The instruction at the program counter would wait for a line.
AwaitsLine(m) ==
  LET d == ResolveFrom(vm_decode(m), 1)
  IN  ~ d.carry /\ d.inst.op = "sread" /\ TextFits(d) /\ ~ HasLine(m)

=============================================================================
