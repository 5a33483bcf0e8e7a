------------------------------ MODULE Z68Text -------------------------------
(***************************************************************************)
(* Z68's story memory (z/memory.s, the index of z/zio.s, z/arrays.s): the  *)
(* part of the story below its static memory is resident and writable; the *)
(* rest is read from the FLEX file through an index of the file's sectors  *)
(* and two cached sectors.                                                 *)
(*                                                                         *)
(* The interpreter's state is one record, m, that every operation takes    *)
(* and returns:                                                            *)
(*   file       the bytes of the story file                                *)
(*   ram        dynamic memory                                             *)
(*   disk       the sector read that will fail, counted from now; 0: none  *)
(*   indexed    the index of the file's sectors has been built             *)
(*   slots      the two cached sectors, [valid, tag, sector]: the story    *)
(*              address of a slot's first byte and the sector it holds     *)
(*   recent     the slot that was used last, 1 or 2                        *)
(*   val, carry the result of the last operation                           *)
(*   halt       why the interpreter has stopped, "" while it runs          *)
(* An address is a number below 2^17.                                      *)
(***************************************************************************)
EXTENDS Integers, Sequences, FiniteSets

CONSTANTS
  RamBudget,   \* the bytes that FLEX leaves for dynamic memory (init.s)
  Columns      \* the width of the terminal, 80 (wrap.s)

SectorBytes == 252
IndexEntries == 521

Good(m, v) == [m EXCEPT !.val = v, !.carry = FALSE]
Bad(m) == [m EXCEPT !.carry = TRUE]
Halt(m, why) == [m EXCEPT !.halt = why, !.carry = TRUE]
vars_fault(m) == Halt(m, "fault")
vm_run_error(m) == Halt(m, "error")

High(w) == w \div 256
Low(w) == w % 256
Signed(w) == IF w < 32768 THEN w ELSE w - 65536

\* A word of the header, as it was in the file.
Header(m, n) == m.file[n + 1] * 256 + m.file[n + 2]
DynamicSize(m) == Len(m.ram)

------------------------------------------------------------------------------
\* Sectors of the file.

Sectors(m) == (Len(m.file) + SectorBytes - 1) \div SectorBytes
FileByte(m, a) == IF a < Len(m.file) THEN m.file[a + 1] ELSE 0

\* n sectors are read from the disk.
ReadSectors(m, n) ==
  IF m.disk \in 1 .. n THEN Bad([m EXCEPT !.disk = 0])
  ELSE Good([m EXCEPT !.disk = IF @ = 0 THEN 0 ELSE @ - n], 0)

story_build_index(m) ==
  LET cleared == [m EXCEPT !.indexed = FALSE, !.recent = 1,
                           !.slots = [s \in 1 .. 2 |-> [@[s] EXCEPT !.valid = FALSE]]]
      read == ReadSectors(cleared, Sectors(m))
  IN  IF Sectors(m) > IndexEntries THEN Bad(cleared)
      ELSE IF read.carry THEN read ELSE [read EXCEPT !.indexed = TRUE]

\* memory_cache_probe
Hit(m, s, a) == m.slots[s].valid /\ a - m.slots[s].tag \in 0 .. SectorBytes - 1
CachedByte(m, s, a) ==
  FileByte(m, SectorBytes * m.slots[s].sector + a - m.slots[s].tag)

\* memory_choose_cache: an invalid slot first, or else the one not used last.
memory_choose_cache(m) ==
  LET s == IF ~ m.slots[1].valid THEN 1
           ELSE IF ~ m.slots[2].valid \/ m.recent = 1 THEN 2 ELSE 1
  IN  [m EXCEPT !.recent = s, !.slots[s].valid = FALSE]

Fill(m, a) ==
  LET sector == a \div SectorBytes
      chosen == memory_choose_cache(m)
      read == ReadSectors(chosen, 1)
      tag == SectorBytes * sector
  IN  IF sector >= Sectors(m) THEN Bad(m)
      ELSE IF read.carry THEN read
      ELSE [read EXCEPT !.slots[chosen.recent] = [valid |-> TRUE, tag |-> tag, sector |-> sector],
                        !.val = FileByte(m, a)]

memory_static(m, a) ==
  LET d == IF m.indexed THEN Good(m, 0) ELSE story_build_index(m)
  IN  CASE d.carry -> d
        [] ~ d.carry /\ Hit(d, 1, a) -> Good([d EXCEPT !.recent = 1], CachedByte(d, 1, a))
        [] ~ d.carry /\ ~ Hit(d, 1, a) /\ Hit(d, 2, a) ->
             Good([d EXCEPT !.recent = 2], CachedByte(d, 2, a))
        [] OTHER -> Fill(d, a)

memory_read_byte(m, a) ==
  LET limit == 2 * Header(m, 26)
  IN  IF a >= 131072 \/ (limit # 0 /\ a >= limit) THEN Bad(m)
      ELSE IF a < DynamicSize(m) THEN Good(m, m.ram[a + 1])
      ELSE memory_static(m, a)

memory_read_word(m, a) ==
  LET hi == memory_read_byte(m, a)
      lo == memory_read_byte(hi, a + 1)
  IN  IF hi.carry THEN hi
      ELSE IF lo.carry THEN lo ELSE Good(lo, 256 * hi.val + lo.val)

\* memory_write_byte and memory_write_word: only dynamic memory is writable.
memory_write_byte(m, a, v) ==
  IF a >= DynamicSize(m) THEN vars_fault(m)
  ELSE [m EXCEPT !.ram[a + 1] = Low(v), !.carry = FALSE]

memory_write_word(m, a, v) ==
  IF a + 1 >= DynamicSize(m) THEN vars_fault(m)
  ELSE [m EXCEPT !.ram[a + 1] = High(v), !.ram[a + 2] = Low(v), !.carry = FALSE]

------------------------------------------------------------------------------
\* The header is read and checked, and dynamic memory is loaded (header_read,
\* memory_load).

HeaderIsValid(m) ==
  /\ m.file[1] = 3
  /\ Header(m, 14) >= 64
  /\ Header(m, 4) >= Header(m, 14)
  /\ Header(m, 6) >= Header(m, 4)

memory_load(m) ==
  LET size == Header(m, 14)
      read == ReadSectors(m, (size + SectorBytes - 1) \div SectorBytes)
  IN  CASE ~ HeaderIsValid(m) -> Halt(m, "header")
        [] HeaderIsValid(m) /\ size > RamBudget -> Halt(m, "layout")
        [] OTHER -> IF read.carry THEN Halt(read, "load")
                    ELSE [read EXCEPT !.ram = SubSeq(m.file, 1, size)]

-----------------------------------------------------------------------------
(***************************************************************************)
(* Z68's output: packed strings (z/text.s), characters and numbers         *)
(* (z/output.s), words wrapped at the edge of the terminal (z/wrap.s) and  *)
(* the capture of the status line (z/status.s).                            *)
(*                                                                         *)
(*   out      the characters sent to the console, a new line as 13         *)
(*   wrap     the word that is being put together, the spaces that wait    *)
(*            before it, and the column                                    *)
(*   status   [on, line, at, limit, clipped]: while on, characters go to   *)
(*            the line                                                     *)
(* Characters are ZSCII codes.                                             *)
(***************************************************************************)

Newline == 13
Space == 32
Question == 63

------------------------------------------------------------------------------
\* Word wrapping.

outch(m, ch) == [m EXCEPT !.out = Append(@, ch)]
pcrlf(m) == outch(m, Newline)

RECURSIVE wrap_space_flush(_)
wrap_space_flush(m) ==
  LET d == IF m.wrap.column >= Columns THEN [pcrlf(m) EXCEPT !.wrap.column = 0] ELSE m
  IN  IF m.wrap.spaces = 0 THEN m
      ELSE wrap_space_flush([outch(d, Space) EXCEPT !.wrap.column = @ + 1, !.wrap.spaces = @ - 1])

\* A mutant: a word fits when it is one longer than the rest of the line.
wrap_word_flush_late(m) ==
  LET w == m.wrap
      fits == w.column + w.spaces + Len(w.word) <= Columns + 1
      broken == IF w.column = 0 THEN m ELSE [pcrlf(m) EXCEPT !.wrap.column = 0]
      d == wrap_space_flush(IF fits THEN m ELSE [broken EXCEPT !.wrap.spaces = 0])
  IN  IF w.word = <<>> THEN m
      ELSE [d EXCEPT !.out = @ \o w.word, !.wrap.column = @ + Len(w.word), !.wrap.word = <<>>]

wrap_word_flush(m) ==
  LET w == m.wrap
      fits == w.column + w.spaces + Len(w.word) <= Columns
      broken == IF w.column = 0 THEN m ELSE [pcrlf(m) EXCEPT !.wrap.column = 0]
      d == wrap_space_flush(IF fits THEN m ELSE [broken EXCEPT !.wrap.spaces = 0])
  IN  IF w.word = <<>> THEN m
      ELSE [d EXCEPT !.out = @ \o w.word, !.wrap.column = @ + Len(w.word), !.wrap.word = <<>>]

wrap_flush(m) == IF m.wrap.on THEN wrap_space_flush(wrap_word_flush(m)) ELSE m
wrap_finish(m) == [wrap_flush(m) EXCEPT !.wrap.on = FALSE]

story_newline(m) ==
  IF m.wrap.on THEN pcrlf([wrap_flush(m) EXCEPT !.wrap.column = 0]) ELSE pcrlf(m)

wrap_putc(m, ch) ==
  LET flushed == wrap_word_flush(m)
      room == IF flushed.wrap.spaces < Columns THEN flushed ELSE wrap_space_flush(flushed)
      append == IF Len(m.wrap.word) < Columns THEN m ELSE flushed
  IN  IF ch = Space THEN [room EXCEPT !.wrap.spaces = @ + 1]
      ELSE [append EXCEPT !.wrap.word = Append(@, ch)]

\* status_putc: characters past the limit of the line are dropped.
status_putc(m, ch) ==
  IF ch \notin 32 .. 126 THEN m
  ELSE IF m.status.at >= m.status.limit THEN [m EXCEPT !.status.clipped = TRUE]
  ELSE [m EXCEPT !.status.line[m.status.at + 1] = ch, !.status.at = @ + 1]

putc(m, ch) ==
  IF m.status.on THEN status_putc(m, ch)
  ELSE IF m.wrap.on THEN wrap_putc(m, ch) ELSE outch(m, ch)

text_emit(m, ch) ==
  CASE ch = 0 -> m
    [] ch = Newline -> IF m.status.on THEN m ELSE story_newline(m)
    [] OTHER -> putc(m, IF ch \in 32 .. 126 THEN ch ELSE Question)

------------------------------------------------------------------------------
\* Packed strings.  t is the state of the decoder: the address of the next word,
\* the Z-characters of the last one that wait, whether it was the last word, the
\* alphabet, the abbreviation and the escape that have begun, the words that may
\* still be read, the decoder of the string that an abbreviation interrupts, and
\* whether the decoding is over.

TextWords == 4096

Decoder(a, words, outer) ==
  [at |-> a, chars |-> <<>>, last |-> FALSE, alphabet |-> 0, abbrev |-> 0,
   escape |-> <<>>, words |-> words, outer |-> outer, over |-> FALSE]

text_a2 == << 0, 13, 48, 49, 50, 51, 52, 53, 54, 55, 56, 57, 46, 44, 33, 63, 95, 35, 39, 34,
              47, 92, 45, 58, 40, 41 >>

ZChars(w) == << (w \div 1024) % 32, (w \div 32) % 32, w % 32 >>

\* A Z-character outside an abbreviation or an escape: c.m and the new decoder.
Regular(m, t, ch) ==
  LET plain == [t EXCEPT !.alphabet = 0]
      letter == ch - 6 + (IF t.alphabet = 1 THEN 65 ELSE 97)
  IN  CASE ch = 0 -> [m |-> text_emit(m, Space), t |-> plain]
        [] ch \in 1 .. 3 -> [m |-> m, t |-> [plain EXCEPT !.abbrev = ch]]
        [] ch \in 4 .. 5 -> [m |-> m, t |-> [t EXCEPT !.alphabet = ch - 3]]
        [] ch >= 6 /\ t.alphabet # 2 -> [m |-> text_emit(m, letter), t |-> plain]
        [] ch = 6 /\ t.alphabet = 2 -> [m |-> m, t |-> [plain EXCEPT !.escape = << "high" >>]]
        [] ch > 6 /\ t.alphabet = 2 -> [m |-> text_emit(m, text_a2[ch - 5]), t |-> plain]

\* The ten bits of an escape; above 255 it is not a character of ZSCII.
Escaped(m, t, ch) ==
  LET hi == t.escape[2]
      shown == IF hi < 8 THEN text_emit(m, 32 * hi + ch) ELSE putc(m, Question)
  IN  IF t.escape = << "high" >> THEN [m |-> m, t |-> [t EXCEPT !.escape = << "low", ch >>]]
      ELSE [m |-> shown, t |-> [t EXCEPT !.escape = <<>>]]

Decoding(m, t) == [m |-> m, t |-> t]
Decoded(m, t) == Decoding(m, [t EXCEPT !.over = TRUE])

\* The next word of the string.
text_get_word(m, t) ==
  LET d == memory_read_word(m, t.at)
      w == d.val
  IN  IF t.words = 0 THEN Decoded(Bad(m), t)
      ELSE IF d.carry THEN Decoded(d, t)
      ELSE Decoding(d, [t EXCEPT !.at = @ + 2, !.chars = ZChars(w), !.last = w >= 32768, !.words = @ - 1])

text_expand(m, t, ch) ==
  LET entry == Header(m, 24) + 2 * (32 * (t.abbrev - 1) + ch)
      d == memory_read_word(m, entry % 65536)
  IN  IF t.outer # <<>> THEN Decoded(Bad(m), t)
      ELSE IF d.carry THEN Decoded(d, t)
      ELSE Decoding(d, Decoder(2 * d.val, t.words, << [t EXCEPT !.abbrev = 0] >>))

\* The end of a string: of the whole, whose end is the result, or of an
\* abbreviation, that must not stop inside an escape or another abbreviation.
text_end(m, t) ==
  IF t.outer = <<>> THEN Decoded(Good(m, t.at), t)
  ELSE IF t.abbrev # 0 \/ t.escape # <<>> THEN Decoded(Bad(m), t)
  ELSE Decoding(m, [t.outer[1] EXCEPT !.words = t.words])

\* A Z-character of the string.
text_step(m, t) ==
  LET ch == Head(t.chars)
      rest == [t EXCEPT !.chars = Tail(@)]
  IN  CASE t.chars = <<>> -> IF t.last THEN text_end(m, t) ELSE text_get_word(m, t)
        [] t.chars # <<>> /\ t.abbrev # 0 -> text_expand(m, rest, ch)
        [] OTHER -> IF t.escape # <<>> THEN Escaped(m, rest, ch) ELSE Regular(m, rest, ch)

\* At most n steps, by halves, as TLC has a small stack: no word of a string takes more
\* than eight.
RECURSIVE text_loop(_, _)
text_loop(x, n) ==
  LET half == n \div 2
  IN  IF x.t.over THEN x
      ELSE IF n = 1 THEN text_step(x.m, x.t)
      ELSE CHOOSE z \in { text_loop(y, half) : y \in { text_loop(x, half) } } : TRUE

text_print(m, a) == text_loop(Decoding(m, Decoder(a, TextWords, <<>>)), 8 * TextWords).m

------------------------------------------------------------------------------
\* The instructions that print.

output_string(m, a) ==
  LET d == text_print(m, a) IN IF d.carry THEN vm_run_error(d) ELSE d

vm_do_print_char(m, ch) ==
  Good(IF ch > 255 THEN putc(m, Question) ELSE text_emit(m, ch), 0)

\* The decimal digits of n.
RECURSIVE Digits(_)
Digits(n) == (IF n < 10 THEN <<>> ELSE Digits(n \div 10)) \o << 48 + (n % 10) >>

RECURSIVE PutAll(_, _)
PutAll(m, s) == IF s = <<>> THEN m ELSE PutAll(putc(m, Head(s)), Tail(s))

vm_do_print_num(m, w) ==
  Good(PutAll(m, IF w < 32768 THEN Digits(w) ELSE << 45 >> \o Digits(65536 - w)), 0)

=============================================================================
