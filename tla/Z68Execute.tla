------------------------------ MODULE Z68Execute ------------------------------
(***************************************************************************)
(* Z68's instructions: the decoder (z/decode.s), the table of opcodes      *)
(* (z/opcodes.s), branches (z/branch.s), calls and returns (z/calls.s),    *)
(* arithmetic (z/math.s), random numbers (z/random.s), arrays (z/arrays.s) *)
(* and the check of the file (z/verify.s).                                 *)
(*                                                                         *)
(*   pc    the address of the next byte of code                            *)
(*   inst  [op, types, values, store, branch]                              *)
(*   rnd   the two halves of the generator's state                         *)
(*   entropy  what the next reseeding mixes in                             *)
(***************************************************************************)
EXTENDS Z68Objects, Bitwise

------------------------------------------------------------------------------
\* The table of opcodes, of version 3; "" is invalid.

Opcodes ==
  [op0 |-> << "rtrue", "rfalse", "print", "print_ret", "nop", "save", "restore", "restart",
              "ret_popped", "pop", "quit", "new_line", "show_status", "verify" >>,
   op1 |-> << "jz", "get_sibling", "get_child", "get_parent", "get_prop_len", "inc", "dec",
              "print_addr", "", "remove_obj", "print_obj", "ret", "jump", "print_paddr", "load",
              "not" >>,
   op2 |-> << "", "je", "jl", "jg", "dec_chk", "inc_chk", "jin", "test", "or", "and",
              "test_attr", "set_attr", "clear_attr", "store", "insert_obj", "loadw", "loadb",
              "get_prop", "get_prop_addr", "get_next_prop", "add", "sub", "mul", "div", "mod" >>,
   var |-> << "call", "storew", "storeb", "put_prop", "sread", "print_char", "print_num",
              "random", "push", "pull", "split_window", "set_window", "", "", "", "", "", "", "",
              "output_stream", "input_stream", "sound_effect" >>]

Stores == { "get_sibling", "get_child", "get_parent", "get_prop_len", "load", "not", "or", "and",
            "loadw", "loadb", "get_prop", "get_prop_addr", "get_next_prop", "add", "sub", "mul",
            "div", "mod", "call", "random" }
Branches == { "save", "restore", "verify", "jz", "get_sibling", "get_child", "je", "jl", "jg",
              "dec_chk", "inc_chk", "jin", "test", "test_attr" }
Unimplemented == { "save", "restore", "restart", "split_window", "set_window", "output_stream",
                   "input_stream", "sound_effect" }

op_lookup(class, n) == IF n < Len(Opcodes[class]) THEN Opcodes[class][n + 1] ELSE ""

------------------------------------------------------------------------------
\* The decoder.

vm_fetch(m) ==
  LET d == memory_read_byte(m, m.pc) IN IF d.carry THEN d ELSE [d EXCEPT !.pc = @ + 1]

Large == 0
Small == 1
Variable == 2
Omitted == 3

vm_decode_operand(m, type) ==
  LET hi == vm_fetch(m)
      lo == vm_fetch(hi)
      Added(d, w) == [d EXCEPT !.inst.types = Append(@, type), !.inst.values = Append(@, w)]
  IN  IF m.carry \/ hi.carry THEN Bad(m)
      ELSE IF type # Large THEN Added(hi, hi.val)
      ELSE IF lo.carry THEN lo ELSE Added(lo, 256 * hi.val + lo.val)

\* The operands that a byte of types announces.
RECURSIVE vm_type_loop(_, _, _)
vm_type_loop(m, bits, n) ==
  LET type == (bits \div 64) % 4
  IN  IF n = 0 \/ m.carry \/ type = Omitted THEN m
      ELSE vm_type_loop(vm_decode_operand(m, type), (4 * bits) % 256, n - 1)

vm_variable(m, class, n) ==
  LET d == vm_fetch([m EXCEPT !.inst.op = op_lookup(class, n)])
  IN  IF d.carry THEN d ELSE vm_type_loop(d, d.val, 4)

vm_long(m, b) ==
  LET Type(bit) == IF (b \div bit) % 2 = 1 THEN Variable ELSE Small
      named == [m EXCEPT !.inst.op = op_lookup("op2", b % 32)]
  IN  vm_decode_operand(vm_decode_operand(named, Type(64)), Type(32))

Form(m, b) ==
  LET short == [m EXCEPT !.inst.op = op_lookup(IF b \div 16 = 11 THEN "op0" ELSE "op1", b % 16)]
  IN  CASE b < 128 -> vm_long(m, b)
        [] b \in 128 .. 175 -> vm_decode_operand(short, (b \div 16) % 4)
        [] b \in 176 .. 191 -> short
        [] b \in 192 .. 223 -> vm_variable(m, "op2", b % 32)
        [] b >= 224 -> vm_variable(m, "var", b % 32)

StoreSuffix(m) ==
  LET d == vm_fetch(m)
  IN  IF m.carry \/ m.inst.op \notin Stores THEN m
      ELSE IF d.carry THEN d ELSE [d EXCEPT !.inst.store = d.val]

\* A branch of one byte, or of two.
BranchSuffix(m) ==
  LET one == vm_fetch(m)
      two == vm_fetch(one)
  IN  IF m.carry \/ m.inst.op \notin Branches THEN m
      ELSE IF one.carry THEN one
      ELSE IF (one.val \div 64) % 2 = 1 THEN [one EXCEPT !.inst.branch = << one.val, 0 >>]
      ELSE IF two.carry THEN two
      ELSE [two EXCEPT !.inst.branch = << one.val, two.val >>]

NoInstruction == [op |-> "", types |-> <<>>, values |-> <<>>, store |-> 0, branch |-> << 0, 0 >>]

vm_decode(m) ==
  LET first == vm_fetch([m EXCEPT !.inst = NoInstruction])
      d == Form(first, first.val)
      named == IF ~ d.carry /\ d.inst.op = "" THEN Bad(d) ELSE d
  IN  IF first.carry THEN first ELSE BranchSuffix(StoreSuffix(named))

\* vm_resolve: the operands are read from left to right.
RECURSIVE ResolveFrom(_, _)
ResolveFrom(m, n) ==
  LET w == m.inst.values[n]
      d == IF m.inst.types[n] = Variable THEN var_read(m, w) ELSE Good(m, w)
  IN  IF n > Len(m.inst.types) THEN Good(m, 0)
      ELSE IF d.carry THEN d ELSE ResolveFrom([d EXCEPT !.r[n] = d.val], n + 1)

------------------------------------------------------------------------------
\* Returns, branches and calls.

vm_do_quit(m) == [m EXCEPT !.halt = "quit", !.carry = TRUE]

vm_return(m, w) ==
  LET f == m.frames[Len(m.frames)]
      caller == [m EXCEPT !.frames = SubSeq(@, 1, Len(@) - 1), !.pc = f.pc, !.locals = f.locals,
                          !.eval = f.eval, !.inst.store = f.store]
  IN  IF m.frames = <<>> THEN vm_do_quit(m) ELSE vm_store_result(caller, w)

\* branch_jump: the offset is a signed word.
branch_jump(m, offset) ==
  LET pc == m.pc + Signed(offset) - 2
  IN  IF pc \notin 0 .. 131071 THEN vars_fault(m) ELSE Good([m EXCEPT !.pc = pc], 0)

BranchOffset(b) ==
  LET far == (b[1] % 64) * 256 + b[2]
  IN  IF (b[1] \div 64) % 2 = 1 THEN b[1] % 64
      ELSE IF far < 8192 THEN far ELSE 49152 + far

vm_branch(m, condition) ==
  LET offset == BranchOffset(m.inst.branch)
  IN  IF (m.inst.branch[1] >= 128) # condition THEN Good(m, 0)
      ELSE IF offset <= 1 THEN vm_return(m, offset) ELSE branch_jump(m, offset)

\* The bytes of the callee's header: its locals' values, of which the arguments
\* replace the first.
RECURSIVE call_local_loop(_, _, _)
call_local_loop(m, i, n) ==
  LET d == memory_read_word(m, m.pc)
      w == IF i + 1 < Len(m.inst.types) THEN m.r[i + 2] ELSE d.val
  IN  IF i = n THEN Good(m, 0)
      ELSE IF d.carry THEN vm_run_error(d)
      ELSE call_local_loop([d EXCEPT !.pc = @ + 2, !.locals = Append(@, w)], i + 1, n)

vm_do_call(m) ==
  LET d == memory_read_byte(m, 2 * m.r[1])
      n == d.val
      frame == [pc |-> m.pc, store |-> m.inst.store, locals |-> m.locals, eval |-> m.eval]
      called == [d EXCEPT !.frames = Append(@, frame), !.locals = <<>>, !.eval = <<>>,
                          !.pc = 2 * m.r[1] + 1]
  IN  CASE m.inst.types = <<>> -> vars_fault(m)
        [] m.inst.types # <<>> /\ m.r[1] = 0 -> vm_store_result(m, 0)
        [] OTHER -> IF d.carry THEN vm_run_error(d)
                    ELSE IF n > 15 \/ StackPointer(d) + FrameBytes + 2 * n > ArenaBytes
                      THEN vars_fault(d)
                    ELSE call_local_loop(called, 0, n)

------------------------------------------------------------------------------
\* Arithmetic.

vm_do_div(m, modulo) ==
  LET a == Signed(m.r[1])
      b == Signed(m.r[2])
      Abs(n) == IF n < 0 THEN -n ELSE n
      q == Abs(a) \div Abs(b)
      r == Abs(a) % Abs(b)
      value == IF modulo THEN (IF a < 0 THEN -r ELSE r)
               ELSE IF (a < 0) # (b < 0) THEN -q ELSE q
  IN  IF b = 0 THEN vars_fault(m) ELSE vm_store_result(m, value % 65536)

\* rnd_next: xorshift32 on two words; the result is the high word.
rnd_next(s) ==
  LET s0 == IF s = << 0, 0 >> THEN << 0, 165 >> ELSE s
      s1 == << s0[1] ^^ ((s0[1] * 8192 + s0[2] \div 8) % 65536),
               s0[2] ^^ ((s0[2] * 8192) % 65536) >>
      s2 == << s1[1], s1[2] ^^ (s1[1] \div 2) >>
  IN  << s2[1] ^^ ((s2[1] * 32 + s2[2] \div 2048) % 65536),
         s2[2] ^^ ((s2[2] * 32) % 65536) >>

RECURSIVE rnd_warm(_, _)
rnd_warm(s, n) == IF n = 0 THEN s ELSE rnd_warm(rnd_next(s), n - 1)

rnd_init(m) ==
  [m EXCEPT !.rnd = rnd_warm(<< @[1] ^^ m.entropy[1], @[2] ^^ m.entropy[2] >>, 8)]

\* Draws below the threshold are rejected, so that each result is as likely.
RECURSIVE rnd_draw(_, _)
rnd_draw(s, range) ==
  LET t == rnd_next(s) IN IF t[1] < 65536 % range THEN rnd_draw(t, range) ELSE t

vm_do_random(m) ==
  LET range == Signed(m.r[1])
      ready == IF m.rnd = << 0, 0 >> THEN rnd_init(m) ELSE m
      s == rnd_draw(ready.rnd, range)
      seed == << m.r[1] ^^ 27947, m.r[1] ^^ 31221 >>
  IN  CASE Len(m.inst.types) # 1 -> vars_fault(m)
        [] Len(m.inst.types) = 1 /\ range > 0 ->
             vm_store_result([ready EXCEPT !.rnd = s], (s[1] % range) + 1)
        [] Len(m.inst.types) = 1 /\ range < 0 ->
             vm_store_result([m EXCEPT !.rnd = rnd_warm(seed, 8)], 0)
        [] Len(m.inst.types) = 1 /\ range = 0 -> vm_store_result(rnd_init(m), 0)

\* The sum of the file's bytes from lo to hi - 1.
RECURSIVE SumBytes(_, _, _)
SumBytes(m, lo, hi) ==
  IF lo + 1 >= hi THEN (IF lo < hi THEN FileByte(m, lo) ELSE 0)
  ELSE SumBytes(m, lo, (lo + hi) \div 2) + SumBytes(m, (lo + hi) \div 2, hi)

\* The file itself is read past the header, a sector at a time (vm_do_verify).
RECURSIVE VerifyFrom(_, _, _)
VerifyFrom(m, a, sum) ==
  LET d == memory_static(m, a)
      end == 2 * Header(m, 26)
      next == SectorBytes * (a \div SectorBytes + 1)
      upto == IF next < end THEN next ELSE end
  IN  IF a >= end THEN Good(m, sum)
      ELSE IF d.carry THEN d ELSE VerifyFrom(d, upto, (sum + SumBytes(d, a, upto)) % 65536)

------------------------------------------------------------------------------
\* Instructions that name a variable.  Each checks how many operands it has.

Operands(m, n) == Len(m.inst.types) = n

OnTarget(m, n, Op(_, _)) ==
  IF ~ Operands(m, n) \/ m.r[1] > 255 THEN vars_fault(m) ELSE Op(m, m.r[1])

Increment(m, v, by) ==
  LET d == var_peek(m, v)
  IN  IF d.carry THEN d ELSE var_replace(d, v, (d.val + by) % 65536)

\* inc_chk and dec_chk do not check the number.
vm_do_inc_chk(m, by) ==
  LET d == Increment(m, m.r[1], by)
      past == IF by > 0 THEN Signed(d.val) > Signed(m.r[2]) ELSE Signed(d.val) < Signed(m.r[2])
  IN  IF m.r[1] > 255 THEN vars_fault(m) ELSE IF d.carry THEN d ELSE vm_branch(d, past)

vm_do_load(m, v) ==
  LET d == var_peek(m, v) IN IF d.carry THEN d ELSE vm_store_result(d, d.val)

vm_do_pull(m, v) ==
  LET d == vars_pop(m) IN IF d.carry THEN d ELSE var_replace(d, v, d.val)

vm_do_ret_popped(m) ==
  LET d == vars_pop(m) IN IF d.carry THEN d ELSE vm_return(d, d.val)

\* get_sibling and get_child store and branch.
LinkBranch(m, k) ==
  LET d == GetLink(m, k) IN IF d.carry THEN d ELSE vm_branch(d, Link(m, m.r[1], k) # 0)

vm_do_print(m) ==
  LET d == text_print(m, m.pc)
  IN  IF d.carry THEN vm_run_error(d) ELSE Good([d EXCEPT !.pc = d.val], 0)

vm_do_print_ret(m) ==
  LET d == vm_do_print(m) IN IF d.carry THEN d ELSE vm_return(story_newline(d), 1)

vm_do_verify(m) ==
  LET d == VerifyFrom(m, 64, 0)
  IN  IF Header(m, 26) = 0 THEN vm_branch(m, FALSE)
      ELSE IF d.carry THEN vm_branch(d, FALSE) ELSE vm_branch(d, d.val = Header(m, 28))

------------------------------------------------------------------------------
\* The instructions, by the kind of their operands.

Zero(m, op) ==
  CASE op = "rtrue" -> vm_return(m, 1)
    [] op = "rfalse" -> vm_return(m, 0)
    [] op = "print" -> vm_do_print(m)
    [] op = "print_ret" -> vm_do_print_ret(m)
    [] op = "nop" -> Good(m, 0)
    [] op = "ret_popped" -> vm_do_ret_popped(m)
    [] op = "pop" -> vars_pop(m)
    [] op = "quit" -> vm_do_quit(m)
    [] op = "new_line" -> Good(story_newline(m), 0)
    [] op = "verify" -> vm_do_verify(m)

One(m, op) ==
  CASE op = "jz" -> vm_branch(m, m.r[1] = 0)
    [] op = "get_sibling" -> LinkBranch(m, Sibling)
    [] op = "get_child" -> LinkBranch(m, Child)
    [] op = "get_parent" -> GetLink(m, Parent)
    [] op = "get_prop_len" -> vm_do_get_prop_len(m)
    [] op = "inc" -> OnTarget(m, 1, LAMBDA d, v : Increment(d, v, 1))
    [] op = "dec" -> OnTarget(m, 1, LAMBDA d, v : Increment(d, v, -1))
    [] op = "print_addr" -> output_string(m, m.r[1])
    [] op = "remove_obj" -> tree_detach(m)
    [] op = "print_obj" -> vm_do_print_obj(m)
    [] op = "ret" -> IF Operands(m, 1) THEN vm_return(m, m.r[1]) ELSE vars_fault(m)
    [] op = "jump" -> branch_jump(m, m.r[1])
    [] op = "print_paddr" -> output_string(m, 2 * m.r[1])
    [] op = "load" -> OnTarget(m, 1, vm_do_load)
    [] op = "not" -> vm_store_result(m, 65535 - m.r[1])

Comparison(m, op) ==
  LET a == Signed(m.r[1])
      b == Signed(m.r[2])
  IN  CASE op = "je" -> IF Len(m.inst.types) < 2 THEN vars_fault(m)
                        ELSE vm_branch(m, \E k \in 2 .. Len(m.inst.types) : m.r[k] = m.r[1])
        [] op = "jl" -> vm_branch(m, a < b)
        [] op = "jg" -> vm_branch(m, a > b)
        [] op = "dec_chk" -> vm_do_inc_chk(m, -1)
        [] op = "inc_chk" -> vm_do_inc_chk(m, 1)
        [] op = "jin" -> IF ~ IsObject(m, m.r[1]) THEN vars_fault(m)
                         ELSE vm_branch(m, Link(m, m.r[1], Parent) = m.r[2])
        [] op = "test" -> vm_branch(m, (m.r[1] & m.r[2]) = m.r[2])
        [] op = "test_attr" -> IF ~ HasAttribute(m) THEN vars_fault(m) ELSE vm_branch(m, IsSet(m))

Two(m, op) ==
  CASE op \in Branches -> Comparison(m, op)
    [] op = "or" -> vm_store_result(m, m.r[1] | m.r[2])
    [] op = "and" -> vm_store_result(m, m.r[1] & m.r[2])
    [] op = "set_attr" -> ChangeAttribute(m, TRUE)
    [] op = "clear_attr" -> ChangeAttribute(m, FALSE)
    [] op = "store" -> OnTarget(m, 2, LAMBDA d, v : var_replace(d, v, d.r[2]))
    [] op = "insert_obj" -> vm_do_insert_obj(m)
    [] op = "loadw" -> StoreRead(memory_read_word(m, m.r[1] + 2 * m.r[2]))
    [] op = "loadb" -> StoreRead(memory_read_byte(m, m.r[1] + m.r[2]))
    [] op = "get_prop" -> vm_do_get_prop(m)
    [] op = "get_prop_addr" -> vm_do_get_prop_addr(m)
    [] op = "get_next_prop" -> vm_do_get_next_prop(m)
    [] op = "add" -> vm_store_result(m, (m.r[1] + m.r[2]) % 65536)
    [] op = "sub" -> vm_store_result(m, (m.r[1] - m.r[2]) % 65536)
    [] op = "mul" -> vm_store_result(m, (Signed(m.r[1]) * Signed(m.r[2])) % 65536)
    [] op = "div" -> vm_do_div(m, FALSE)
    [] op = "mod" -> vm_do_div(m, TRUE)

\* sread is in Z68.
Var(m, op) ==
  CASE op = "call" -> vm_do_call(m)
    [] op = "storew" -> memory_write_word(m, m.r[1] + 2 * m.r[2], m.r[3])
    [] op = "storeb" -> memory_write_byte(m, m.r[1] + m.r[2], m.r[3])
    [] op = "put_prop" -> vm_do_put_prop(m)
    [] op = "print_char" -> vm_do_print_char(m, m.r[1])
    [] op = "print_num" -> vm_do_print_num(m, m.r[1])
    [] op = "random" -> vm_do_random(m)
    [] op = "push" -> IF Operands(m, 1) THEN vars_push(m, m.r[1]) ELSE vars_fault(m)
    [] op = "pull" -> OnTarget(m, 1, vm_do_pull)
=============================================================================
