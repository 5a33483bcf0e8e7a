------------------------------ MODULE Z68Objects ------------------------------
(***************************************************************************)
(* Z68's variables and Z-stack (z/vars.s), its objects (z/objects.s) and   *)
(* their properties (z/props.s).                                           *)
(*                                                                         *)
(*   eval     the evaluation stack of the routine that runs                *)
(*   locals   its local variables                                          *)
(*   frames   the callers, the latest last: [pc, store, locals, eval]      *)
(*   inst     the decoded instruction; inst.store is its result variable   *)
(*   r        vm_resolved, the values of its operands.  An instruction     *)
(*            with fewer operands leaves the others of the one before.     *)
(* A frame occupies 12 bytes of the arena and two for each local, and a    *)
(* value on a stack two.                                                   *)
(***************************************************************************)
EXTENDS Z68Text

CONSTANT ArenaBytes      \* the Z-stack arena, 2048 bytes (z68.s)

------------------------------------------------------------------------------
\* The stack and the variables.

FrameBytes == 12

RECURSIVE FramesBytes(_)
FramesBytes(fs) ==
  IF fs = <<>> THEN 0
  ELSE FrameBytes + 2 * Len(Head(fs).eval) + FramesBytes(Tail(fs))
         + 2 * Len(Head(fs).locals)

\* vm_stack_pointer, from the start of the arena.
StackPointer(m) == FramesBytes(m.frames) + 2 * Len(m.locals) + 2 * Len(m.eval)

vars_push(m, w) ==
  IF StackPointer(m) + 2 > ArenaBytes THEN vars_fault(m)
  ELSE Good([m EXCEPT !.eval = Append(@, w)], w)

vars_pop(m) ==
  IF m.eval = <<>> THEN vars_fault(m)
  ELSE Good([m EXCEPT !.eval = SubSeq(@, 1, Len(@) - 1)], m.eval[Len(m.eval)])

\* vars_pointer: where a global variable is, and whether the table is writable.
GlobalAt(m, v) == Header(m, 12) + 2 * (v - 16)
GlobalsFit(m) == Header(m, 12) >= 64 /\ Header(m, 12) + 480 <= DynamicSize(m)

NamedRead(m, v) ==
  CASE v < 16 -> IF v > Len(m.locals) THEN vars_fault(m) ELSE Good(m, m.locals[v])
    [] v >= 16 -> IF ~ GlobalsFit(m) THEN vars_fault(m)
                  ELSE Good(m, 256 * m.ram[GlobalAt(m, v) + 1] + m.ram[GlobalAt(m, v) + 2])

NamedWrite(m, v, w) ==
  CASE v < 16 -> IF v > Len(m.locals) THEN vars_fault(m)
                 ELSE Good([m EXCEPT !.locals[v] = w], w)
    [] v >= 16 -> IF ~ GlobalsFit(m) THEN vars_fault(m)
                  ELSE Good([m EXCEPT !.ram[GlobalAt(m, v) + 1] = High(w),
                                      !.ram[GlobalAt(m, v) + 2] = Low(w)], w)

var_read(m, v) == IF v = 0 THEN vars_pop(m) ELSE NamedRead(m, v)
var_write(m, v, w) == IF v = 0 THEN vars_push(m, w) ELSE NamedWrite(m, v, w)

\* In place, for the instructions that name a variable.
var_peek(m, v) ==
  CASE v # 0 -> NamedRead(m, v)
    [] v = 0 -> IF m.eval = <<>> THEN vars_fault(m) ELSE Good(m, m.eval[Len(m.eval)])
var_replace(m, v, w) ==
  CASE v # 0 -> NamedWrite(m, v, w)
    [] v = 0 -> IF m.eval = <<>> THEN vars_fault(m)
                ELSE Good([m EXCEPT !.eval[Len(m.eval)] = w], w)

vm_store_result(m, w) == var_write(m, m.inst.store, w)

------------------------------------------------------------------------------
\* Objects: 31 default properties of two bytes, then nine bytes for each: four of
\* attributes, its parent, sibling and child, and the address of its properties.

ObjectAt(m, o) == Header(m, 10) + 62 + 9 * (o - 1)
IsObject(m, o) == o \in 1 .. 255 /\ ObjectAt(m, o) + 8 < DynamicSize(m)

Parent == 4
Sibling == 5
Child == 6
Link(m, o, k) == m.ram[ObjectAt(m, o) + k + 1]
SetLink(m, o, k, v) == [m EXCEPT !.ram[ObjectAt(m, o) + k + 1] = v]

\* vm_do_get_parent, _sibling and _child.
GetLink(m, k) ==
  IF ~ IsObject(m, m.r[1]) THEN vars_fault(m) ELSE vm_store_result(m, Link(m, m.r[1], k))

\* object_attribute: the byte, and the bit, of attribute a.
AttributeAt(m) == ObjectAt(m, m.r[1]) + m.r[2] \div 8 + 1
AttributeBit(m) == 2 ^ (7 - (m.r[2] % 8))
HasAttribute(m) == IsObject(m, m.r[1]) /\ m.r[2] <= 31
IsSet(m) == (m.ram[AttributeAt(m)] \div AttributeBit(m)) % 2 = 1

ChangeAttribute(m, set) ==
  IF ~ HasAttribute(m) THEN vars_fault(m)
  ELSE IF IsSet(m) = set THEN Good(m, 0)
  ELSE Good([m EXCEPT !.ram[AttributeAt(m)] =
               IF set THEN @ + AttributeBit(m) ELSE @ - AttributeBit(m)], 0)

vm_do_print_obj(m) ==
  LET a == ObjectAt(m, m.r[1]) + 7
      props == 256 * m.ram[a + 1] + m.ram[a + 2]
      d == memory_read_byte(m, props)
  IN  IF ~ IsObject(m, m.r[1]) THEN vars_fault(m)
      ELSE IF d.carry THEN vm_run_error(d)
      ELSE IF d.val = 0 THEN Good(d, 0) ELSE output_string(d, props + 1)

\* The object before target among the children that begin with o, within a
\* budget of 255 links; 0 when there is none.
RECURSIVE Before(_, _, _, _)
Before(m, o, target, budget) ==
  IF budget = 0 \/ ~ IsObject(m, o) THEN 0
  ELSE IF Link(m, o, Sibling) = target THEN o
  ELSE Before(m, Link(m, o, Sibling), target, budget - 1)

\* A mutant: the list of an object that is not its first is left as it is.
tree_detach_first(m) ==
  LET o == m.r[1]
      parent == Link(m, o, Parent)
      Cleared(d) == Good(SetLink(SetLink(d, o, Parent, 0), o, Sibling, 0), 0)
  IN  IF ~ IsObject(m, o) \/ ~ IsObject(m, parent) \/ Link(m, parent, Child) # o THEN Cleared(m)
      ELSE Cleared(SetLink(m, parent, Child, Link(m, o, Sibling)))

tree_detach(m) ==
  LET o == m.r[1]
      parent == Link(m, o, Parent)
      first == Link(m, parent, Child)
      before == Before(m, first, o, 255)
      Cleared(d) == Good(SetLink(SetLink(d, o, Parent, 0), o, Sibling, 0), 0)
  IN  CASE ~ IsObject(m, o) -> vars_fault(m)
        [] IsObject(m, o) /\ parent = 0 -> Cleared(m)
        [] OTHER -> IF ~ IsObject(m, parent) THEN vars_fault(m)
                    ELSE IF first = o THEN Cleared(SetLink(m, parent, Child, Link(m, o, Sibling)))
                    ELSE IF before = 0 THEN vars_fault(m)
                    ELSE Cleared(SetLink(m, before, Sibling, Link(m, o, Sibling)))

\* Whether target is o or above it, or the links above o do not end.
RECURSIVE IsWithin(_, _, _, _)
IsWithin(m, o, target, budget) ==
  \/ o = target \/ budget = 0 \/ ~ IsObject(m, o)
  \/ /\ Link(m, o, Parent) # 0
     /\ IsWithin(m, Link(m, o, Parent), target, budget - 1)

vm_do_insert_obj(m) ==
  LET o == m.r[1]
      into == m.r[2]
      d == tree_detach(m)
      old == Link(d, into, Child)
      placed == SetLink(SetLink(SetLink(d, into, Child, o), o, Parent, into), o, Sibling, old)
  IN  IF into \notin 1 .. 255 \/ IsWithin(m, into, o % 256, 255) THEN vars_fault(m)
      ELSE IF d.carry THEN d ELSE Good(placed, 0)

------------------------------------------------------------------------------
\* Properties.  A list is read from its first header, of a size and a number; the
\* numbers descend.  p is [at, number, size] for the header that has been read.

\* property_header.  The failure of a read, or of the order, is in the machine.
property_header(m, at, previous) ==
  LET d == memory_read_byte(m, at)
      n == d.val % 32
  IN  IF d.carry THEN vm_run_error(d)
      ELSE IF n >= previous THEN vars_fault(d)
      ELSE Good(d, [at |-> at, number |-> n, size |-> d.val \div 32 + 1])

\* property_start
property_start(m) ==
  LET a == ObjectAt(m, m.r[1]) + 7
      props == 256 * m.ram[a + 1] + m.ram[a + 2]
      d == memory_read_byte(m, props)
      at == props + 2 * d.val + 1
  IN  IF ~ IsObject(m, m.r[1]) THEN vars_fault(m)
      ELSE IF d.carry THEN vm_run_error(d)
      ELSE IF at >= 65536 THEN vars_fault(d)
      ELSE property_header(d, at, 32)

property_advance(m) ==
  LET at == m.val.at + m.val.size + 1
  IN  IF at >= 65536 THEN vars_fault(m) ELSE property_header(m, at, m.val.number)

RECURSIVE SeekProperty(_, _)
SeekProperty(m, n) ==
  IF m.carry \/ m.val.number <= n THEN m ELSE SeekProperty(property_advance(m), n)

property_find(m) ==
  IF m.r[2] \notin 1 .. 31 THEN vars_fault(m) ELSE SeekProperty(property_start(m), m.r[2])

StoreRead(m) == IF m.carry THEN vm_run_error(m) ELSE vm_store_result(m, m.val)

vm_do_get_prop(m) ==
  LET d == property_find(m)
      p == d.val
      default == (Header(m, 10) + 2 * (m.r[2] - 1)) % 65536
  IN  CASE d.carry -> d
        [] ~ d.carry /\ p.number # m.r[2] -> StoreRead(memory_read_word(d, default))
        [] OTHER -> StoreRead(IF p.size = 1 THEN memory_read_byte(d, p.at + 1)
                              ELSE memory_read_word(d, p.at + 1))

vm_do_get_prop_addr(m) ==
  LET d == property_find(m)
  IN  IF d.carry THEN d
      ELSE vm_store_result(d, IF d.val.number = m.r[2] THEN (d.val.at + 1) % 65536 ELSE 0)

vm_do_put_prop(m) ==
  LET d == property_find(m)
      p == d.val
  IN  IF d.carry THEN d
      ELSE IF p.number # m.r[2] \/ p.size > 2 THEN vars_fault(d)
      ELSE IF p.size = 1 THEN memory_write_byte(d, p.at + 1, m.r[3])
      ELSE memory_write_word(d, p.at + 1, m.r[3])

vm_do_get_prop_len(m) ==
  LET d == memory_read_byte(m, m.r[1] - 1)
  IN  IF m.r[1] = 0 THEN vm_store_result(m, 0)
      ELSE IF d.carry THEN vm_run_error(d) ELSE vm_store_result(d, d.val \div 32 + 1)

vm_do_get_next_prop(m) ==
  LET d == property_find(m)
      next == IF m.r[2] = 0 THEN property_start(m)
              ELSE IF d.carry THEN d
              ELSE IF d.val.number # m.r[2] THEN vars_fault(d) ELSE property_advance(d)
  IN  IF next.carry THEN next ELSE vm_store_result(next, next.val.number)
=============================================================================
