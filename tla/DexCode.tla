------------------------------ MODULE DexCode ------------------------------
(* slicer's code IR (dexer/code_ir.cc, bytecode_encoder.cc,                *)
(* debuginfo_encoder.cc, tryblocks_encoder.cc, instrumentation.cc,         *)
(* control_flow_graph.cc and slicer/intrusive_list.h): one method body is  *)
(* raised into a linked list of instructions, labels, try markers and      *)
(* debug annotations, transformed, and lowered again.                      *)
(*                                                                         *)
(* An encoded instruction is [op, f, org]: its opcode, its raw unsigned    *)
(* bit fields in the order of its format, and the position it has in the   *)
(* method given to the library (0 for one that the library adds), which    *)
(* nothing reads but the properties.  A payload is [op, keys, to, org].    *)
(* Offsets count 16-bit code units, as in the source.                      *)
EXTENDS Integers, Sequences, FiniteSets, SequencesExt

CONSTANTS
  Bits4, Bits8, Bits16, \* widths of the fields of a code unit: 4, 8 and 16 bits
  Jobs        \* [method, plan]: a method body and the transformations queued for it

ASSUME WidthAssumption ==
  /\ {Bits4, Bits8, Bits16} \subseteq Nat \ {0}
  /\ Bits4 <= Bits8 /\ Bits8 <= Bits16

Bits32 == 2 * Bits16
Bits64 == 4 * Bits16

VARIABLES
  method,     \* the method body as it was given
  plan,       \* the transformations to apply, in order
  phase,      \* what the library does next
  lir,        \* the code IR
  code,       \* ir::Code: what the encoders write back
  enc,        \* the encoder's buffer and fixups
  at          \* instruction to decode, transformations applied, or node to encode

vars == <<method, plan, phase, lir, code, enc, at>>

Invalid == -1          \* kInvalidOffset
Nil == -1              \* a null pointer to a node
LineBase == -4
LineRange == 15
\* The method indexes of the hooks, and of the method that is detoured.
EntryHookMethod == 1
ExitHookMethod == 2
DetourMethod == 3
PrintEnter == 4
DetouredMethod == 5
MethodDescString == 1
-----------------------------------------------------------------------------
(* Opcodes: format, index type, wide registers, flags.                     *)
Row(f, i, w, fl) == [fmt |-> f, index |-> i, wide |-> w, flags |-> fl]
Go == {"continue"}
May == {"continue", "throw"}

Ops == [
  nop             |-> Row("kFmt10x", "none", {}, Go),
  return_void     |-> Row("kFmt10x", "none", {}, {"return"}),
  move            |-> Row("kFmt12x", "none", {}, Go),
  move_from16     |-> Row("kFmt22x", "none", {}, Go),
  move_16         |-> Row("kFmt32x", "none", {}, Go),
  move_wide_16    |-> Row("kFmt32x", "none", {"A", "B"}, Go),
  move_object_16  |-> Row("kFmt32x", "none", {}, Go),
  move_object     |-> Row("kFmt12x", "none", {}, Go),
  move_result     |-> Row("kFmt11x", "none", {}, Go),
  move_result_wide |-> Row("kFmt11x", "none", {"A"}, Go),
  move_result_object |-> Row("kFmt11x", "none", {}, Go),
  return          |-> Row("kFmt11x", "none", {}, {"return"}),
  return_wide     |-> Row("kFmt11x", "none", {"A"}, {"return"}),
  return_object   |-> Row("kFmt11x", "none", {}, {"return"}),
  throw           |-> Row("kFmt11x", "none", {}, {"throw"}),
  const_4         |-> Row("kFmt11n", "none", {}, Go),
  const_16        |-> Row("kFmt21s", "none", {}, Go),
  const           |-> Row("kFmt31i", "none", {}, Go),
  const_high16    |-> Row("kFmt21h", "none", {}, Go),
  const_wide      |-> Row("kFmt51l", "none", {"A"}, Go),
  const_wide_high16 |-> Row("kFmt21h", "none", {"A"}, Go),
  goto            |-> Row("kFmt10t", "none", {}, {"branch"}),
  goto_16         |-> Row("kFmt20t", "none", {}, {"branch"}),
  goto_32         |-> Row("kFmt30t", "none", {}, {"branch"}),
  if_eqz          |-> Row("kFmt21t", "none", {}, {"continue", "branch"}),
  if_eq           |-> Row("kFmt22t", "none", {}, {"continue", "branch"}),
  packed_switch   |-> Row("kFmt31t", "none", {}, {"continue", "switch"}),
  sparse_switch   |-> Row("kFmt31t", "none", {}, {"continue", "switch"}),
  fill_array_data |-> Row("kFmt31t", "none", {}, Go),
  add_int         |-> Row("kFmt23x", "none", {}, Go),
  add_double      |-> Row("kFmt23x", "none", {"A", "B", "C"}, Go),
  add_int_lit8    |-> Row("kFmt22b", "none", {}, Go),
  add_int_lit16   |-> Row("kFmt22s", "none", {}, Go),
  iget            |-> Row("kFmt22c", "field", {}, May),
  const_string    |-> Row("kFmt21c", "string", {}, May),
  const_string_jumbo |-> Row("kFmt31c", "string", {}, May),
  invoke_virtual  |-> Row("kFmt35c", "method", {}, May \cup {"invoke"}),
  invoke_static   |-> Row("kFmt35c", "method", {}, May \cup {"invoke"}),
  invoke_virtual_range |-> Row("kFmt3rc", "method", {}, May \cup {"invoke"}),
  invoke_static_range  |-> Row("kFmt3rc", "method", {}, May \cup {"invoke"})]

Payloads == {"packed_payload", "sparse_payload", "array_payload"}
Flags(op) == Ops[op].flags

\* The fields of a format, in the order A, B, C: what each holds, how wide.
\* "regs" is the argument list of 35c, "count" the length of a range.
Fields(fmt) ==
  CASE fmt = "kFmt10x" -> <<>>
    [] fmt = "kFmt11x" -> <<<<"reg", Bits8>>>>
    [] fmt = "kFmt12x" -> <<<<"reg", Bits4>>, <<"reg", Bits4>>>>
    [] fmt = "kFmt22x" -> <<<<"reg", Bits8>>, <<"reg", Bits16>>>>
    [] fmt = "kFmt32x" -> <<<<"reg", Bits16>>, <<"reg", Bits16>>>>
    [] fmt = "kFmt11n" -> <<<<"reg", Bits4>>, <<"const", Bits4>>>>
    [] fmt = "kFmt21s" -> <<<<"reg", Bits8>>, <<"const", Bits16>>>>
    [] fmt = "kFmt31i" -> <<<<"reg", Bits8>>, <<"const", Bits32>>>>
    [] fmt = "kFmt51l" -> <<<<"reg", Bits8>>, <<"const", Bits64>>>>
    [] fmt = "kFmt21h" -> <<<<"reg", Bits8>>, <<"high", Bits16>>>>
    [] fmt = "kFmt23x" -> <<<<"reg", Bits8>>, <<"reg", Bits8>>, <<"reg", Bits8>>>>
    [] fmt = "kFmt22b" -> <<<<"reg", Bits8>>, <<"reg", Bits8>>, <<"const", Bits8>>>>
    [] fmt = "kFmt22s" -> <<<<"reg", Bits4>>, <<"reg", Bits4>>, <<"const", Bits16>>>>
    [] fmt = "kFmt22c" -> <<<<"reg", Bits4>>, <<"reg", Bits4>>, <<"index", Bits16>>>>
    [] fmt = "kFmt21c" -> <<<<"reg", Bits8>>, <<"index", Bits16>>>>
    [] fmt = "kFmt31c" -> <<<<"reg", Bits8>>, <<"index", Bits32>>>>
    [] fmt = "kFmt35c" -> <<<<"regs", Bits4>>, <<"index", Bits16>>>>
    [] fmt = "kFmt3rc" -> <<<<"range", Bits16>>, <<"index", Bits16>>>>
    [] fmt = "kFmt10t" -> <<<<"branch", Bits8>>>>
    [] fmt = "kFmt20t" -> <<<<"branch", Bits16>>>>
    [] fmt = "kFmt30t" -> <<<<"branch", Bits32>>>>
    [] fmt = "kFmt21t" -> <<<<"reg", Bits8>>, <<"branch", Bits16>>>>
    [] fmt = "kFmt31t" -> <<<<"reg", Bits8>>, <<"branch", Bits32>>>>
    [] fmt = "kFmt22t" -> <<<<"reg", Bits4>>, <<"reg", Bits4>>, <<"branch", Bits16>>>>

WidthOf(fmt) ==
  CASE fmt \in {"kFmt10x", "kFmt11x", "kFmt12x", "kFmt11n", "kFmt10t"} -> 1
    [] fmt \in {"kFmt32x", "kFmt31i", "kFmt31c", "kFmt31t", "kFmt30t", "kFmt35c", "kFmt3rc"} -> 3
    [] fmt = "kFmt51l" -> 5
    [] OTHER -> 2

\* GetWidthFromBytecode: payloads are as wide as their contents.
Width(i) ==
  CASE i.op = "packed_payload" -> 4 + 2 * Len(i.to)
    [] i.op = "sparse_payload" -> 2 + 4 * Len(i.to)
    [] i.op = "array_payload"  -> 4 + (i.keys[1] + 1) \div 2
    [] OTHER -> WidthOf(Ops[i.op].fmt)

\* The offset of instruction i, or of the end.
OffsetOf(insns, i) ==
  LET after[k \in 0..Len(insns)] == IF k = 0 THEN 0 ELSE after[k - 1] + Width(insns[k])
  IN after[i - 1]
Size(insns) == OffsetOf(insns, Len(insns) + 1)

Fits(v, bits) == v \in 0..(2 ^ bits - 1)
Signed(v, bits) == IF v >= 2 ^ (bits - 1) THEN v - 2 ^ bits ELSE v
Starts(insns) == {OffsetOf(insns, i) : i \in 1..Len(insns)}

SwitchKind(op) == CASE op \in {"packed_switch", "packed_payload"} -> "packed"
                    [] op \in {"sparse_switch", "sparse_payload"} -> "sparse"

PayloadOf == [packed_switch |-> "packed_payload", sparse_switch |-> "sparse_payload"]

\* The instructions after which the next one is not reached.
Leaves(op) == op = "throw" \/ Flags(op) \cap {"branch", "switch", "return"} # {}

\* What is given is a method that has been loaded: its instructions have the
\* operands of their formats, a switch refers to a payload of its kind, the
\* last instruction is a payload or does not go on (rule B17 of the comment
\* in control_flow_graph.cc), try ranges are in order, apart and made of
\* instructions, and the words of its parameters are counted.
IsSequence(s) == Len(s) \in Nat /\ s = [k \in 1..Len(s) |-> s[k]]

OperandsOK(i) ==
  LET fs == Fields(Ops[i.op].fmt) IN
  /\ i.op \in DOMAIN Ops
  /\ IsSequence(i.f) /\ Len(i.f) = Len(fs)
  /\ \A k \in DOMAIN fs :
       CASE fs[k][1] = "regs" -> i.f[k] \in Seq(Nat)
         [] fs[k][1] = "range" -> i.f[k] \in Nat \X Nat
         [] OTHER -> i.f[k] \in 0..(2 ^ fs[k][2] - 1)

PayloadOK(i) ==
  /\ i.to \in Seq(Int)
  /\ i.op = "array_payload" => i.keys[1] \in Nat

InstructionsOK(insns) ==
  /\ IsSequence(insns)
  /\ \A j \in DOMAIN insns :
       LET i == insns[j] IN
       /\ i.org = j
       /\ IF i.op \in Payloads THEN PayloadOK(i) ELSE OperandsOK(i)
       /\ i.op \in DOMAIN PayloadOf =>
            \E k \in DOMAIN insns :
              /\ insns[k].op = PayloadOf[i.op]
              /\ OffsetOf(insns, k) = OffsetOf(insns, j) + Signed(i.f[2], Bits32)
  /\ insns # <<>> => LET last == insns[Len(insns)].op IN last \in Payloads \/ Leaves(last)

TriesOK(m) ==
  /\ IsSequence(m.tries)
  /\ \A k \in DOMAIN m.tries :
       LET t == m.tries[k] IN
       /\ {t.start, t.start + t.count} \subseteq Starts(m.insns) \cup {Size(m.insns)}
       /\ t.start \in Nat /\ t.count \in Nat \ {0} /\ t.all \in Int
       /\ IsSequence(t.handlers)
       /\ \A h \in DOMAIN t.handlers : t.handlers[h][2] \in Int
       /\ k > 1 => m.tries[k - 1].start + m.tries[k - 1].count <= t.start

LocalEvents == {"start_local", "start_local_extended", "end_local", "restart_local"}
DebugEvents == {"advance_pc", "advance_line", "prologue_end", "epilogue_begin", "file", "special"}
                 \cup LocalEvents

DebugOK(d) ==
  d # <<>> => /\ IsSequence(d.data)
              /\ \A k \in DOMAIN d.data :
                   /\ IsSequence(d.data[k]) /\ d.data[k][1] \in DebugEvents
                   /\ d.data[k][1] \in {"advance_pc", "special"} => d.data[k][2] \in Nat

ASSUME JobsAssumption ==
  \A j \in Jobs :
    /\ InstructionsOK(j.method.insns) /\ TriesOK(j.method) /\ DebugOK(j.method.debug)
    /\ j.method.params \in Seq({"wide", "reference", "scalar"}) /\ j.method.ins \in Nat
-----------------------------------------------------------------------------
(* The intrusive list.  Node 0 is the end sentinel.                        *)

With(f, x, v) == [y \in DOMAIN f \cup {x} |-> IF y = x THEN v ELSE f[y]]

InsertBefore(r, pos, p) ==
  LET q == r.prev[pos] IN
  [r EXCEPT !.prev = With(With(@, pos, p), p, q),
            !.next = With(IF pos = r.begin THEN @ ELSE With(@, q, p), p, pos),
            !.begin = IF pos = @ THEN p ELSE @]

\* The nodes from n to the end.
Walk(r, n) ==
  LET walk[m \in DOMAIN r.next] == IF m = 0 THEN <<>> ELSE <<m>> \o walk[r.next[m]]
  IN walk[n]
Chain(r) == Walk(r, r.begin)

Alloc(r, n) == [r EXCEPT !.node = Append(@, n)]
Newest(r) == Len(r.node)
Checked(r, c) == [r EXCEPT !.ok = @ /\ c]

CodeNode(op, args, off, org) == [kind |-> "code", op |-> op, args |-> args, off |-> off, org |-> org]
IsCode(r, n) == r.node[n].kind = "code"

\* A new instruction of the library, inserted before pos.
Added(r, pos, op, args) ==
  LET a == Alloc(r, CodeNode(op, args, Invalid, 0)) IN InsertBefore(a, pos, Newest(a))

VReg(r, v) == [r EXCEPT !.reg = Append(@, v)]
-----------------------------------------------------------------------------
(* Raising.                                                                *)
GetLabel(r, off) ==
  IF off \in DOMAIN r.label THEN r
  ELSE LET a == Alloc(r, [kind |-> "label", off |-> off, aligned |-> FALSE, org |-> 0])
       IN [a EXCEPT !.label = With(@, off, Newest(a))]

Slot(r, k, off) ==
  IF off \in DOMAIN r.switches[k] THEN r.switches[k][off]
  ELSE [instr |-> Nil, base |-> Invalid]

\* A reference from code to a label; payloads are aligned and remember
\* the switch that their targets are relative to.
RaiseBranch(r, op, off, rel) ==
  LET to == off + rel
      a == GetLabel(r, to)
      l == a.label[to]
      b == IF Ops[op].fmt = "kFmt31t" THEN [a EXCEPT !.node[l].aligned = TRUE] ELSE a
  IN IF "switch" \in Flags(op)
     THEN LET k == SwitchKind(op) IN
          [Checked(b, Slot(b, k, to).base = Invalid) EXCEPT
             !.switches[k] = With(@, to, [Slot(b, k, to) EXCEPT !.base = off])]
     ELSE b

\* Operand k of an encoded instruction: [r |-> new code IR, arg |-> operand].
RaiseOperand(r, i, off, k) ==
  LET fd == Fields(Ops[i.op].fmt)[k]
      raw == i.f[k]
      wide == <<"A", "B", "C">>[k] \in Ops[i.op].wide
  IN CASE fd[1] = "reg" ->
            [r |-> VReg(r, raw), arg |-> <<IF wide THEN "pair" ELSE "reg", Len(r.reg) + 1>>]
       [] fd[1] = "const" -> [r |-> r, arg |-> <<"const", Signed(raw, fd[2])>>]
       [] fd[1] = "high" ->
            [r |-> r, arg |-> <<"const", raw * 2 ^ (IF wide THEN 3 * Bits16 ELSE Bits16)>>]
       [] fd[1] = "index" -> [r |-> r, arg |-> <<"index", raw>>]
       [] fd[1] = "regs" -> [r |-> Checked(r, Len(raw) <= 5), arg |-> <<"regs", raw>>]
       [] fd[1] = "range" -> [r |-> r, arg |-> <<"range", raw>>]
       [] fd[1] = "branch" ->
            LET b == RaiseBranch(r, i.op, off, Signed(raw, fd[2]))
            IN [r |-> b, arg |-> <<"label", b.label[off + Signed(raw, fd[2])]>>]

AddOperand(i, off, acc, k) ==
  LET o == RaiseOperand(acc.r, i, off, k) IN [r |-> o.r, args |-> Append(acc.args, o.arg)]

DecodeBytecode(r, i, off) ==
  LET all == FoldLeft(LAMBDA acc, k : AddOperand(i, off, acc, k), [r |-> r, args |-> <<>>],
                      [k \in 1..Len(i.f) |-> k])
  IN Alloc(all.r, CodeNode(i.op, all.args, off, i.org))

\* The targets of a payload are left to FixupSwitches.
DecodeSwitch(r, i, off) ==
  LET k == SwitchKind(i.op)
      s == Slot(r, k, off)
      a == Alloc(Checked(r, off % 2 = 0 /\ s.instr = Nil),
                 [kind |-> k, keys |-> i.keys, to |-> <<>>, off |-> off, org |-> i.org])
  IN [a EXCEPT !.switches[k] = With(@, off, [s EXCEPT !.instr = Newest(a)])]

DecodeArrayData(r, i, off) ==
  Alloc(Checked(r, off % 2 = 0), [kind |-> "array", keys |-> i.keys, off |-> off, org |-> i.org])

DecodeNext ==
  LET i == method.insns[at]
      off == OffsetOf(method.insns, at)
      a == CASE i.op \in {"packed_payload", "sparse_payload"} -> DecodeSwitch(lir, i, off)
             [] i.op = "array_payload" -> DecodeArrayData(lir, i, off)
             [] OTHER -> DecodeBytecode(lir, i, off)
  IN /\ phase = "bytecode" /\ lir.ok
     /\ lir' = InsertBefore(a, 0, Newest(a))
     /\ IF at = Len(method.insns) THEN phase' = "tries" /\ at' = 0
                                  ELSE phase' = phase /\ at' = at + 1
     /\ UNCHANGED <<method, plan, code, enc>>

AddHandler(acc, h) ==
  LET a == GetLabel(acc.r, h[2]) IN [r |-> a, hs |-> Append(acc.hs, <<h[1], a.label[h[2]]>>)]

RaiseHandlers(r, hs) == FoldLeft(AddHandler, [r |-> r, hs |-> <<>>], hs)

RaiseTry(r, t) ==
  LET b == Alloc(r, [kind |-> "try_begin", off |-> t.start, org |-> 0])
      h == RaiseHandlers(b, t.handlers)
      c == IF t.all = Invalid THEN h.r ELSE GetLabel(h.r, t.all)
      e == Alloc(Checked(c, t.handlers # <<>> \/ t.all # Invalid),
             [kind |-> "try_end", off |-> t.start + t.count, begin |-> Newest(b), org |-> 0,
              handlers |-> h.hs, all |-> IF t.all = Invalid THEN Nil ELSE c.label[t.all]])
  IN [e EXCEPT !.begins = Append(@, Newest(b)), !.ends = Append(@, Newest(e))]

DissasembleTryBlocks ==
  /\ phase = "tries" /\ lir.ok
  /\ lir' = FoldLeft(RaiseTry, lir, method.tries)
  /\ phase' = "debug"
  /\ UNCHANGED <<method, plan, code, enc, at>>

\* The debug state machine: [r, addr, line]; positions become lines.
DbgNode(r, op, args, off) ==
  LET a == Alloc(r, [kind |-> "dbg", op |-> op, args |-> args, off |-> off, org |-> 0])
  IN [a EXCEPT !.dbgs = Append(@, Newest(a))]

RaiseDebug(s, e) ==
  LET regs == VReg(s.r, e[2])
      reg == <<"reg", Len(regs.reg)>>
  IN CASE e[1] = "advance_pc" -> [s EXCEPT !.addr = @ + e[2]]
       [] e[1] = "advance_line" -> [s EXCEPT !.line = @ + e[2]]
       [] e[1] \in {"start_local", "start_local_extended", "end_local", "restart_local"} ->
            [s EXCEPT !.r = DbgNode(regs, e[1], 
                                   <<reg>> \o [k \in 1..(Len(e) - 2) |-> <<"index", e[k + 2]>>],
                                   s.addr)]
       [] e[1] \in {"prologue_end", "epilogue_begin"} ->
            [s EXCEPT !.r = DbgNode(s.r, e[1], <<>>, s.addr)]
       [] e[1] = "file" -> [s EXCEPT !.r = DbgNode(s.r, "file", <<<<"index", e[2]>>>>, s.addr)]
       [] e[1] = "special" ->
            LET line == s.line + LineBase + (e[2] % LineRange)
                addr == s.addr + (e[2] \div LineRange)
            IN [r |-> DbgNode(s.r, "advance_line", <<<<"line", line>>>>, addr), addr |-> addr, line |-> line]

DissasembleDebugInfo ==
  LET d == method.debug
      names == IF d.names = <<>> THEN lir ELSE DbgNode(lir, "header", <<<<"names", d.names>>>>, 0)
      first == DbgNode(DbgNode(names, "file", <<<<"index", method.file>>>>, 0),
                       "advance_line", <<<<"line", d.line>>>>, 0)
  IN /\ phase = "debug" /\ lir.ok
     /\ lir' = IF d = <<>> THEN lir
               ELSE FoldLeft(RaiseDebug, [r |-> first, addr |-> 0, line |-> d.line], d.data).r
     /\ phase' = "merge"
     /\ UNCHANGED <<method, plan, code, enc, at>>

AddTarget(base, acc, rel) ==
  LET a == GetLabel(acc.r, base + rel)
  IN [r |-> a, to |-> Append(acc.to, a.label[base + rel])]

FixupSwitch(r, k, off) ==
  LET s == r.switches[k][off]
      payload == CHOOSE j \in DOMAIN method.insns :
                   OffsetOf(method.insns, j) = off /\ method.insns[j].op \in Payloads
      all == FoldLeft(LAMBDA acc, rel : AddTarget(s.base, acc, rel), [r |-> r, to |-> <<>>],
                      method.insns[payload].to)
  IN [all.r EXCEPT !.node[s.instr].to = all.to]

Ordered(S) == [k \in 1..Cardinality(S) |-> CHOOSE x \in S : Cardinality({y \in S : y < x}) = k - 1]

FixupSwitches(r) ==
  LET packed == FoldLeft(LAMBDA a, off : FixupSwitch(a, "packed", off), r,
                         Ordered(DOMAIN r.switches.packed))
  IN FoldLeft(LAMBDA a, off : FixupSwitch(a, "sparse", off), packed,
              Ordered(DOMAIN r.switches.sparse))

\* The first node from `it` on that has the offset, or the end.
Seek(r, it, off) ==
  LET rest == Walk(r, it)
      k == SelectInSeq(rest, LAMBDA n : r.node[n].off = off)
  IN IF k = 0 THEN 0 ELSE rest[k]

\* One pass over the list: m = [r, it].
MergeOne(m, n) ==
  LET it == Seek(m.r, m.it, m.r.node[n].off)
  IN [r |-> InsertBefore(m.r, it, n), it |-> it]

MergeInstructions(r, extra) ==
  LET sorted == \A i \in 1..(Len(extra) - 1) : r.node[extra[i]].off <= r.node[extra[i + 1]].off
  IN FoldLeft(MergeOne, [r |-> Checked(r, sorted), it |-> r.begin], extra).r

Merge ==
  LET f == FixupSwitches(lir)
      labels == [k \in 1..Cardinality(DOMAIN f.label) |-> f.label[Ordered(DOMAIN f.label)[k]]]
  IN /\ phase = "merge" /\ lir.ok
     /\ lir' = FoldLeft(MergeInstructions, f, <<f.dbgs, f.begins, labels, f.ends>>)
     /\ phase' = "transform"
     /\ UNCHANGED <<method, plan, code, enc, at>>
-----------------------------------------------------------------------------
(* Transformations (instrumentation.cc, and the probe of native-lib.cpp).  *)
FirstBytecode(r) ==
  LET c == Chain(r)
      k == SelectInSeq(c, LAMBDA n : IsCode(r, n))
  IN IF k = 0 THEN Nil ELSE c[k]

RegRange(base, count) == <<"range", <<base, count>>>>
Index(i) == <<"index", i>>


\* EntryHook::Apply: a call with all the parameters before the first bytecode.
EntryHook(r) ==
  IF FirstBytecode(r) = Nil THEN r
  ELSE Added(r, FirstBytecode(r), "invoke_static_range",
             <<RegRange(code.regs - code.ins, code.ins), Index(EntryHookMethod)>>)

MoveResult == [return |-> "move_result", return_object |-> "move_result_object",
               return_wide |-> "move_result_wide"]

\* ExitHook::Apply at one return; the moved result shares the return's operand.
HookReturn(r, n) ==
  LET nd == r.node[n] IN
  IF ~IsCode(r, n) \/ "return" \notin Flags(nd.op) THEN r
  ELSE IF nd.op = "return_void"
  THEN Added(Checked(r, method.ret = "void"), n, "invoke_static_range",
             <<RegRange(0, 0), Index(ExitHookMethod)>>)
  ELSE LET reg == nd.args[1]
           call == Added(Checked(r, method.ret # "void"), n, "invoke_static_range",
                     <<RegRange(r.reg[reg[2]], IF nd.op = "return_wide" THEN 2 ELSE 1),
                       Index(ExitHookMethod)>>)
       IN Added(call, n, MoveResult[nd.op], <<reg>>)

ExitHook(r) == FoldLeft(HookReturn, r, Chain(r))

Detoured == [invoke_virtual |-> "invoke_static", invoke_virtual_range |-> "invoke_static_range"]

Detour(r, n) ==
  LET nd == r.node[n] IN
  IF IsCode(r, n) /\ nd.op \in DOMAIN Detoured /\ nd.args[2] = Index(DetouredMethod)
  THEN [r EXCEPT !.node[n].op = Detoured[nd.op], !.node[n].args[2] = Index(DetourMethod)]
  ELSE r

DetourVirtualInvoke(r) == FoldLeft(Detour, r, Chain(r))

\* Slip: argument lists are forgotten.
RenumberOne(r, n, k, shift) ==
  LET a == r.node[n].args[k] IN
  IF a[1] \in {"reg", "pair"} THEN [r EXCEPT !.reg[a[2]] = @ + shift] ELSE r

\* RegsRenumberVisitor, at operand k of node n.
RenumberArg(r, n, k, shift) ==
  LET a == r.node[n].args[k] IN
  CASE a[1] \in {"reg", "pair"} -> [r EXCEPT !.reg[a[2]] = @ + shift]
    [] a[1] = "regs" -> [r EXCEPT !.node[n].args[k][2] = [j \in DOMAIN a[2] |-> a[2][j] + shift]]
    [] a[1] = "range" -> [r EXCEPT !.node[n].args[k][2][1] = @ + shift]
    [] OTHER -> r

RenumberNode(r, n, shift) ==
  IF r.node[n].kind \notin {"code", "dbg"} THEN r
  ELSE FoldLeft(LAMBDA b, k : RenumberArg(b, n, k, shift), r,
                [k \in 1..Len(r.node[n].args) |-> k])

Renumber(r, shift) == FoldLeft(LAMBDA b, n : RenumberNode(b, n, shift), r, Chain(r))

\* ShiftParams: the parameters that now arrive `shift` registers higher are
\* moved back, in a prologue before everything else.  m = [r, reg].
ShiftParam(first, shift, m, type) ==
  LET wide == type = "wide"
      tag == IF wide THEN "pair" ELSE "reg"
      vs == VReg(VReg(m.r, m.reg - shift), m.reg)
      k == Len(m.r.reg)
  IN [r |-> Added(vs, first, CASE wide -> "move_wide_16"
                               [] type = "reference" -> "move_object_16"
                               [] type = "scalar" -> "move_16",
                  <<<<tag, k + 1>>, <<tag, k + 2>>>>),
      reg |-> m.reg + IF wide THEN 2 ELSE 1]

ShiftParams(r, regs, shift) ==
  FoldLeft(LAMBDA m, type : ShiftParam(r.begin, shift, m, type),
           [r |-> Checked(r, regs >= code.ins), reg |-> regs - code.ins], method.params).r

\* How many scratch registers RegsRenumbering can take below 16.
Renumbered(t) ==
  LET room == 2 ^ Bits4 - code.regs
      delta == IF t.count < room THEN t.count ELSE room
  IN IF code.ins = 0 \/ ~t.renumber \/ delta < 1 THEN 0 ELSE delta

AllocateScratchRegs(r, t) ==
  LET delta == Renumbered(t)
      low == IF delta = 0 THEN r ELSE Renumber(r, delta)
  IN IF code.ins = 0 \/ delta = t.count THEN low
     ELSE ShiftParams(low, code.regs + t.count, t.count - delta)

Apply(t) ==
  /\ phase = "transform" /\ lir.ok /\ at < Len(plan) /\ plan[at + 1].t = t
  /\ at' = at + 1
  /\ UNCHANGED <<method, plan, phase, enc>>

ApplyEntryHook == Apply("entry") /\ lir' = EntryHook(lir) /\ UNCHANGED code
ApplyExitHook == Apply("exit") /\ lir' = ExitHook(lir) /\ UNCHANGED code
ApplyDetour == Apply("detour") /\ lir' = DetourVirtualInvoke(lir) /\ UNCHANGED code
ApplyAllocateScratchRegs ==
  /\ Apply("scratch")
  /\ lir' = Checked(AllocateScratchRegs(lir, plan[at + 1]),
                    code.regs + plan[at + 1].count <= 2 ^ Bits16)
  /\ code' = [code EXCEPT !.regs = @ + plan[at + 1].count]

\* ClassTransform: printEnter(this, description) before everything else.
ApplyProbe ==
  LET locals == code.regs - code.ins
      more == IF locals < 1 THEN 1 - locals ELSE 0
      this == more + code.regs - code.ins
      k == Len(lir.reg)
      vs == VReg(VReg(VReg(lir, 0), 1), this)
      moved == Added(vs, lir.begin, "move_object", <<<<"reg", k + 1>>, <<"reg", k + 3>>>>)
      named == Added(moved, lir.begin, "const_string", <<<<"reg", k + 2>>, Index(MethodDescString)>>)
  IN /\ Apply("probe")
     /\ lir' = Added(named, lir.begin, "invoke_static", <<<<"regs", <<0, 1>>>>, Index(PrintEnter)>>)
     /\ code' = [code EXCEPT !.regs = @ + more]
-----------------------------------------------------------------------------
(* Lowering.                                                               *)
NewEncoder == [ok |-> TRUE, off |-> 0, insns |-> <<>>, outs |-> 0, fixups |-> <<>>,
               switches |-> [packed |-> <<>>, sparse |-> <<>>]]

Assemble ==
  /\ phase = "transform" /\ lir.ok /\ at = Len(plan)
  /\ lir' = [lir EXCEPT !.node = [n \in DOMAIN @ |-> [@[n] EXCEPT !.off = Invalid]]]
  /\ enc' = NewEncoder
  /\ at' = lir.begin
  /\ phase' = "encode"
  /\ UNCHANGED <<method, plan, code>>

\* Each Lower operator gives the field and whether the encoder's checks pass.
LowerReg(r, arg, wide, bits) ==
  LET v == r.reg[arg[2]] IN
  [f |-> v, ok |-> arg[1] = (IF wide THEN "pair" ELSE "reg") /\ Fits(v, bits)]

LowerConst(v, bits) ==
  [f |-> v % 2 ^ bits, ok |-> v \in (-(2 ^ (bits - 1)))..(2 ^ (bits - 1) - 1)]

LowerHigh(v, wide) ==
  LET f == v \div 2 ^ (IF wide THEN 3 * Bits16 ELSE Bits16) IN [f |-> f, ok |-> Fits(f, Bits16)]

LowerIndex(v, bits) == [f |-> v, ok |-> Fits(v, bits)]

LowerArgs(arg) ==
  [f |-> arg[2],
   ok |-> IF arg[1] = "regs"
          THEN Fits(Len(arg[2]), Bits4) /\ \A k \in DOMAIN arg[2] : Fits(arg[2][k], Bits4)
          ELSE Fits(arg[2][1], Bits16) /\ Fits(arg[2][2], Bits8)]

\* A branch to a label already placed; to a later one it is left 0 and fixed up.
LowerBranch(r, off, label, fmt, bits) ==
  LET to == r.node[label].off
      rel == (to - off) % 2 ^ Bits32
  IN IF to = Invalid THEN [f |-> 0, ok |-> TRUE]
     ELSE [f |-> rel % 2 ^ bits,
           ok |-> /\ fmt = "kFmt30t" \/ rel # 0
                  /\ bits = Bits32 \/ rel >= 2 ^ Bits32 - 2 ^ Bits16]

LowerOperand(r, e, op, arg, k) ==
  LET fmt == Ops[op].fmt
      fd == Fields(fmt)[k]
      wide == <<"A", "B", "C">>[k] \in Ops[op].wide
  IN CASE fd[1] = "reg" -> LowerReg(r, arg, wide, fd[2])
       [] fd[1] = "const" -> LowerConst(arg[2], fd[2])
       [] fd[1] = "high" -> LowerHigh(arg[2], wide)
       [] fd[1] = "index" -> LowerIndex(arg[2], fd[2])
       [] fd[1] \in {"regs", "range"} -> LowerArgs(arg)
       [] fd[1] = "branch" -> LowerBranch(r, e.off, arg[2], fmt, fd[2])

OneRange(arg) == IF arg[1] = "regs" THEN Len(arg[2]) ELSE 1   \* a slip
ArgCount(arg) == IF arg[1] = "regs" THEN Len(arg[2]) ELSE arg[2][2]

\* Visit(Bytecode*); a goto always becomes a goto/16.
EncodeBytecode(r, e, n) ==
  LET nd == r.node[n]
      op == IF nd.op = "goto" THEN "goto_16" ELSE nd.op
      fs == Fields(Ops[op].fmt)
      low == [k \in DOMAIN nd.args |-> LowerOperand(r, e, op, nd.args[k], k)]
      open == {k \in DOMAIN fs : fs[k][1] = "branch" /\ r.node[nd.args[k][2]].off = Invalid}
  IN [e EXCEPT !.ok = @ /\ Len(nd.args) = Len(fs) /\ \A k \in DOMAIN low : low[k].ok,
               !.insns = Append(@, [op |-> op, f |-> [k \in DOMAIN low |-> low[k].f], org |-> nd.org]),
               !.off = @ + WidthOf(Ops[op].fmt),
               !.fixups = @ \o [k \in 1..Cardinality(open) |->
                  [at |-> Len(e.insns) + 1, off |-> e.off, label |-> nd.args[Len(fs)][2],
                   short |-> fs[Len(fs)][2] = Bits16]],
               !.outs = IF "invoke" \in Flags(op) /\ ArgCount(nd.args[1]) > @
                        THEN ArgCount(nd.args[1]) ELSE @]

EncodeSwitch(r, e, n) ==
  LET nd == r.node[n]
      i == [op |-> IF nd.kind = "packed" THEN "packed_payload" ELSE "sparse_payload",
            keys |-> nd.keys, to |-> [k \in DOMAIN nd.to |-> 0], org |-> nd.org]
  IN [e EXCEPT !.ok = @ /\ e.off % 2 = 0 /\ e.off \notin DOMAIN e.switches[nd.kind],
               !.switches[nd.kind] = With(@, e.off, [node |-> n, at |-> Len(e.insns) + 1]),
               !.insns = Append(@, i),
               !.off = @ + Width(i)]

EncodeArrayData(r, e, n) ==
  LET i == [op |-> "array_payload", keys |-> r.node[n].keys, org |-> r.node[n].org]
  IN [e EXCEPT !.ok = @ /\ e.off % 2 = 0, !.insns = Append(@, i), !.off = @ + Width(i)]

NoPad(nd, e) == e   \* a slip
PadFor(nd, e) ==
  IF nd.aligned /\ e.off % 2 = 1
  THEN [e EXCEPT !.insns = Append(@, [op |-> "nop", f |-> <<>>, org |-> 0]), !.off = @ + 1]
  ELSE e

EncodeNext ==
  LET nd == lir.node[at]
      e == CASE nd.kind = "code" -> EncodeBytecode(lir, enc, at)
             [] nd.kind \in {"packed", "sparse"} -> EncodeSwitch(lir, enc, at)
             [] nd.kind = "array" -> EncodeArrayData(lir, enc, at)
             [] nd.kind = "label" -> PadFor(nd, enc)
             [] OTHER -> enc
  IN /\ phase = "encode" /\ enc.ok /\ at # 0
     /\ enc' = e
     /\ lir' = [lir EXCEPT !.node[at].off = IF nd.kind = "label" THEN e.off ELSE enc.off]
     /\ at' = lir.next[at]
     /\ UNCHANGED <<method, plan, phase, code>>

FixupLabel(e, fx) ==
  LET rel == (lir.node[fx.label].off - fx.off) % 2 ^ Bits32
      k == Len(e.insns[fx.at].f)
  IN [e EXCEPT !.ok = @ /\ rel # 0 /\ (fx.short => Fits(rel, Bits16)),
               !.insns[fx.at].f[k] = rel]

FixupSwitchOffset(e, j) ==
  LET i == e.insns[j]
      off == OffsetOf(e.insns, j)
      k == SwitchKind(i.op)
      there == off + Signed(i.f[2], Bits32)
      s == e.switches[k][there]
      to == lir.node[s.node].to
  IN IF i.op \notin {"packed_switch", "sparse_switch"} THEN e
     ELSE IF there \notin DOMAIN e.switches[k] THEN [e EXCEPT !.ok = FALSE]
     ELSE [e EXCEPT !.insns[s.at].to = [m \in DOMAIN to |-> lir.node[to[m]].off - off]]

Fixup ==
  LET labelled == FoldLeft(FixupLabel, enc, enc.fixups)
      e == FoldLeft(FixupSwitchOffset, labelled, [j \in 1..Len(enc.insns) |-> j])
  IN /\ phase = "encode" /\ enc.ok /\ at = 0
     /\ enc' = e
     /\ code' = [code EXCEPT !.insns = e.insns, !.outs = e.outs]
     /\ phase' = "lines"
     /\ UNCHANGED <<method, plan, lir, at>>

\* DebugInfoEncoder: d = [ok, out, start, last, addr, file, names].
EncodeDbg(d, nd) ==
  LET near == IF d.addr = nd.off THEN d
              ELSE [d EXCEPT !.ok = @ /\ nd.off > d.addr, !.addr = nd.off,
                             !.out = Append(@, <<"advance_pc", nd.off - d.addr>>)]
      value(k) == IF nd.args[k][1] = "reg" THEN lir.reg[nd.args[k][2]] ELSE nd.args[k][2]
      put(es) == [near EXCEPT !.out = @ \o es]
      line == nd.args[1][2]
      delta == line - d.last
  IN CASE nd.op = "header" -> [d EXCEPT !.names = nd.args[1][2]]
       [] nd.op = "advance_line" /\ d.start = 0 ->
            [near EXCEPT !.ok = @ /\ line >= 0, !.start = line, !.last = line]
       [] nd.op = "advance_line" /\ d.start # 0 ->
            [(IF delta - LineBase \in 0..(LineRange - 1) THEN put(<<<<"special", delta - LineBase>>>>)
              ELSE put(<<<<"advance_line", delta>>, <<"special", -LineBase>>>>)) EXCEPT !.last = line]
       [] nd.op = "file" ->
            IF line = d.file THEN near ELSE [put(<<<<"file", line>>>>) EXCEPT !.file = line]
       [] OTHER -> put(<<<<nd.op>> \o [k \in DOMAIN nd.args |-> value(k)]>>)

EncodeDebugInfo ==
  LET d == FoldLeft(
             LAMBDA acc, n : IF lir.node[n].kind = "dbg" THEN EncodeDbg(acc, lir.node[n]) ELSE acc,
             [ok |-> TRUE, out |-> <<>>, start |-> 0, last |-> 0, addr |-> 0,
              file |-> method.file, names |-> <<>>], Chain(lir))
  IN /\ phase = "lines" /\ enc.ok
     /\ code' = IF method.debug = <<>> THEN code
                ELSE [code EXCEPT !.debug = [line |-> d.start, names |-> d.names, data |-> d.out]]
     /\ enc' = [enc EXCEPT !.ok = method.debug = <<>> \/ d.ok]
     /\ phase' = "handlers"
     /\ UNCHANGED <<method, plan, lir, at>>

\* Slip: the end for the length.
LowerTryEnd(nd) ==
  [start |-> lir.node[nd.begin].off, count |-> nd.off,
   handlers |-> [k \in DOMAIN nd.handlers |-> <<nd.handlers[k][1], lir.node[nd.handlers[k][2]].off>>],
   all |-> IF nd.all = Nil THEN Invalid ELSE lir.node[nd.all].off]

LowerTry(nd) ==
  LET begin == lir.node[nd.begin].off IN
  [start |-> begin, count |-> nd.off - begin,
   handlers |-> [k \in DOMAIN nd.handlers |-> <<nd.handlers[k][1], lir.node[nd.handlers[k][2]].off>>],
   all |-> IF nd.all = Nil THEN Invalid ELSE lir.node[nd.all].off]

EncodeTryBlocks ==
  LET tries == FoldLeft(
        LAMBDA ts, n : IF lir.node[n].kind = "try_end" THEN Append(ts, LowerTry(lir.node[n])) ELSE ts,
        <<>>, Chain(lir))
  IN /\ phase = "handlers" /\ enc.ok
     /\ code' = [code EXCEPT !.tries = tries]
     /\ enc' = [enc EXCEPT !.ok = \A k \in DOMAIN tries : tries[k].count \in 1..(2 ^ Bits16 - 1)]
     /\ phase' = "done"
     /\ UNCHANGED <<method, plan, lir, at>>
-----------------------------------------------------------------------------
NewLir == [ok |-> TRUE, begin |-> 0, next |-> With(<<>>, 0, Nil), prev |-> With(<<>>, 0, Nil), node |-> <<>>,
           reg |-> <<>>, label |-> <<>>, switches |-> [packed |-> <<>>, sparse |-> <<>>],
           begins |-> <<>>, ends |-> <<>>, dbgs |-> <<>>]

Init ==
  /\ \E j \in Jobs : method = j.method /\ plan = j.plan
  /\ phase = "start"
  /\ lir = NewLir
  /\ code = [regs |-> method.regs, ins |-> method.ins, outs |-> method.outs,
             insns |-> method.insns, tries |-> method.tries, debug |-> method.debug]
  /\ enc = NewEncoder
  /\ at = 0

\* InstrumentMethod: abstract methods are refused.
Start ==
  /\ phase = "start"
  /\ IF method.insns = <<>> THEN phase' = "refused" /\ at' = 0
                            ELSE phase' = "bytecode" /\ at' = 1
  /\ UNCHANGED <<method, plan, lir, code, enc>>

\* InstrumentMethod has returned.
Finished == phase \in {"done", "refused"} /\ UNCHANGED vars

Next == \/ Finished \/ Start \/ DecodeNext \/ DissasembleTryBlocks \/ DissasembleDebugInfo \/ Merge
        \/ ApplyEntryHook \/ ApplyExitHook \/ ApplyDetour \/ ApplyAllocateScratchRegs \/ ApplyProbe
        \/ Assemble \/ EncodeNext \/ Fixup \/ EncodeDebugInfo \/ EncodeTryBlocks

Spec == Init /\ [][Next]_vars
-----------------------------------------------------------------------------
(* Basic blocks (control_flow_graph.cc).  b = [st, first, out].            *)
StartBlock(b, n) == [b EXCEPT !.st = "header", !.first = n]

EndBlock(b, n) ==
  [b EXCEPT !.st = "outside",
            !.out = IF b.st = "body" THEN Append(@, [first |-> b.first, last |-> n]) ELSE @]

Exits(op, exceptions) ==
  IF exceptions THEN Flags(op) \cap {"branch", "switch", "throw", "return"} # {}
  ELSE Leaves(op)

\* Slip: a label does not end a block.
VisitCode(r, b, n, exceptions) ==
  LET open == IF b.st = "outside" THEN StartBlock(b, n) ELSE b
      body == [open EXCEPT !.st = "body"]
  IN CASE r.node[n].kind = "code" -> IF Exits(r.node[n].op, exceptions) THEN EndBlock(body, n) ELSE body
       [] r.node[n].kind \in {"label", "dbg"} -> open
       [] OTHER -> IF b.st = "outside" THEN b ELSE EndBlock(b, r.prev[n])

VisitBlock(r, b, n, exceptions) ==
  LET nd == r.node[n]
      open == IF b.st = "outside" THEN StartBlock(b, n) ELSE b
  IN CASE nd.kind = "code" ->
            LET body == [open EXCEPT !.st = "body"]
            IN IF Exits(nd.op, exceptions) THEN EndBlock(body, n) ELSE body
       [] nd.kind = "label" -> IF b.st = "body" THEN StartBlock(EndBlock(b, r.prev[n]), n) ELSE open
       [] nd.kind = "dbg" -> open
       [] OTHER -> IF b.st = "outside" THEN b ELSE EndBlock(b, r.prev[n])

CreateBasicBlocks(r, exceptions) ==
  FoldLeft(LAMBDA b, n : VisitBlock(r, b, n, exceptions),
           [st |-> "outside", first |-> Nil, out |-> <<>>], Chain(r))
-----------------------------------------------------------------------------
(* What a method body means: everything below is said of original          *)
(* instructions, named by org, whatever the library puts between them.     *)
\* The original instruction that is reached first from an offset.
OrgAt(insns, off) ==
  LET later == {insns[i].org : i \in {j \in DOMAIN insns : OffsetOf(insns, j) >= off}} \ {0}
  IN IF off \notin Starts(insns) \cup {Size(insns)} THEN Invalid
     ELSE IF later = {} THEN Len(method.insns) + 1
     ELSE CHOOSE o \in later : \A p \in later : o <= p

At(insns, o) == CHOOSE i \in DOMAIN insns : insns[i].org = o
Own(insns) == {i \in DOMAIN insns : insns[i].org # 0}

KeyOf(i, k) == IF i.op = "packed_payload" THEN i.keys[1] + k - 1 ELSE i.keys[k]

\* Where an instruction may go besides the next one: the switch's case (0 for
\* a branch) and the offset.
Landing(insns, i) ==
  LET off == OffsetOf(insns, i)
      fs == Fields(Ops[insns[i].op].fmt)
      to == off + Signed(insns[i].f[Len(fs)], fs[Len(fs)][2])
      load == CHOOSE j \in DOMAIN insns : OffsetOf(insns, j) = to
  IN IF insns[i].op \in Payloads \/ fs = <<>> \/ fs[Len(fs)][1] # "branch" THEN {}
     ELSE IF "switch" \in Flags(insns[i].op) /\ to \in Starts(insns)
     THEN {<<KeyOf(insns[load], k), off + insns[load].to[k]>> : k \in DOMAIN insns[load].to}
     ELSE {<<0, to>>}
Targets(insns, i) == {<<l[1], OrgAt(insns, l[2])>> : l \in Landing(insns, i)}

\* All the offsets that control reaches otherwise than from the instruction before.
Landings(body) ==
  {l[2] : l \in UNION {Landing(body.insns, i) : i \in DOMAIN body.insns}}
    \cup UNION {{t.all} \cup {t.handlers[k][2] : k \in DOMAIN t.handlers} : t \in ToSet(body.tries)}

Catches(body, i) ==
  LET off == OffsetOf(body.insns, i) IN
  {<<[k \in DOMAIN t.handlers |-> <<t.handlers[k][1], OrgAt(body.insns, t.handlers[k][2])>>],
     IF t.all = Invalid THEN Invalid ELSE OrgAt(body.insns, t.all)>> :
   t \in {t \in ToSet(body.tries) : off >= t.start /\ off < t.start + t.count}}

\* The debug events: what, at which original instruction, and the line then.
RunDebug(insns, d) ==
  LET step(s, e) ==
        CASE e[1] = "advance_pc" -> [s EXCEPT !.addr = @ + e[2]]
          [] e[1] = "advance_line" -> [s EXCEPT !.line = @ + e[2]]
          [] e[1] = "special" ->
               LET line == s.line + LineBase + (e[2] % LineRange)
                   addr == s.addr + (e[2] \div LineRange)
               IN [line |-> line, addr |-> addr,
                   out |-> Append(s.out, <<OrgAt(insns, addr), "line", line>>)]
          [] OTHER -> [s EXCEPT !.out = Append(@, <<OrgAt(insns, s.addr)>> \o e)]
  IN IF d = <<>> THEN <<>> ELSE FoldLeft(step, [addr |-> 0, line |-> d.line, out |-> <<>>], d.data).out

\* The registers an instruction names.
Named(i) ==
  IF i.op \in Payloads THEN <<>>
  ELSE LET fs == Fields(Ops[i.op].fmt) IN
       FlattenSeq([k \in DOMAIN fs |->
         CASE fs[k][1] = "reg" -> <<i.f[k]>>
           [] fs[k][1] = "regs" -> i.f[k]
           [] fs[k][1] = "range" -> [j \in 1..i.f[k][2] |-> i.f[k][1] + j - 1]
           [] OTHER -> <<>>])

\* The library runs these before the first original instruction.
Prologue(insns) == SubSeq(insns, 1, At(insns, 1) - 1)

\* The register file after a sequence of moves and constants.
RunMoves(file, insns) ==
  FoldLeft(LAMBDA m, i :
    CASE i.op = "move_wide_16" ->
           [m EXCEPT ![i.f[1]] = m[i.f[2]], ![i.f[1] + 1] = m[i.f[2] + 1]]
      [] i.op \in {"move_16", "move_object_16", "move_object"} -> [m EXCEPT ![i.f[1]] = m[i.f[2]]]
      [] i.op = "const_string" -> [m EXCEPT ![i.f[1]] = <<"string", i.f[2]>>]
      [] OTHER -> m, file, insns)

\* The registers on entry: parameter words at the top, nothing elsewhere.
Entered(b) == [v \in 0..(2 ^ Bits16) |->
                 IF v \in (b.regs - b.ins)..(b.regs - 1) THEN <<"param", v - (b.regs - b.ins)>>
                 ELSE <<"junk", v>>]
Param(p) == <<"param", p>>
ThisRegister == method.regs - method.ins
Current == [v \in 0..(2 ^ Bits16) |-> <<"current", v>>]

\* The instructions of `code` from which control comes to j without a new call.
Again(j) == {i \in 1..j : OffsetOf(code.insns, i) \in Landings(code)}

Writes(i, v) ==
  /\ i.op \in {"move_wide_16", "move_16", "move_object_16", "move_object", "const_string"}
  /\ v = i.f[1]

-----------------------------------------------------------------------------
TypeOK ==
  /\ [method |-> method, plan |-> plan] \in Jobs
  /\ phase \in {"start", "refused", "bytecode", "tries", "debug", "merge", "transform",
               "encode", "lines", "handlers", "done"}
  /\ DOMAIN lir.next \subseteq 0..Len(lir.node) /\ DOMAIN lir.prev = DOMAIN lir.next
  /\ \A n \in DOMAIN lir.next \ {0} : lir.prev[lir.next[n]] = n

Done == phase = "done"
Queued(t) == \E k \in DOMAIN plan : plan[k].t = t

\* No SLICER_CHECK of the disassembler, the transformations or the
\* encoders stops a job: every field the transformations widen still fits.
NoCheckFails == lir.ok /\ enc.ok

\* The instruction that stands for original i: short gotos grow, matching
\* virtual calls go to the detour, other operands but registers and
\* branches are as they were.
Kept(i, j) ==
  LET detoured == Queued("detour") /\ i.op \in DOMAIN Detoured /\ i.f[2] = DetouredMethod
      fs == Fields(Ops[i.op].fmt)
  IN IF i.op \in Payloads THEN i.op = j.op /\ i.keys = j.keys
     ELSE /\ j.op = CASE i.op = "goto" -> "goto_16"
                      [] detoured -> Detoured[i.op]
                      [] OTHER -> i.op
          /\ \A k \in DOMAIN fs : fs[k][1] \in {"const", "high", "index"} =>
               j.f[k] = IF detoured THEN DetourMethod ELSE i.f[k]

\* Every original instruction is still there, once, and in its place.
SameOrder(insns) ==
  /\ {insns[i].org : i \in Own(insns)} = 1..Len(method.insns)
  /\ \A i, j \in Own(insns) : i < j => insns[i].org < insns[j].org

\* The rewritten method is the old one with instructions put in between:
\* same instructions in the same order, every branch, switch case and catch
\* handler leading to the same original instruction, every original
\* instruction protected by the same handlers (BytecodeEncoder fixups,
\* MergeInstructions, TryBlocksEncoder).
SameFlow ==
  Done => /\ SameOrder(code.insns)
          /\ \A o \in 1..Len(method.insns) :
               LET i == At(code.insns, o) IN
               /\ Kept(method.insns[o], code.insns[i])
               /\ Targets(code.insns, i) = Targets(method.insns, o)
               /\ Catches(code, i) = Catches(method, o)

Shifted(vs, d) == [k \in DOMAIN vs |-> vs[k] + d]

\* The debug events stay at their original instructions, with their lines,
\* names and (renumbered) registers.  A method whose first line is 0 is left
\* out: DebugInfoEncoder drops its first position.
DebugKept(d) ==
  LET old == RunDebug(method.insns, method.debug)
  IN RunDebug(code.insns, code.debug) =
       [k \in DOMAIN old |-> IF old[k][2] \in LocalEvents THEN [old[k] EXCEPT ![3] = @ + d] ELSE old[k]]

\* Registers survive the allocation of scratch registers and the hooks:
\* there is one shift that every original operand and debug local got, and
\* when the original code is entered each parameter is in the (shifted)
\* register where that code expects it, whatever the prologue wrote; a loop
\* back to the first instruction does not move the parameters there again.
SameRegisters ==
  Done => \E d \in 0..(2 ^ Bits4) :
    /\ \A o \in 1..Len(method.insns) :
         Named(code.insns[At(code.insns, o)]) = Shifted(Named(method.insns[o]), d)
    /\ \A p \in 0..(method.ins - 1) :
         RunMoves(Entered(code), Prologue(code.insns))[ThisRegister + p + d] = Param(p)
    /\ \A j \in DOMAIN Prologue(code.insns), p \in 0..(method.ins - 1) :
         Writes(code.insns[j], ThisRegister + p + d) => Again(j) = {}
    /\ method.debug # <<>> /\ method.debug.line # 0 => DebugKept(d)

\* A hook is given what it is declared to take: the entry hook all the
\* parameters in order, printEnter the activity and the description.  Both run
\* when the method is entered, and again only if the original code itself goes
\* back to its first instruction: printEnter then with the activity as that code
\* has it, while the entry hook gets whatever is in the registers.  Nothing
\* reaches a return but through its exit hook, whose result is what is returned.
HookArgs(file, i, j) ==
  LET held == RunMoves(file, SubSeq(code.insns, i, j - 1))
  IN [k \in DOMAIN Named(code.insns[j]) |-> held[Named(code.insns[j])[k]]]

Calls(i, m) == i.op \in {"invoke_static", "invoke_static_range"} /\ i.org = 0 /\ i.f[2] = m

ReturnHooked(j) ==
  LET i == code.insns[j]
      back == IF i.op = "return_void" THEN 1 ELSE 2
      landing == {OffsetOf(code.insns, k) : k \in (j - back + 1)..j}
  IN /\ Calls(code.insns[j - back], ExitHookMethod)
     /\ back = 2 => /\ code.insns[j - 1].op = MoveResult[i.op]
                    /\ code.insns[j - 1].f[1] = i.f[1]
                    /\ code.insns[j - 2].f[1][1] = i.f[1]
     /\ \A n \in DOMAIN lir.node : lir.node[n].kind = "label" => lir.node[n].off \notin landing


\* The words that a call passes.
ArgWords(i) == IF Ops[i.op].fmt = "kFmt3rc" THEN i.f[1][2] ELSE Len(i.f[1])

PayloadsAligned(insns) ==
  \A j \in DOMAIN insns : insns[j].op \in Payloads => OffsetOf(insns, j) % 2 = 0

RegistersDeclared(body) ==
  \A j \in DOMAIN body.insns :
    LET i == body.insns[j] IN
    /\ \A k \in DOMAIN Named(i) : Named(i)[k] < body.regs
    /\ i.op \notin Payloads /\ "A" \in Ops[i.op].wide => i.f[1] + 1 < body.regs

OutsCover(insns, outs) ==
  \A j \in DOMAIN insns :
    insns[j].op \notin Payloads /\ "invoke" \in Flags(insns[j].op) => ArgWords(insns[j]) <= outs

TriesPlaced(body) ==
  \A k \in DOMAIN body.tries :
    LET t == body.tries[k] IN
    /\ {t.start, t.start + t.count} \subseteq Starts(body.insns) \cup {Size(body.insns)}
    /\ k > 1 => body.tries[k - 1].start + body.tries[k - 1].count <= t.start

\* What the verifier asks of the encoded method: payloads aligned, registers
\* below the declared count (the second of a pair too), outs_count enough
\* for every call, try ranges in order, disjoint, on instructions.
WellPlaced ==
  Done => /\ PayloadsAligned(code.insns) /\ RegistersDeclared(code)
          /\ OutsCover(code.insns, code.outs) /\ TriesPlaced(code)

\* Basic blocks, with and without exceptions: every instruction is in exactly
\* one, only the last may leave it, and a label leads to the first
\* instruction of a block (BasicBlocksVisitor over the merged list).
Place(c, n) == CHOOSE k \in DOMAIN c : c[k] = n
Members(c, b) == {k \in Place(c, b.first)..Place(c, b.last) : IsCode(lir, c[k])}

BlocksEnteredAtTop ==
  phase = "transform" => \A exceptions \in BOOLEAN :
    LET c == Chain(lir)
        run == CreateBasicBlocks(lir, exceptions)
        codes == {k \in DOMAIN c : IsCode(lir, c[k])}
        block(k) == {x \in DOMAIN run.out : k \in Members(c, run.out[x])}
        top(x) == CHOOSE k \in Members(c, run.out[x]) : \A j \in Members(c, run.out[x]) : k <= j
    IN /\ run.st # "body"
       /\ \A k \in codes : /\ Cardinality(block(k)) = 1
                           /\ Exits(lir.node[c[k]].op, exceptions) =>
                                \A x \in block(k) : \A j \in Members(c, run.out[x]) : j <= k
       /\ \A k \in DOMAIN c : lir.node[c[k]].kind = "label" =>
            LET after == {j \in codes : j > k}
                next == CHOOSE j \in after : \A i \in after : j <= i
            IN after # {} => \A x \in block(next) : next = top(x)
=============================================================================
