----------------------------- MODULE MCDexCode -----------------------------
(* Method bodies and transformations for DexCode.  Register fields are 3   *)
(* and 4 bits wide instead of 4 and 8, code units 6 bits instead of 16, so *)
(* that registers run out and branches stay short enough.                  *)
EXTENDS DexCode

I(op, f) == [op |-> op, f |-> f]
\* A payload: its keys, the switch it belongs to and the targets.
P(op, keys, base, to) == [op |-> op, keys |-> keys, base |-> base, to |-> to]

Rel(is, from, to, bits) == (OffsetOf(is, to) - OffsetOf(is, from)) % 2 ^ bits

\* Targets are written as instruction numbers.
Asm(is) ==
  [j \in DOMAIN is |->
    IF is[j].op \in Payloads
    THEN [op |-> is[j].op, keys |-> is[j].keys, org |-> j,
          to |-> [k \in DOMAIN is[j].to |-> OffsetOf(is, is[j].to[k]) - OffsetOf(is, is[j].base)]]
    ELSE LET fs == Fields(Ops[is[j].op].fmt) IN
         [op |-> is[j].op, org |-> j,
          f |-> [k \in DOMAIN fs |-> IF fs[k][1] = "branch" THEN Rel(is, j, is[j].f[k], fs[k][2])
                                     ELSE is[j].f[k]]]]

Body(regs, params, ret, insns, tries, debug) ==
  [regs |-> regs, params |-> params, ret |-> ret, insns |-> Asm(insns), debug |-> debug, file |-> 1,
   ins |-> FoldLeft(LAMBDA n, t : n + IF t = "wide" THEN 2 ELSE 1, 0, params), outs |-> 0,
   tries |-> [k \in DOMAIN tries |->
     [start |-> OffsetOf(insns, tries[k].from),
      count |-> OffsetOf(insns, tries[k].to) - OffsetOf(insns, tries[k].from),
      handlers |-> [h \in DOMAIN tries[k].handlers |->
                     <<tries[k].handlers[h][1], OffsetOf(insns, tries[k].handlers[h][2])>>],
      all |-> IF tries[k].all = 0 THEN Invalid ELSE OffsetOf(insns, tries[k].all)]]]

Lines(line, data) == [line |-> line, names |-> <<3>>, data |-> data]

\* A loop back to the first instruction, with lines and locals.
Loop == Body(5, <<"reference", "scalar">>, "value",
  <<I("add_int_lit8", <<0, 0, 15>>), I("if_eqz", <<4, 5>>), I("add_int", <<0, 0, 4>>),
    I("goto", <<1>>), I("return", <<0>>)>>, <<>>,
  Lines(10, <<<<"special", 4>>, <<"start_local", 0, 2, 3>>, <<"prologue_end">>, <<"special", 35>>,
              <<"advance_line", 30>>, <<"file", 2>>, <<"special", 36>>, <<"end_local", 0>>,
              <<"special", 37>>, <<"advance_pc", 1>>, <<"restart_local", 0>>,
              <<"epilogue_begin">>, <<"special", 3>>>>))

\* Two adjacent try blocks, handlers in the middle, a switch of each kind
\* and array data; odd code, so that the payloads need padding.
Switches == Body(4, <<"reference">>, "void",
  <<I("packed_switch", <<0, 9>>), I("iget", <<0, 3, 2>>), I("sparse_switch", <<0, 10>>),
    I("fill_array_data", <<1, 11>>), I("return_void", <<>>), I("throw", <<2>>),
    I("goto_16", <<2>>), I("nop", <<>>),
    P("packed_payload", <<0>>, 1, <<5, 2>>), P("sparse_payload", <<1, 9>>, 3, <<5, 7>>),
    P("array_payload", <<2>>, 0, <<>>)>>,
  <<[from |-> 2, to |-> 3, handlers |-> <<<<1, 6>>>>, all |-> 0],
    [from |-> 3, to |-> 5, handlers |-> <<<<1, 6>>, <<2, 7>>>>, all |-> 6]>>,
  <<>>)

\* Wide values and calls; all eight registers in use.
Wide == Body(8, <<"wide", "reference", "scalar">>, "value",
  <<I("const_wide", <<0, 5>>), I("const_wide_high16", <<2, 1>>), I("add_double", <<0, 2, 4>>),
    I("invoke_virtual", <<<<6, 7>>, DetouredMethod>>), I("move_result_wide", <<2>>),
    I("invoke_virtual_range", <<<<4, 3>>, DetouredMethod>>), I("invoke_virtual_range", <<<<4, 1>>, 6>>),
    I("return_wide", <<0>>)>>, <<>>,
  Lines(1, <<<<"start_local_extended", 0, 1, 2, 3>>, <<"special", 5>>>>))

\* The remaining formats.
Formats == Body(6, <<"scalar", "reference">>, "value",
  <<I("const_4", <<0, 7>>), I("const_16", <<1, 63>>), I("const", <<2, 4095>>),
    I("const_high16", <<3, 32>>), I("move", <<0, 4>>), I("move_from16", <<1, 4>>),
    I("move_16", <<2, 4>>), I("const_string_jumbo", <<3, 70>>), I("add_int_lit16", <<1, 1, 60>>),
    I("if_eq", <<0, 1, 12>>), I("goto_16", <<12>>), I("return_object", <<3>>)>>, <<>>, <<>>)

\* Activity.onCreate(Bundle) with the three locals of ClassTransform's comment,
\* and a loop back to the start in a try.
OnCreate == Body(5, <<"reference", "reference">>, "void",
  <<I("invoke_virtual", <<<<3, 4>>, 6>>), I("if_eqz", <<0, 1>>), I("goto_32", <<4>>),
    I("return_void", <<>>)>>,
  <<[from |-> 1, to |-> 2, handlers |-> <<>>, all |-> 4]>>,
  Lines(7, <<<<"special", 4>>, <<"special", 50>>>>))

NoParams == Body(1, <<>>, "void", <<I("const_string", <<0, 1>>), I("return_void", <<>>)>>, <<>>, <<>>)
Abstract == Body(0, <<"reference">>, "void", <<>>, <<>>, <<>>)

T(t) == [t |-> t]
Scratch(n, renumber) == [t |-> "scratch", count |-> n, renumber |-> renumber]

MCPlans == {<<>>, <<T("entry")>>, <<T("exit")>>, <<T("detour"), T("entry"), T("exit")>>,
            <<Scratch(2, TRUE)>>, <<T("entry"), Scratch(2, FALSE)>>,
            <<Scratch(1, TRUE), T("exit")>>, <<Scratch(4, TRUE), T("entry"), T("exit")>>}

MCJobs ==
  [method : {Loop, Switches, Wide, Formats, OnCreate, NoParams}, plan : MCPlans]
    \cup {[method |-> OnCreate, plan |-> <<T("probe")>>], [method |-> Abstract, plan |-> <<>>]}

=============================================================================
