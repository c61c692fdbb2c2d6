------------------------------ MODULE DexImage ------------------------------
(* slicer's .dex reader, IR and writer (dexer/reader.cc, dex_ir.cc,        *)
(* dex_ir_builder.cc, writer.cc): classes of an image are read into the    *)
(* IR with everything they reach, methods are instrumented through the     *)
(* builder, and a new image is laid out from the IR.                       *)
(*                                                                         *)
(* An image is its index tables, which count from 0 as in the file, and    *)
(* "at", the data items by offset.  A text is a number: its place in the   *)
(* order of strings.  An instruction is <<opcode, index>> or <<opcode>>.   *)
(* In the IR a reference is the number of a node of its kind, 0 for null.  *)
EXTENDS Integers, Sequences, FiniteSets, SequencesExt

CONSTANTS
  Jobs,         \* [image, want]: an image, and the class to read or Everything
  Edits,        \* [class, name, params, ret, field, call, text]: what clients add to a method
  Shorty(_, _), \* CreateShorty: the shorty of a return type and parameters
  IndexLimit,   \* the first index that 16 bits cannot hold
  LebLimit,     \* the first value that takes two bytes in LEB128
  ByteLimit     \* values of a byte of an encoded value

ASSUME LimitAssumption == /\ {IndexLimit, LebLimit, ByteLimit} \subseteq Nat
                          /\ ByteLimit > 1 /\ ByteLimit % 2 = 0

VARIABLES
  image,        \* the image that is read
  want, phase,
  todo,         \* class indexes CreateFullIr or CreateClassIr has still to read
  ir,           \* ir::DexFile, and the reader's tables by offset
  edited,       \* the edits that found a method with code, in order
  tried,        \* all the edits tried
  out           \* the image under construction

vars == <<image, want, phase, todo, ir, edited, tried, out>>

NoIndex == -1
Everything == -1
Missing == -2   \* what a failed lookup leaves: a check or an exception stops the writer
HeaderSize == 112

Tables == <<"string", "type", "proto", "field", "method", "class">>
RowSize == [string |-> 4, type |-> 4, proto |-> 12, field |-> 8, method |-> 8, class |-> 32]
\* The nodes that are owned by the IR, and those that the reader finds again by offset.
Kinds == ToSet(Tables) \cup {"encoded", "list", "code", "debug", "array", "ann", "set", "refs", "dir"}
Shared == {"list", "array", "ann", "set", "dir"}

\* What the index of an instruction refers to.
Refers == [const_string |-> "string", const_string_jumbo |-> "string", check_cast |-> "type",
           iget |-> "field", invoke |-> "method"]

EmptyIr == [ok |-> TRUE, node |-> [k \in Kinds |-> <<>>],
            map |-> [k \in ToSet(Tables) |-> <<>>], seen |-> [k \in Shared |-> <<>>]]

Checked(r, c) == [r EXCEPT !.ok = @ /\ c]
Newest(r, k) == Len(r.node[k])
Alloc(r, k, n) == [r EXCEPT !.node[k] = Append(@, n)]
\* Most operations return the IR and a node of it.
Got(r, n) == [r |-> r, n |-> n]
Made(g, Node(_)) == Got(g.r, Node(g.n))
Added(k, g) == LET a == Alloc(g.r, k, g.n) IN Got(a, Newest(a, k))

\* A new node for index i of its table; an item that was read at an offset.
Mapped(k, i, g) == LET a == Added(k, g) IN Got([a.r EXCEPT !.map[k] = (i :> a.n) @@ @], a.n)
Located(k, off, g) == LET a == Added(k, g) IN Got([a.r EXCEPT !.seen[k] = (off :> a.n) @@ @], a.n)

Push(acc, g) == Got(g.r, Append(acc.n, g.n))
-----------------------------------------------------------------------------
(* Reading.  A reference <<kind, x>> is an index of a table, the offset of *)
(* an item, or a part of an item that is read in place.                    *)
RECURSIVE Read(_, _)
OptRead(r, ref) == IF ref[2] = NoIndex THEN Got(r, 0) ELSE Read(r, ref)

\* The nodes for a sequence of references, read one after the other; none (0)
\* once a check has failed.
Each(r, refs) ==
  FoldLeft(LAMBDA acc, ref : Push(acc, IF acc.r.ok THEN Read(acc.r, ref) ELSE Got(acc.r, 0)), Got(r, <<>>), refs)
All(kind, xs) == [k \in DOMAIN xs |-> <<kind, xs[k]>>]

Get(r, k, i, Parse(_, _)) ==
  IF i = NoIndex THEN Got(Checked(r, FALSE), 0)
  ELSE IF i \in DOMAIN r.map[k] THEN Got(r, r.map[k][i]) ELSE Mapped(k, i, Parse(r, i))

ParseString(r, i) == Got(r, [text |-> image.at[image.string[i]].text, orig |-> i, index |-> NoIndex])
GetString(r, i) == Get(r, "string", i, ParseString)

ParseType(r, i) ==
  Made(Read(r, <<"string", image.type[i]>>), LAMBDA s : [desc |-> s, def |-> 0, orig |-> i, index |-> NoIndex])
GetType(r, i) == Get(r, "type", i, ParseType)

\* An item that is read once for each offset.
Once(r, k, off, Parse(_, _)) ==
  IF off = 0 THEN Got(r, 0)
  ELSE IF off \in DOMAIN r.seen[k] THEN Got(r, r.seen[k][off]) ELSE Located(k, off, Parse(r, off))

ParseTypeList(r, off) == Each(r, All("type", image.at[off].types))
ExtractTypeList(r, off) == Once(r, "list", off, ParseTypeList)

ParseProto(r, i) ==
  LET row == image.proto[i] IN
  Made(Each(r, <<<<"string", row.shorty>>, <<"type", row.ret>>, <<"list", row.params>>>>),
       LAMBDA n : [shorty |-> n[1], ret |-> n[2], params |-> n[3], orig |-> i, index |-> NoIndex])
GetProto(r, i) == Get(r, "proto", i, ParseProto)

ParseFieldDecl(r, i) ==
  LET row == image.field[i] IN
  Made(Each(r, <<<<"string", row.name>>, <<"type", row.type>>, <<"type", row.class>>>>),
       LAMBDA n : [name |-> n[1], type |-> n[2], parent |-> n[3], orig |-> i, index |-> NoIndex])
GetFieldDecl(r, i) == Get(r, "field", i, ParseFieldDecl)

ParseMethodDecl(r, i) ==
  LET row == image.method[i] IN
  Made(Each(r, <<<<"string", row.name>>, <<"proto", row.proto>>, <<"type", row.class>>>>),
       LAMBDA n : [name |-> n[1], proto |-> n[2], parent |-> n[3], orig |-> i, index |-> NoIndex])
GetMethodDecl(r, i) == Get(r, "method", i, ParseMethodDecl)

-----------------------------------------------------------------------------
(* Reading: encoded values and annotations.                                *)
RECURSIVE Digits(_)
Digits(bytes) == IF bytes = <<>> THEN 0 ELSE Head(bytes) + ByteLimit * Digits(Tail(bytes))

ParseIntValue(bytes, signed) ==
  IF signed /\ Last(bytes) >= ByteLimit \div 2 THEN Digits(bytes) - ByteLimit ^ Len(bytes) ELSE Digits(bytes)

\* The bytes are the highest ones of the value, which has three.
ParseFloatValue(bytes) == [k \in 1..(3 - Len(bytes)) |-> 0] \o bytes

ParseEncodedValue(r, v) ==
  CASE v[1] = "int"   -> Got(r, <<"int", ParseIntValue(v[2], TRUE)>>)
    [] v[1] = "char"  -> Got(r, <<"char", ParseIntValue(v[2], FALSE)>>)
    [] v[1] = "float" -> Got(r, <<"float", ParseFloatValue(v[2])>>)
    [] v[1] \in {"string", "type", "field", "method", "enum"} ->
         Made(Read(r, v), LAMBDA n : <<v[1], n>>)
    [] v[1] = "array" ->
         Made(Each(r, All("value", v[2])), LAMBDA n : <<"array", n>>)
    [] v[1] = "annotation" ->
         Made(Read(r, <<"annotation", v[2]>>), LAMBDA n : <<"annotation", n>>)
    [] OTHER -> Got(r, v)

\* Every annotation is owned by the IR, the ones inside values too.
ParseAnnotation(r, a) ==
  LET refs(e) == <<<<"string", e[1]>>, <<"value", e[2]>>>>
      t == Read(r, <<"type", a.type>>)
      es == Each(t.r, FlattenSeq([k \in DOMAIN a.elements |-> refs(a.elements[k])]))
  IN Added("ann", Got(es.r, [type |-> t.n, visibility |-> "encoded",
                             elements |-> [k \in DOMAIN a.elements |-> <<es.n[2 * k - 1], es.n[2 * k]>>]]))

ParseEncodedArray(r, off) == Each(r, All("value", image.at[off].values))
ExtractEncodedArray(r, off) == Once(r, "array", off, ParseEncodedArray)

ExtractAnnotationItem(r, off) ==
  IF off \in DOMAIN r.seen.ann THEN Got(r, r.seen.ann[off])
  ELSE LET a == ParseAnnotation(Checked(r, off # 0), image.at[off].annotation)
       IN Got([a.r EXCEPT !.node.ann[a.n].visibility = image.at[off].visibility,
                          !.seen.ann = (off :> a.n) @@ @], a.n)

ParseAnnotationSet(r, off) == Each(Checked(r, off % 4 = 0), All("item", image.at[off].entries))
ExtractAnnotationSet(r, off) == Once(r, "set", off, ParseAnnotationSet)

\* Not found again by offset; an entry without annotations is skipped.
ExtractAnnotationSetRefList(r, off) ==
  Added("refs", Each(Checked(r, off % 4 = 0), All("set", SelectSeq(image.at[off].entries, LAMBDA e : e # 0))))

\* <<index, offset>> of a directory: what is annotated, and its annotations.
ParseFieldAnnotation(r, e) ==
  LET g == Each(r, <<<<"field", e[1]>>, <<"set", e[2]>>>>) IN Got(Checked(g.r, g.n[2] # 0), g.n)
ParseMethodAnnotation(r, e) ==
  LET g == Each(r, <<<<"method", e[1]>>, <<"set", e[2]>>>>) IN Got(Checked(g.r, g.n[2] # 0), g.n)
ParseParamAnnotation(r, e) == Each(r, <<<<"method", e[1]>>, <<"refs", e[2]>>>>)

ParseAnnotations(r, off) ==
  LET item == image.at[off]
      c == Read(Checked(r, off % 4 = 0), <<"set", item.class>>)
      f == Each(c.r, All("field_annotation", item.fields))
      m == Each(f.r, All("method_annotation", item.methods))
  IN Made(Each(m.r, All("param_annotation", item.params)),
          LAMBDA p : [class |-> c.n, fields |-> f.n, methods |-> m.n, params |-> p])
ExtractAnnotations(r, off) == Once(r, "dir", off, ParseAnnotations)
-----------------------------------------------------------------------------
(* Reading: code and classes.                                              *)
DebugRefs(op) ==
  CASE op[1] = "start_local" -> <<<<"string", op[2]>>, <<"type", op[3]>>>>
    [] op[1] = "start_local_extended" -> <<<<"string", op[2]>>, <<"type", op[3]>>, <<"string", op[4]>>>>
    [] op[1] = "set_file" -> <<<<"string", op[2]>>>>
    [] OTHER -> <<>>

\* The opcodes are kept as they are: the references are only looked up.
ExtractDebugInfo(r, off) ==
  IF off = 0 THEN Got(r, 0)
  ELSE LET item == image.at[off]
           names == Each(r, All("opt", All("string", item.names)))
           refs == Each(names.r, All("opt", FlattenSeq([k \in DOMAIN item.ops |-> DebugRefs(item.ops[k])])))
       IN Added("debug", Got(refs.r, [line |-> item.line, names |-> names.n, ops |-> item.ops]))

InstructionRef(i) == IF i[1] \in DOMAIN Refers THEN <<<<Refers[i[1]], i[2]>>>> ELSE <<>>
SkipInstructions(r, is) == r   \* a slip
ParseInstructions(r, is) ==
  Each(r, FlattenSeq([k \in DOMAIN is |-> InstructionRef(is[k])])).r

ExtractCode(r, off) ==
  IF off = 0 THEN Got(r, 0)
  ELSE LET item == image.at[off]
           i == ParseInstructions(Checked(r, off % 4 = 0), item.insns)
           types == FlattenSeq([k \in DOMAIN item.handlers |-> item.handlers[k].types])
       IN Added("code", Made(ExtractDebugInfo(Each(i, All("type", types)).r, item.debug),
            LAMBDA n : [insns |-> item.insns, tries |-> item.tries, handlers |-> item.handlers, debug |-> n]))

\* Indexes are differences to the one before; only the first may be 0.
Undelta(base, delta) == IF base = NoIndex THEN delta ELSE base + delta

ParseEncodedFields(r, es) ==
  FoldLeft(LAMBDA acc, e :
      LET i == Undelta(acc.base, e.delta)
          d == GetFieldDecl(Checked(acc.r, acc.base = NoIndex \/ e.delta # 0), i)
      IN IF acc.r.ok THEN [r |-> d.r, base |-> i, n |-> Append(acc.n, [decl |-> d.n, flags |-> e.flags])]
         ELSE acc,
    [r |-> r, base |-> NoIndex, n |-> <<>>], es)

ParseEncodedMethods(r, es) ==
  FoldLeft(LAMBDA acc, e :
      LET i == Undelta(acc.base, e.delta)
          d == GetMethodDecl(Checked(acc.r, acc.base = NoIndex \/ e.delta # 0), i)
          m == Added("encoded", Made(ExtractCode(d.r, e.code),
                                     LAMBDA n : [decl |-> d.n, flags |-> e.flags, code |-> n]))
      IN IF acc.r.ok THEN [r |-> m.r, base |-> i, n |-> Append(acc.n, m.n)] ELSE acc,
    [r |-> r, base |-> NoIndex, n |-> <<>>], es)

NoMembers == [statics |-> <<>>, instances |-> <<>>, directs |-> <<>>, virtuals |-> <<>>]

ParseClass(r, i) ==
  LET row == image.class[i]
      data == IF row.data = 0 THEN NoMembers ELSE image.at[row.data]
      c == Each(r, <<<<"type", row.type>>, <<"list", row.interfaces>>, <<"opt", <<"type", row.super>>>>,
             <<"opt", <<"string", row.source>>>>, <<"fields", data.statics>>, <<"fields", data.instances>>,
             <<"methods", data.directs>>, <<"methods", data.virtuals>>, <<"array", row.values>>,
             <<"dir", row.annotations>>>>)
      n == c.n
  IN Got([c.r EXCEPT !.node.type[n[1]].def = Newest(c.r, "class") + 1],
         [type |-> n[1], interfaces |-> n[2], super |-> n[3], source |-> n[4], statics |-> n[5],
          instances |-> n[6], directs |-> n[7], virtuals |-> n[8], values |-> n[9], annotations |-> n[10],
          flags |-> row.flags, orig |-> i, index |-> NoIndex])
GetClass(r, i) == Get(r, "class", i, ParseClass)

Read(r, ref) ==
  LET kind == ref[1]
      x == ref[2]
  IN CASE kind = "string" -> GetString(r, x)
       [] kind = "type"   -> GetType(r, x)
       [] kind = "proto"  -> GetProto(r, x)
       [] kind \in {"field", "enum"} -> GetFieldDecl(r, x)
       [] kind = "method" -> GetMethodDecl(r, x)
       [] kind = "opt"    -> OptRead(r, x)
       [] kind = "list"   -> ExtractTypeList(r, x)
       [] kind = "array"  -> ExtractEncodedArray(r, x)
       [] kind = "value"  -> ParseEncodedValue(r, x)
       [] kind = "annotation" -> ParseAnnotation(r, x)
       [] kind = "item"   -> ExtractAnnotationItem(r, x)
       [] kind = "set"    -> ExtractAnnotationSet(r, x)
       [] kind = "refs"   -> ExtractAnnotationSetRefList(r, x)
       [] kind = "field_annotation"  -> ParseFieldAnnotation(r, x)
       [] kind = "method_annotation" -> ParseMethodAnnotation(r, x)
       [] kind = "param_annotation"  -> ParseParamAnnotation(r, x)
       [] kind = "dir"     -> ExtractAnnotations(r, x)
       [] kind = "fields"  -> ParseEncodedFields(r, x)
       [] kind = "methods" -> ParseEncodedMethods(r, x)
-----------------------------------------------------------------------------
TextAt(img, i) == IF i = NoIndex THEN NoIndex ELSE img.at[img.string[i]].text
TypeText(img, i) == IF i = NoIndex THEN NoIndex ELSE TextAt(img, img.type[i])

FindClassIndex(img, descriptor) ==
  LET found == {i \in DOMAIN img.class : TypeText(img, img.class[i].type) = descriptor}
  IN IF found = {} THEN NoIndex ELSE CHOOSE i \in found : \A j \in found : i <= j

ValidateHeader(img) ==
  LET h == img.header IN
  /\ h.file_size > HeaderSize /\ h.data_size % 4 = 0 /\ h.data_off % 4 = 0
  /\ \A k \in ToSet(Tables) : h.off[k] % 4 = 0
  /\ Cardinality(DOMAIN img.type) < IndexLimit /\ Cardinality(DOMAIN img.proto) < IndexLimit
  /\ h.map_off >= h.data_off /\ h.map_off % 4 = 0 /\ img.map # <<>>
  /\ h.map_off + 4 + 12 * Len(img.map) <= h.file_size

\* Reader(), and the choice between CreateFullIr and CreateClassIr.
Open ==
  LET i == FindClassIndex(image, want) IN
  /\ phase = "open"
  /\ ir' = Checked(ir, ValidateHeader(image))
  /\ IF want = Everything THEN phase' = "read" /\ todo' = [k \in 1..Cardinality(DOMAIN image.class) |-> k - 1]
     ELSE IF i = NoIndex THEN phase' = "no_class" /\ todo' = todo
     ELSE phase' = "read" /\ todo' = <<i>>
  /\ UNCHANGED <<image, want, edited, tried, out>>

CreateClassIr ==
  /\ phase = "read" /\ todo # <<>> /\ ir.ok
  /\ ir' = GetClass(ir, Head(todo)).r
  /\ todo' = Tail(todo)
  /\ UNCHANGED <<image, want, phase, edited, tried, out>>
-----------------------------------------------------------------------------
(* The builder (dex_ir_builder.cc).                                        *)
FirstOf(S) == IF S = {} THEN 0 ELSE CHOOSE n \in S : \A m \in S : n <= m
Where(r, k, P(_)) == FirstOf({n \in DOMAIN r.node[k] : P(r.node[k][n])})

NextIndex(r, k) == Cardinality(DOMAIN r.map[k])   \* a slip
\* AllocateIndex: the first index that no node has.
FreeIndex(r, k) ==
  CHOOSE i \in 0..Cardinality(DOMAIN r.map[k]) :
    i \notin DOMAIN r.map[k] /\ \A j \in 0..(i - 1) : j \in DOMAIN r.map[k]

\* The node that is there already, or a new one with an index of its own.
FindOrAdd(r, k, P(_), n) ==
  LET found == Where(r, k, P)
      i == FreeIndex(r, k)
  IN IF found # 0 THEN Got(r, found) ELSE Mapped(k, i, Got(r, [n EXCEPT !.orig = i]))

FindAsciiString(r, t) == Where(r, "string", LAMBDA n : n.text = t)

GetAsciiString(r, t) ==
  FindOrAdd(r, "string", LAMBDA n : n.text = t, [text |-> t, orig |-> 0, index |-> NoIndex])

BuilderType(r, t) ==
  LET s == GetAsciiString(r, t) IN
  FindOrAdd(s.r, "type", LAMBDA n : n.desc = s.n, [desc |-> s.n, def |-> 0, orig |-> 0, index |-> NoIndex])

BuilderTypeList(r, types) ==
  LET found == Where(r, "list", LAMBDA n : n = types)
      a == Alloc(r, "list", types)
  IN IF types = <<>> THEN Got(r, 0) ELSE IF found # 0 THEN Got(r, found) ELSE Got(a, Newest(a, "list"))

DescOf(r, type) == r.node.string[r.node.type[type].desc].text
Descs(r, list) ==
  IF list = 0 THEN <<>> ELSE [k \in DOMAIN r.node.list[list] |-> DescOf(r, r.node.list[list][k])]

BuilderProto(r, ret, params) ==
  LET s == GetAsciiString(r, Shorty(DescOf(r, ret), Descs(r, params))) IN
  FindOrAdd(s.r, "proto", LAMBDA n : n.shorty = s.n /\ n.ret = ret /\ n.params = params,
            [shorty |-> s.n, ret |-> ret, params |-> params, orig |-> 0, index |-> NoIndex])

BuilderField(r, name, type, parent) ==
  FindOrAdd(r, "field", LAMBDA n : n.name = name /\ n.type = type /\ n.parent = parent,
            [name |-> name, type |-> type, parent |-> parent, orig |-> 0, index |-> NoIndex])

BuilderMethod(r, name, proto, parent) ==
  FindOrAdd(r, "method", LAMBDA n : n.name = name /\ n.proto = proto /\ n.parent = parent,
            [name |-> name, proto |-> proto, parent |-> parent, orig |-> 0, index |-> NoIndex])

Signature(r, p) == <<Descs(r, p.params), DescOf(r, p.ret)>>

\* Slip: any method of that name in the class.
FindName(r, e) ==
  LET d == FindAsciiString(r, e.class)
      n == FindAsciiString(r, e.name)
  IN Where(r, "encoded", LAMBDA m : LET decl == r.node.method[m.decl] IN
             r.node.type[decl.parent].desc = d /\ decl.name = n)

\* The method of a class that was read, 0 when there is none.
FindMethod(r, e) ==
  LET d == FindAsciiString(r, e.class)
      n == FindAsciiString(r, e.name)
      p == Where(r, "proto", LAMBDA q : Signature(r, q) = <<e.params, e.ret>>)
  IN IF 0 \in {d, n, p} THEN 0
     ELSE Where(r, "encoded", LAMBDA m : LET decl == r.node.method[m.decl] IN
                  r.node.type[decl.parent].desc = d /\ decl.name = n /\ decl.proto = p)

BuilderTypes(r, descs) == FoldLeft(LAMBDA acc, t : Push(acc, BuilderType(acc.r, t)), Got(r, <<>>), descs)

\* The field or the method that is called; types: its class, what it returns,
\* its parameters.
Member(r, e, types) ==
  LET list == BuilderTypeList(r, SubSeq(types, 3, Len(types)))
      proto == BuilderProto(list.r, types[2], list.n)
      name == GetAsciiString(IF e.field THEN r ELSE proto.r, e.call.name)
  IN IF e.field THEN BuilderField(name.r, name.n, types[2], types[1])
                ELSE BuilderMethod(name.r, name.n, proto.n, types[1])

Prologue(e, text, member) ==
  LET node == member.r.node
  IN Got(member.r, <<<<"const_string", node.string[text].orig>>,
                     IF e.field THEN <<"iget", node.field[member.n].orig>>
                                ELSE <<"invoke", node.method[member.n].orig>>>>)

\* The nodes a client asks the builder for, and the instructions it puts
\* first (ClassTransform, addCall): <<opcode, index given by the builder>>.
Request(r, e) ==
  LET types == BuilderTypes(r, <<e.call.class, e.call.ret>> \o e.call.params)
      text == GetAsciiString(types.r, e.text)
  IN Prologue(e, text.n, Member(text.r, e, types.n))

\* InstrumentMethod: a method that is not there or has no code is refused.
InstrumentMethod(e) ==
  LET found == FindMethod(ir, e)
      code == IF found = 0 THEN 0 ELSE ir.node.encoded[found].code
      q == Request(ir, e)
  IN /\ phase = "read" /\ todo = <<>> /\ ir.ok
     /\ e \in Edits \ tried
     /\ tried' = tried \cup {e}
     /\ IF code = 0 THEN UNCHANGED <<ir, edited>>
        ELSE /\ ir' = [q.r EXCEPT !.node.code[code].insns = q.n \o ir.node.code[code].insns]
             /\ edited' = Append(edited, e)
     /\ UNCHANGED <<image, want, phase, todo, out>>
-----------------------------------------------------------------------------
(* Normalize: the order of the tables, and of what is sorted by index.     *)
Less(a, b) ==
  \E k \in DOMAIN b : /\ k <= Len(a) + 1
                      /\ \A j \in 1..(k - 1) : a[j] = b[j]
                      /\ k \in DOMAIN a => a[k] < b[k]

\* Slip: the order in which the nodes were made.
KeepOrder(r, k, keys) ==
  [r EXCEPT !.node[k] = <<>> \o [n \in 1..Newest(r, k) |-> [r.node[k][n] EXCEPT !.index = n - 1]]]

\* No two keys of a valid image are equal.  TLC evaluates <<>> \o f once, and f
\* whenever it is applied.
IndexItems(r, k, keys) ==
  LET key == <<>> \o keys
      less(m, n) == Less(key[m], key[n])
      before(n) == {m \in DOMAIN r.node[k] : less(m, n) \/ (m < n /\ ~less(n, m))}
  IN [r EXCEPT !.node[k] =
        <<>> \o [n \in 1..Newest(r, k) |-> [r.node[k][n] EXCEPT !.index = Cardinality(before(n))]]]

IndexOf(r, k, n) == r.node[k][n].index

Keys(r, k, Key(_)) == [n \in DOMAIN r.node[k] |-> Key(r.node[k][n])]
NormalizeStrings(r) == IndexItems(r, "string", Keys(r, "string", LAMBDA n : <<n.text>>))
NormalizeTypes(r) == IndexItems(r, "type", Keys(r, "type", LAMBDA n : <<IndexOf(r, "string", n.desc)>>))
NormalizeProtos(r) ==
  IndexItems(r, "proto", Keys(r, "proto", LAMBDA n : <<IndexOf(r, "type", n.ret)>> \o
    (IF n.params = 0 THEN <<>>
     ELSE [k \in DOMAIN r.node.list[n.params] |-> IndexOf(r, "type", r.node.list[n.params][k])])))
NormalizeFields(r) ==
  IndexItems(r, "field", Keys(r, "field", LAMBDA n :
    <<IndexOf(r, "type", n.parent), IndexOf(r, "string", n.name), IndexOf(r, "type", n.type)>>))
NormalizeMethods(r) ==
  IndexItems(r, "method", Keys(r, "method", LAMBDA n :
    <<IndexOf(r, "type", n.parent), IndexOf(r, "string", n.name), IndexOf(r, "proto", n.proto)>>))

\* Superclass and interfaces first.
RECURSIVE TopSortClassIndex(_, _, _)
TopSortClassIndex(r, order, c) ==
  LET class == r.node.class[c]
      types == (IF class.super = 0 THEN <<>> ELSE <<class.super>>) \o
               (IF class.interfaces = 0 THEN <<>> ELSE r.node.list[class.interfaces])
      first == SelectSeq([k \in DOMAIN types |-> r.node.type[types[k]].def], LAMBDA d : d # 0)
  IN IF c \in ToSet(order) THEN order
     ELSE Append(FoldLeft(LAMBDA o, d : TopSortClassIndex(r, o, d), order, first), c)

SortClassIndexes(r) ==
  LET order == FoldLeft(LAMBDA o, c : TopSortClassIndex(r, o, c), <<>>, [c \in 1..Newest(r, "class") |-> c])
  IN [r EXCEPT !.node.class =
        [c \in 1..Newest(r, "class") |->
          [r.node.class[c] EXCEPT !.index = (CHOOSE k \in DOMAIN order : order[k] = c) - 1]]]

SortedBy(s, Key(_)) == SortSeq(s, LAMBDA a, b : Key(a) < Key(b))
Distinct(s) == Cardinality(ToSet(s)) = Len(s)

NormalizeClass(r, c) ==
  LET field(m) == IndexOf(r, "field", m.decl)
      method(m) == IndexOf(r, "method", r.node.encoded[m].decl)
      distinct(s, Key(_)) == Distinct([k \in DOMAIN s |-> Key(s[k])])
      class == r.node.class[c]
      same == /\ distinct(class.statics, field) /\ distinct(class.instances, field)
              /\ distinct(class.directs, method) /\ distinct(class.virtuals, method)
  IN Checked([r EXCEPT !.node.class[c] =
        [class EXCEPT !.statics = SortedBy(class.statics, field),
                      !.instances = SortedBy(class.instances, field),
                      !.directs = SortedBy(class.directs, method),
                      !.virtuals = SortedBy(class.virtuals, method)]], same)

NormalizeAnnotations(r) ==
  LET annotation(a) == [a EXCEPT !.elements = SortedBy(a.elements, LAMBDA e : IndexOf(r, "string", e[1]))]
      byType(n) == IndexOf(r, "type", r.node.ann[n].type)
  IN [r EXCEPT !.node.ann = [n \in 1..Newest(r, "ann") |-> annotation(r.node.ann[n])],
               !.node.set = [n \in 1..Newest(r, "set") |-> SortedBy(r.node.set[n], byType)]]

NormalizeDirectories(r) ==
  LET byField(e) == IndexOf(r, "field", e[1])
      byMethod(e) == IndexOf(r, "method", e[1])
      directory(d) == [d EXCEPT !.fields = SortedBy(d.fields, byField),
                                !.methods = SortedBy(d.methods, byMethod),
                                !.params = SortedBy(d.params, byMethod)]
  IN [r EXCEPT !.node.dir = [n \in 1..Newest(r, "dir") |-> directory(r.node.dir[n])]]

Normalized(r) ==
  LET s == NormalizeStrings(r)
      t == NormalizeTypes(s)
      p == NormalizeProtos(t)
      f == NormalizeFields(p)
      m == NormalizeMethods(f)
      c == FoldLeft(NormalizeClass, SortClassIndexes(m), [n \in 1..Newest(m, "class") |-> n])
  IN Last(<<s, t, p, f, m, c, NormalizeDirectories(NormalizeAnnotations(c))>>)
-----------------------------------------------------------------------------
(* The writer: one section after the other, each item at the end of its    *)
(* section.  A string takes 2 to 4 bytes, a value two, an instruction two  *)
(* code units; everything else is as wide as in the file.                  *)
SectionNames == <<"string_data", "list", "debug", "array", "code", "class_data",
                  "ann", "set", "refs", "dir">>

AlignUp(n, a) == ((n + a - 1) \div a) * a
Leb(v) == IF v < LebLimit THEN 1 ELSE 2
Total(s, Size(_)) == FoldLeft(LAMBDA n, x : n + Size(x), 0, s)

\* Slip: items are not aligned.
PackItem(w, align, bytes, item) ==
  Got([w EXCEPT !.at = (w.offset + w.size :> item) @@ @, !.size = @ + bytes, !.count = @ + 1],
      w.offset + w.size)

AddItem(w, align, bytes, item) ==
  LET start == AlignUp(w.size, align)
  IN Got([w EXCEPT !.at = (w.offset + start :> item) @@ @, !.size = start + bytes, !.count = @ + 1],
         w.offset + start)

Seal(w, name) ==
  [Checked(w, w.offset > 0 /\ w.offset % 4 = 0) EXCEPT
     !.sec = Append(@, [type |-> name, count |-> w.count, off |-> w.offset]),
     !.offset = @ + AlignUp(w.size, 4), !.size = 0, !.count = 0]

\* Every node of a kind gets an item, and an offset that others refer to.
CreateItems(w, k, nodes, Write(_, _)) ==
  FoldLeft(LAMBDA v, n :
      LET g == Write(v, n)
          new == [Checked(g.r, <<k, n>> \notin DOMAIN v.ptr) EXCEPT !.ptr = (<<k, n>> :> g.n) @@ @]
      IN IF v.ok THEN new ELSE v, w, nodes)
AllOf(k) == [n \in 1..Newest(ir, k) |-> n]
InOrder(k) == [i \in 1..Newest(ir, k) |-> CHOOSE n \in DOMAIN ir.node[k] : ir.node[k][n].index = i - 1]

FilePointer(w, k, n) ==
  IF n = 0 THEN 0 ELSE IF <<k, n>> \in DOMAIN w.ptr THEN w.ptr[<<k, n>>] ELSE Missing
FilePointers(w, k, ns) == [j \in DOMAIN ns |-> FilePointer(w, k, ns[j])]

OptIndex(k, n) == IF n = 0 THEN NoIndex ELSE IndexOf(ir, k, n)

\* From an index of the file, or one of the builder, to the new one.
MapIndex(k, i) ==
  IF i = NoIndex THEN NoIndex
  ELSE IF i \in DOMAIN ir.map[k] THEN IndexOf(ir, k, ir.map[k][i]) ELSE Missing

WriteString(w, n) ==
  LET t == ir.node.string[n].text IN AddItem(w, 1, 2 + (t % 3), [kind |-> "string_data", text |-> t])

WriteTypeList(w, n) ==
  LET types == ir.node.list[n]
  IN AddItem(w, 4, 4 + 2 * Len(types),
             [kind |-> "list", types |-> [k \in DOMAIN types |-> IndexOf(ir, "type", types[k])]])

WriteDebugOp(op) ==
  LET refs == DebugRefs(op)
  IN IF refs = <<>> THEN op ELSE <<op[1]>> \o [k \in DOMAIN refs |-> MapIndex(refs[k][1], refs[k][2])]

WriteDebugInfo(w, n) ==
  LET d == ir.node.debug[n]
      ops == [k \in DOMAIN d.ops |-> WriteDebugOp(d.ops[k])]
      g == AddItem(w, 1, 3 + Len(d.names) + Total(ops, Len),
             [kind |-> "debug", line |-> d.line, ops |-> ops,
              names |-> [k \in DOMAIN d.names |-> OptIndex("string", d.names[k])]])
  IN Got(Checked(g.r, \A k \in DOMAIN ops : Missing \notin ToSet(Tail(ops[k]))), g.n)

\* The shortest bytes, in two's complement when signed.
RECURSIVE WriteIntValue(_, _)
WriteIntValue(v, signed) ==
  LET half == ByteLimit \div 2
      fits == IF signed THEN v \in (-half)..(half - 1) ELSE v < ByteLimit
  IN <<v % ByteLimit>> \o (IF fits THEN <<>> ELSE WriteIntValue(v \div ByteLimit, signed))

\* Zero bytes at the low end are left out, but for the last.
RECURSIVE WriteFloatValue(_)
WriteFloatValue(bytes) ==
  IF Len(bytes) > 1 /\ Head(bytes) = 0 THEN WriteFloatValue(Tail(bytes)) ELSE bytes

RECURSIVE WriteEncodedValue(_), WriteAnnotation(_)
WriteEncodedValue(v) ==
  CASE v[1] = "int"   -> <<"int", WriteIntValue(v[2], TRUE)>>
    [] v[1] = "char"  -> <<"char", WriteIntValue(v[2], FALSE)>>
    [] v[1] = "float" -> <<"float", WriteFloatValue(v[2])>>
    [] v[1] \in {"string", "type", "field", "method"} -> <<v[1], IndexOf(ir, v[1], v[2])>>
    [] v[1] = "enum"  -> <<"enum", IndexOf(ir, "field", v[2])>>
    [] v[1] = "array" -> <<"array", [k \in DOMAIN v[2] |-> WriteEncodedValue(v[2][k])]>>
    [] v[1] = "annotation" -> <<"annotation", WriteAnnotation(v[2])>>
    [] OTHER -> v

WriteAnnotation(n) ==
  LET a == ir.node.ann[n]
      element(e) == <<IndexOf(ir, "string", e[1]), WriteEncodedValue(e[2])>>
  IN [type |-> IndexOf(ir, "type", a.type), elements |-> [k \in DOMAIN a.elements |-> element(a.elements[k])]]

\* Written with the first class that has it.
WriteClassStaticValues(w, c) ==
  LET n == ir.node.class[c].values
      written(v) == AddItem(v, 1, 1 + 2 * Len(ir.node.array[n]),
                      [kind |-> "array",
                       values |-> [k \in DOMAIN ir.node.array[n] |-> WriteEncodedValue(ir.node.array[n][k])]])
  IN IF n = 0 \/ <<"array", n>> \in DOMAIN w.ptr THEN w ELSE CreateItems(w, "array", <<n>>, LAMBDA v, x : written(v))
-----------------------------------------------------------------------------
(* The writer: code and class data.                                        *)
WriteInstruction(i) == IF i[1] \in DOMAIN Refers THEN <<i[1], MapIndex(Refers[i[1]], i[2])>> ELSE i
IndexFits(i) == i[1] \in DOMAIN Refers => /\ i[2] \notin {NoIndex, Missing}
                                          /\ i[1] # "const_string_jumbo" => i[2] < IndexLimit

HandlerSize(h) == 1 + Total(h.types, LAMBDA t : Leb(t) + 1) + (IF h.all = NoIndex THEN 0 ELSE 1)
\* The place of handler k in its list.
HandlerOff(hs, k) == Leb(Len(hs)) + Total(SubSeq(hs, 1, k - 1), HandlerSize)

WriteHandler(h) == [h EXCEPT !.types = [k \in DOMAIN h.types |-> MapIndex("type", h.types[k])]]

KeepHandlerOff(try, old, new) == try   \* a slip

\* A try block keeps its handler, wherever the new list has it.
WriteTryBlock(try, old, new) ==
  LET moved == {k \in DOMAIN old : HandlerOff(old, k) = try.handler}
  IN [try EXCEPT !.handler = IF moved = {} THEN 0 ELSE HandlerOff(new, CHOOSE k \in moved : TRUE)]

WriteCode(w, n) ==
  LET c == ir.node.code[n]
      insns == [k \in DOMAIN c.insns |-> WriteInstruction(c.insns[k])]
      handlers == [k \in DOMAIN c.handlers |-> WriteHandler(c.handlers[k])]
      tries == [k \in DOMAIN c.tries |-> WriteTryBlock(c.tries[k], c.handlers, handlers)]
      debug == FilePointer(w, "debug", c.debug)
      list == IF tries = <<>> THEN 0 ELSE 8 * Len(tries) + HandlerOff(handlers, Len(handlers) + 1)
      g == AddItem(w, 4, 16 + 4 * Len(insns) + list,
             [kind |-> "code", insns |-> insns, tries |-> tries, handlers |-> handlers, debug |-> debug])
      ok == /\ insns # <<>> /\ \A k \in DOMAIN insns : IndexFits(insns[k])
            /\ \A k \in DOMAIN handlers : Missing \notin ToSet(handlers[k].types)
            /\ \A k \in DOMAIN tries : tries[k].handler # 0
            /\ debug # Missing
  IN Got(Checked(g.r, ok), g.n)

Delta(is, k) == IF k = 1 THEN is[1] ELSE is[k] - is[k - 1]

WriteEncodedFields(fs) ==
  LET is == [k \in DOMAIN fs |-> IndexOf(ir, "field", fs[k].decl)]
  IN [k \in DOMAIN fs |-> [delta |-> Delta(is, k), flags |-> fs[k].flags]]

WriteEncodedMethods(w, ms) ==
  LET is == [k \in DOMAIN ms |-> IndexOf(ir, "method", ir.node.encoded[ms[k]].decl)]
  IN [k \in DOMAIN ms |-> [delta |-> Delta(is, k), flags |-> ir.node.encoded[ms[k]].flags,
                           code |-> FilePointer(w, "code", ir.node.encoded[ms[k]].code)]]

WriteClassData(w, c) ==
  LET class == ir.node.class[c]
      item == [kind |-> "class_data",
               statics |-> WriteEncodedFields(class.statics), instances |-> WriteEncodedFields(class.instances),
               directs |-> WriteEncodedMethods(w, class.directs),
               virtuals |-> WriteEncodedMethods(w, class.virtuals)]
      fields == item.statics \o item.instances
      methods == item.directs \o item.virtuals
      rising(es) == \A k \in 2..Len(es) : es[k].delta > 0
      ok == /\ rising(item.statics) /\ rising(item.instances) /\ rising(item.directs) /\ rising(item.virtuals)
            /\ \A k \in DOMAIN methods : methods[k].code # Missing
      write(v, x) == LET g == AddItem(v, 1, 4 + 2 * Len(fields) + 4 * Len(methods), item)
                     IN Got(Checked(g.r, ok), g.n)
  IN IF fields \o methods = <<>> THEN w ELSE CreateItems(w, "class_data", <<c>>, write)
-----------------------------------------------------------------------------
(* The writer: annotations.                                                *)
WriteAnnotationItem(w, n) ==
  AddItem(w, 1, 3 + 3 * Len(ir.node.ann[n].elements),
          [kind |-> "ann", visibility |-> ir.node.ann[n].visibility, annotation |-> WriteAnnotation(n)])

\* A list of pointers to what was written before.
WritePointers(w, kind, to, ns) ==
  LET entries == FilePointers(w, to, ns)
      g == AddItem(w, 4, 4 + 4 * Len(ns), [kind |-> kind, entries |-> entries])
  IN Got(Checked(g.r, Missing \notin ToSet(entries)), g.n)
WriteAnnotationSet(w, n) == WritePointers(w, "set", "ann", ir.node.set[n])
WriteAnnotationSetRefList(w, n) == WritePointers(w, "refs", "set", ir.node.refs[n])

\* A directory that classes share is written with the first of them.
WriteClassAnnotations(w, c) ==
  LET n == ir.node.class[c].annotations
      d == ir.node.dir[n]
      items(v, k, to, es) == [j \in DOMAIN es |-> <<IndexOf(ir, k, es[j][1]), FilePointer(v, to, es[j][2])>>]
      item(v) == [kind |-> "dir", class |-> FilePointer(v, "set", d.class),
                  fields |-> items(v, "field", "set", d.fields),
                  methods |-> items(v, "method", "set", d.methods),
                  params |-> items(v, "method", "refs", d.params)]
      pointers(i) == {i.class} \cup {e[2] : e \in ToSet(i.fields \o i.methods \o i.params)}
      write(v, x) == LET g == AddItem(v, 4, 16 + 8 * Len(d.fields \o d.methods \o d.params), item(v))
                     IN Got(Checked(g.r, Missing \notin pointers(item(v))), g.n)
  IN IF n = 0 \/ <<"dir", n>> \in DOMAIN w.ptr THEN w ELSE CreateItems(w, "dir", <<n>>, write)

CreateSection(w, name) ==
  CASE name = "string_data" -> CreateItems(w, "string", InOrder("string"), WriteString)
    [] name = "list"  -> CreateItems(w, "list", AllOf("list"), WriteTypeList)
    [] name = "debug" -> CreateItems(w, "debug", AllOf("debug"), WriteDebugInfo)
    [] name = "array" -> FoldLeft(WriteClassStaticValues, w, InOrder("class"))
    [] name = "code"  -> CreateItems(w, "code", AllOf("code"), WriteCode)
    [] name = "class_data" -> FoldLeft(WriteClassData, w, InOrder("class"))
    [] name = "ann"   ->
         CreateItems(w, "ann", SelectSeq(AllOf("ann"), LAMBDA n : ir.node.ann[n].visibility # "encoded"),
                     WriteAnnotationItem)
    [] name = "set"   -> CreateItems(w, "set", AllOf("set"), WriteAnnotationSet)
    [] name = "refs"  -> CreateItems(w, "refs", AllOf("refs"), WriteAnnotationSetRefList)
    [] name = "dir"   -> FoldLeft(WriteClassAnnotations, w, InOrder("class"))

Create ==
  LET name == SectionNames[Len(out.sec) + 1 - Len(Tables)] IN
  /\ phase = "create" /\ out.ok
  /\ out' = Seal(CreateSection(out, name), name)
  /\ phase' = IF name = Last(SectionNames) THEN "fill" ELSE phase
  /\ UNCHANGED <<image, want, todo, ir, edited, tried>>
-----------------------------------------------------------------------------
(* The index tables, the map and the header.                               *)
NewImage == [ok |-> TRUE, at |-> <<>>, ptr |-> <<>>, sec |-> <<>>, offset |-> HeaderSize, size |-> 0, count |-> 0]

\* Room for the index tables, which are filled in last.
InitTable(w, k) ==
  [w EXCEPT !.sec = Append(@, [type |-> k, count |-> Newest(ir, k), off |-> w.offset]),
            !.offset = @ + RowSize[k] * Newest(ir, k)]

\* CreateImage, which takes the IR as it stands.
Normalize ==
  /\ phase = "read" /\ todo = <<>> /\ ir.ok
  /\ ir' = Normalized(ir)
  /\ out' = FoldLeft(InitTable, NewImage, Tables)
  /\ phase' = "create"
  /\ UNCHANGED <<image, want, todo, edited, tried>>

Filled(k, Row(_)) ==
  LET order == InOrder(k) IN [i \in 0..(Newest(ir, k) - 1) |-> Row(ir.node[k][order[i + 1]])]
FillStrings(w) ==
  LET order == InOrder("string")
  IN [i \in 0..(Newest(ir, "string") - 1) |-> FilePointer(w, "string", order[i + 1])]
FillTypes == Filled("type", LAMBDA n : IndexOf(ir, "string", n.desc))
FillProtos(w) ==
  Filled("proto", LAMBDA n : [shorty |-> IndexOf(ir, "string", n.shorty), ret |-> IndexOf(ir, "type", n.ret),
                              params |-> FilePointer(w, "list", n.params)])
FillFields ==
  Filled("field", LAMBDA n : [class |-> IndexOf(ir, "type", n.parent), type |-> IndexOf(ir, "type", n.type),
                              name |-> IndexOf(ir, "string", n.name)])
FillMethods ==
  Filled("method", LAMBDA n : [class |-> IndexOf(ir, "type", n.parent), proto |-> IndexOf(ir, "proto", n.proto),
                               name |-> IndexOf(ir, "string", n.name)])
FillClassDefs(w) ==
  LET order == InOrder("class") IN
  [i \in 0..(Newest(ir, "class") - 1) |->
    LET c == order[i + 1]
        n == ir.node.class[c]
    IN [type |-> IndexOf(ir, "type", n.type), flags |-> n.flags, super |-> OptIndex("type", n.super),
        source |-> OptIndex("string", n.source), interfaces |-> FilePointer(w, "list", n.interfaces),
        data |-> IF <<"class_data", c>> \in DOMAIN w.ptr THEN w.ptr[<<"class_data", c>>] ELSE 0,
        values |-> FilePointer(w, "array", n.values), annotations |-> FilePointer(w, "dir", n.annotations)]]

\* What is there, in the order of the file.
MapSection(w) ==
  SortedBy(<<[type |-> "header", count |-> 1, off |-> 0]>> \o
           SelectSeq(w.sec, LAMBDA s : s.count > 0) \o
           <<[type |-> "map", count |-> 1, off |-> w.offset]>>, LAMBDA s : s.off)

SectionOffset(w, k) ==
  LET s == CHOOSE s \in ToSet(w.sec) : s.type = k IN IF s.count = 0 THEN 0 ELSE s.off

CreateImage ==
  LET map == MapSection(out)
      size == out.offset + AlignUp(4 + 12 * Len(map), 4)
      data == LET s == CHOOSE s \in ToSet(out.sec) : s.type = "string_data" IN s.off
      protos == FillProtos(out)
      classes == FillClassDefs(out)
      pointers == {protos[i].params : i \in DOMAIN protos} \cup
                  UNION {{classes[i].interfaces, classes[i].values, classes[i].annotations} : i \in DOMAIN classes}
  IN /\ phase = "fill" /\ out.ok
     /\ out' = [ok |-> /\ Missing \notin pointers
                       /\ Distinct([k \in DOMAIN map |-> map[k].off])
                       /\ \A k \in DOMAIN map : map[k].type # "header" => map[k].off \in HeaderSize..(size - 1),
                at |-> out.at, map |-> map,
                header |-> [file_size |-> size, map_off |-> out.offset, data_off |-> data,
                            data_size |-> size - data,
                            off |-> [k \in ToSet(Tables) |-> SectionOffset(out, k)]],
                string |-> FillStrings(out), type |-> FillTypes, proto |-> protos, field |-> FillFields,
                method |-> FillMethods, class |-> classes]
     /\ phase' = "done"
     /\ UNCHANGED <<image, want, todo, ir, edited, tried>>

Init ==
  /\ \E j \in Jobs : image = j.image /\ want = j.want
  /\ phase = "open" /\ todo = <<>> /\ ir = EmptyIr /\ edited = <<>> /\ tried = {}
  /\ out = NewImage

\* The image is handed over, or there was nothing to transform.
Finished == phase \in {"done", "no_class"} /\ UNCHANGED vars

Next == \/ Open \/ CreateClassIr \/ (\E e \in Edits : InstrumentMethod(e)) \/ Normalize
        \/ Create \/ CreateImage \/ Finished

Spec == Init /\ [][Next]_vars
-----------------------------------------------------------------------------
(* What an image says, in texts instead of indexes and offsets.            *)
ListText(img, off) ==
  IF off = 0 THEN <<>> ELSE [k \in DOMAIN img.at[off].types |-> TypeText(img, img.at[off].types[k])]
ProtoText(img, i) ==
  LET p == img.proto[i] IN [ret |-> TypeText(img, p.ret), params |-> ListText(img, p.params),
                            shorty |-> TextAt(img, p.shorty)]
FieldText(img, i) ==
  LET f == img.field[i]
  IN [class |-> TypeText(img, f.class), name |-> TextAt(img, f.name), type |-> TypeText(img, f.type)]
MethodText(img, i) ==
  LET m == img.method[i]
  IN [class |-> TypeText(img, m.class), name |-> TextAt(img, m.name), proto |-> ProtoText(img, m.proto)]

RefText(img, ref) ==
  CASE ref[2] = NoIndex -> <<"none">>
    [] ref[1] = "string" -> <<"string", TextAt(img, ref[2])>>
    [] ref[1] = "type" -> <<"type", TypeText(img, ref[2])>>
    [] ref[1] \in {"field", "enum"} -> <<ref[1], FieldText(img, ref[2])>>
    [] ref[1] = "method" -> <<"method", MethodText(img, ref[2])>>
RefTexts(img, refs) == [k \in DOMAIN refs |-> RefText(img, refs[k])]

RECURSIVE ValueText(_, _), AnnotationText(_, _)
ValueText(img, v) ==
  CASE v[1] \in {"string", "type", "field", "method", "enum"} -> RefText(img, v)
    [] v[1] = "array" -> <<"array", [k \in DOMAIN v[2] |-> ValueText(img, v[2][k])]>>
    [] v[1] = "annotation" -> <<"annotation", AnnotationText(img, v[2])>>
    [] OTHER -> v
AnnotationText(img, a) ==
  [type |-> TypeText(img, a.type),
   elements |-> {<<TextAt(img, a.elements[k][1]), ValueText(img, a.elements[k][2])>> : k \in DOMAIN a.elements}]

SetText(img, off) ==
  IF off = 0 THEN {}
  ELSE {<<img.at[e].visibility, AnnotationText(img, img.at[e].annotation)>> : e \in ToSet(img.at[off].entries)}

\* The parameters that have annotations, in order: which of them they are is
\* lost, as the reader skips the others.
RefsText(img, off) ==
  LET some == SelectSeq(img.at[off].entries, LAMBDA e : e # 0) IN [k \in DOMAIN some |-> SetText(img, some[k])]

DirText(img, off) ==
  IF off = 0 THEN <<>>
  ELSE LET d == img.at[off] IN
       <<SetText(img, d.class), {<<FieldText(img, e[1]), SetText(img, e[2])>> : e \in ToSet(d.fields)},
         {<<MethodText(img, e[1]), SetText(img, e[2])>> : e \in ToSet(d.methods)},
         {<<MethodText(img, e[1]), RefsText(img, e[2])>> : e \in ToSet(d.params)}>>

DebugText(img, off) ==
  IF off = 0 THEN <<>>
  ELSE LET d == img.at[off]
           op(o) == IF DebugRefs(o) = <<>> THEN o ELSE <<o[1]>> \o RefTexts(img, DebugRefs(o))
       IN <<d.line, RefTexts(img, [k \in DOMAIN d.names |-> <<"string", d.names[k]>>]),
            [k \in DOMAIN d.ops |-> op(d.ops[k])]>>

TryText(img, code, try) ==
  LET h == {k \in DOMAIN code.handlers : HandlerOff(code.handlers, k) = try.handler}
  IN <<[try EXCEPT !.handler = 0],
       {<<[j \in DOMAIN code.handlers[k].types |-> TypeText(img, code.handlers[k].types[j])],
          code.handlers[k].all>> : k \in h}>>

InsnText(img, i) == IF InstructionRef(i) = <<>> THEN i ELSE <<i[1]>> \o RefTexts(img, InstructionRef(i))

CodeText(img, off) ==
  IF off = 0 THEN <<>>
  ELSE LET c == img.at[off] IN
       <<[insns |-> [k \in DOMAIN c.insns |-> InsnText(img, c.insns[k])],
          tries |-> [k \in DOMAIN c.tries |-> TryText(img, c, c.tries[k])],
          debug |-> DebugText(img, c.debug)]>>

MemberIndex(es, k) == Total(SubSeq(es, 1, k), LAMBDA e : e.delta)
FieldTexts(img, es) == {[field |-> FieldText(img, MemberIndex(es, k)), flags |-> es[k].flags] : k \in DOMAIN es}
MethodTexts(img, es) ==
  {[method |-> MethodText(img, MemberIndex(es, k)), flags |-> es[k].flags, code |-> CodeText(img, es[k].code)] :
     k \in DOMAIN es}

\* The static fields that have a value, with it: the values go by position.
InitialTexts(img, es, off) ==
  IF off = 0 THEN {}
  ELSE {<<FieldText(img, MemberIndex(es, k)), ValueText(img, img.at[off].values[k])>> : k \in DOMAIN img.at[off].values}

ClassText(img, row) ==
  LET data == IF row.data = 0 THEN NoMembers ELSE img.at[row.data] IN
  [type |-> TypeText(img, row.type), flags |-> row.flags, super |-> TypeText(img, row.super),
   interfaces |-> ListText(img, row.interfaces), source |-> TextAt(img, row.source),
   statics |-> FieldTexts(img, data.statics), instances |-> FieldTexts(img, data.instances),
   directs |-> MethodTexts(img, data.directs), virtuals |-> MethodTexts(img, data.virtuals),
   initial |-> InitialTexts(img, data.statics, row.values), annotations |-> DirText(img, row.annotations)]

ProtoOf(e) == [ret |-> e.ret, params |-> e.params, shorty |-> Shorty(e.ret, e.params)]
TargetOf(e) == [class |-> e.class, name |-> e.name, proto |-> ProtoOf(e)]
AddedText(e) ==
  <<<<"const_string", <<"string", e.text>>>>,
    IF e.field THEN <<"iget", <<"field", [class |-> e.call.class, name |-> e.call.name, type |-> e.call.ret]>>>>
    ELSE <<"invoke", <<"method", [class |-> e.call.class, name |-> e.call.name, proto |-> ProtoOf(e.call)]>>>>>>

WithEdits(methods) ==
  LET before(m) == FoldLeft(LAMBDA is, e : IF TargetOf(e) = m.method THEN AddedText(e) \o is ELSE is, <<>>, edited)
  IN {IF m.code = <<>> THEN m ELSE [m EXCEPT !.code[1].insns = before(m) \o m.code[1].insns] : m \in methods}

ReadClasses == IF want = Everything THEN DOMAIN image.class ELSE {FindClassIndex(image, want)}
-----------------------------------------------------------------------------
\* Every index of a table leads to a node of its own: "the mapping between an
\* index and the indexed .dex IR nodes is 1:1", for the reader's nodes and
\* the builder's alike.
TypeOK ==
  /\ phase \in {"open", "no_class", "read", "create", "fill", "done"}
  /\ tried \subseteq Edits /\ ToSet(edited) \subseteq tried
  /\ \A k \in ToSet(Tables) :
       /\ {ir.map[k][i] : i \in DOMAIN ir.map[k]} = DOMAIN ir.node[k]
       /\ \A i \in DOMAIN ir.map[k] : ir.node[k][ir.map[k][i]].orig = i

\* No SLICER_CHECK stops the reader or the writer, and no lookup fails: what
\* is referred to has been read, numbered and written before.
NoCheckFails == ir.ok /\ out.ok

\* The new image has the classes that were read, and they are the same but
\* for the instructions put in by the edits: members, initial values of
\* static fields, annotations, code with its handlers and debug information
\* name the same things, though every index and offset is new
\* (Reader, DexFile::Normalize, Writer).
SameClasses ==
  phase = "done" =>
    LET edit(c) == [c EXCEPT !.directs = WithEdits(@), !.virtuals = WithEdits(@)] IN
    /\ Cardinality(DOMAIN out.class) = Cardinality(ReadClasses)
    /\ {ClassText(out, out.class[i]) : i \in DOMAIN out.class} =
         {edit(ClassText(image, image.class[i])) : i \in ReadClasses}

\* FindMethod finds a method that has code in a class that was read, and
\* nothing else, whatever was added to the tables before (MethodInstrumenter,
\* Builder::FindMethod).
FoundMethods ==
  todo = <<>> /\ phase = "read" =>
    LET methods(i) == LET c == ClassText(image, image.class[i]) IN c.directs \cup c.virtuals
        coded == {m.method : m \in {m \in UNION {methods(i) : i \in ReadClasses} : m.code # <<>>}}
    IN ToSet(edited) = {e \in tried : TargetOf(e) \in coded}

\* The orders the format requires, each comparing the new indexes: strings by
\* text, types by string, prototypes, fields and methods by their parts,
\* classes after what they extend, elements by name, sets by type,
\* directories by member (Normalize, whose keys are indexes set just before).
Rising(s, Key(_)) == \A k \in 2..Len(s) : Less(Key(s[k - 1]), Key(s[k]))
Row(k, i) == out[k][i]
RowsRise(k, Key(_)) == \A i \in DOMAIN out[k] \ {0} : Less(Key(Row(k, i - 1)), Key(Row(k, i)))

WellOrdered ==
  phase = "done" =>
    /\ RowsRise("string", LAMBDA s : <<out.at[s].text>>)
    /\ RowsRise("type", LAMBDA t : <<t>>)
    /\ RowsRise("proto", LAMBDA p : <<p.ret>> \o (IF p.params = 0 THEN <<>> ELSE out.at[p.params].types))
    /\ RowsRise("field", LAMBDA f : <<f.class, f.name, f.type>>)
    /\ RowsRise("method", LAMBDA m : <<m.class, m.name, m.proto>>)
    /\ \A i, j \in DOMAIN out.class :
         LET parents == {out.class[j].super} \cup
                        (IF out.class[j].interfaces = 0 THEN {} ELSE ToSet(out.at[out.class[j].interfaces].types))
         IN out.class[i].type \in parents => i < j
    /\ \A off \in DOMAIN out.at :
         LET item == out.at[off]
             first(e) == <<e[1]>>
         IN CASE item.kind = "ann" -> Rising(item.annotation.elements, first)
              [] item.kind = "set" -> Rising(item.entries, LAMBDA e : <<out.at[e].annotation.type>>)
              [] item.kind = "dir" -> /\ Rising(item.fields, first) /\ Rising(item.methods, first)
                                      /\ Rising(item.params, first)
              [] OTHER -> TRUE

\* Every pointer of the new image is 0 or the start of an item of the kind
\* that the reader expects there, which is aligned; the map lists the
\* sections in the order of the file, each with all its items; and the
\* image passes the reader's own ValidateHeader.
ItemPointers(off) ==
  LET item == out.at[off]
      to(kind, ps) == {<<kind, p>> : p \in ps}
      seconds(es) == {e[2] : e \in ToSet(es)}
  IN CASE item.kind = "code" -> to("debug", {item.debug})
       [] item.kind = "class_data" -> to("code", {e.code : e \in ToSet(item.directs \o item.virtuals)})
       [] item.kind = "set"  -> to("ann", ToSet(item.entries))
       [] item.kind = "refs" -> to("set", ToSet(item.entries))
       [] item.kind = "dir"  -> to("set", {item.class} \cup seconds(item.fields \o item.methods)) \cup
                                to("refs", seconds(item.params))
       [] OTHER -> {}

RowPointers ==
  {<<"string_data", out.string[i]>> : i \in DOMAIN out.string} \cup
  {<<"list", out.proto[i].params>> : i \in DOMAIN out.proto} \cup
  UNION {LET c == out.class[i] IN {<<"list", c.interfaces>>, <<"class_data", c.data>>, <<"array", c.values>>,
                                   <<"dir", c.annotations>>} : i \in DOMAIN out.class}

PointersLand ==
  phase = "done" =>
    /\ \A p \in RowPointers \cup UNION {ItemPointers(off) : off \in DOMAIN out.at} :
         p[2] = 0 \/ (p[2] \in DOMAIN out.at /\ out.at[p[2]].kind = p[1])
    /\ \A off \in DOMAIN out.at : out.at[off].kind \in {"list", "code", "set", "refs", "dir"} => off % 4 = 0
    /\ \A k \in DOMAIN out.map :
         LET s == out.map[k]
             items == {off \in DOMAIN out.at : out.at[off].kind = s.type}
             end == IF k = Len(out.map) THEN out.header.file_size ELSE out.map[k + 1].off
         IN /\ s.off < end
            /\ s.type \in ToSet(SectionNames) =>
                 Cardinality(items) = s.count /\ \A off \in items : off \in s.off..(end - 1)
    /\ {out.at[off].kind : off \in DOMAIN out.at} \subseteq {out.map[k].type : k \in DOMAIN out.map}
    /\ ValidateHeader(out)
=============================================================================
