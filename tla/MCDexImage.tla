---------------------------- MODULE MCDexImage ----------------------------
(* Images for DexImage: an activity with its base class and interface, in  *)
(* three variants that share or vary the items behind the classes.  Texts  *)
(* are numbers in string order; the names below stand for them.            *)
EXTENDS DexImage

Activity == 10
Annotation == 12
Helper == 13       \* not in the image, as printEnter, size and format
Base == 14
Failure == 16
Iface == 18
Object == 20
Str == 22
IntT == 30
Void == 32
VL == 34
VLL == 36          \* not in the image
Ctor == 40
count == 42
size == 43
name == 44
onCreate == 46
printEnter == 47
value == 48
p0 == 50
source == 52
hello == 54
format == 55

MCShorty(ret, params) == CASE ret = IntT -> IntT
                           [] params = <<>> -> Void
                           [] Len(params) = 1 -> VL
                           [] OTHER -> VLL

Strings == <<Activity, Annotation, Base, Failure, Iface, Object, Str, IntT, Void, VL, Ctor, count,
             name, onCreate, value, p0, source, hello>>
Types == <<Activity, Annotation, Base, Failure, Iface, Object, Str, IntT, Void>>
Protos == <<<<IntT, <<>>>>, <<Void, <<>>>>, <<Void, <<Iface>>>>, <<Void, <<Str>>>>>>
MyFields == <<<<Activity, count, IntT>>, <<Activity, name, Str>>, <<Activity, value, Str>>, <<Base, count, IntT>>>>
Methods == <<<<Activity, Ctor, Protos[2]>>, <<Activity, onCreate, Protos[3]>>, <<Activity, onCreate, Protos[4]>>,
             <<Annotation, value, Protos[1]>>, <<Base, Ctor, Protos[2]>>, <<Base, onCreate, Protos[3]>>,
             <<Iface, onCreate, Protos[3]>>>>

Pos(s, x) == (CHOOSE k \in DOMAIN s : s[k] = x) - 1
S(t) == Pos(Strings, t)
T(t) == Pos(Types, t)
F(c, n, t) == Pos(MyFields, <<c, n, t>>)
M(c, n, params) == Pos(Methods, <<c, n, <<IF n = value THEN IntT ELSE Void, params>>>>)
ZeroBased(s, Row1(_)) == [i \in 0..(Len(s) - 1) |-> Row1(s[i + 1])]

Lists == (<<>> :> 0) @@ (<<Iface>> :> 1200) @@ (<<Str>> :> 1208)
F1(i, flags) == [delta |-> i, flags |-> flags]
M1(i, flags, code) == [delta |-> i, flags |-> flags, code |-> code]
Class(type, super, interfaces, data, values, annotations) ==
  [type |-> T(type), flags |-> 1, super |-> IF super = 0 THEN NoIndex ELSE T(super), interfaces |-> Lists[interfaces],
   source |-> IF type = Iface THEN NoIndex ELSE S(source), data |-> data, values |-> values, annotations |-> annotations]

Ann(n, v) == [kind |-> "ann", visibility |-> "runtime",
              annotation |-> [type |-> T(Annotation), elements |-> <<<<S(n), v>>>>]]
Handlers == <<[types |-> <<T(Failure)>>, all |-> NoIndex], [types |-> <<T(Str), T(Object)>>, all |-> 9]>>
Values == <<<<"int", <<1, 3>>>>, <<"string", S(hello)>>,
            <<"array", <<<<"char", <<3>>>>, <<"int", <<0, 2>>>>, <<"int", <<2>>>>, <<"float", <<2, 1>>>>,
                         <<"enum", F(Base, count, IntT)>>, <<"field", F(Activity, name, Str)>>,
                         <<"method", M(Base, Ctor, <<>>)>>, <<"type", T(Failure)>>, <<"null">>, <<"boolean", TRUE>>,
                         <<"annotation", [type |-> T(Annotation),
                             elements |-> <<<<S(name), <<"type", T(Iface)>>>>, <<S(value), <<"null">>>>>>]>>>>>>>>

Items ==
  [off \in {1000 + 4 * k : k \in 0..(Len(Strings) - 1)} |->
     [kind |-> "string_data", text |-> Strings[(off - 1000) \div 4 + 1]]] @@
  (1200 :> [kind |-> "list", types |-> <<T(Iface)>>]) @@ (1208 :> [kind |-> "list", types |-> <<T(Str)>>]) @@
  (1220 :> [kind |-> "debug", line |-> 3, names |-> <<S(p0), NoIndex>>,
            ops |-> <<<<"special", 5>>, <<"start_local", S(name), T(IntT)>>, <<"set_file", S(source)>>,
                      <<"start_local_extended", NoIndex, T(Str), S(hello)>>>>]) @@
  (1240 :> [kind |-> "array", values |-> <<<<"int", <<3>>>>>>]) @@
  (1250 :> [kind |-> "array", values |-> Values]) @@
  (1300 :> [kind |-> "code", insns |-> <<<<"invoke", M(Base, Ctor, <<>>)>>, <<"return">>>>, tries |-> <<>>,
            handlers |-> <<>>, debug |-> 0]) @@
  (1340 :> [kind |-> "code", debug |-> 1220, handlers |-> Handlers,
            insns |-> <<<<"const_string", S(hello)>>, <<"check_cast", T(Failure)>>,
                        <<"iget", F(Activity, name, Str)>>, <<"const_string_jumbo", S(source)>>,
                        <<"invoke", M(Iface, onCreate, <<Iface>>)>>, <<"return">>>>,
            tries |-> <<[start |-> 0, handler |-> HandlerOff(Handlers, 2)],
                        [start |-> 4, handler |-> HandlerOff(Handlers, 1)]>>]) @@
  (1400 :> [kind |-> "class_data", instances |-> <<>>, directs |-> <<M1(0, 1, 1300)>>,
            statics |-> <<F1(0, 8), F1(1, 8), F1(1, 9)>>, virtuals |-> <<M1(1, 1, 1340), M1(1, 1, 1300)>>]) @@
  (1430 :> [kind |-> "class_data", statics |-> <<F1(3, 8)>>, instances |-> <<>>, directs |-> <<M1(4, 1, 1300)>>,
            virtuals |-> <<M1(5, 1, 1340)>>]) @@
  (1450 :> [kind |-> "class_data", statics |-> <<>>, instances |-> <<>>, directs |-> <<>>,
            virtuals |-> <<M1(6, 4, 0)>>]) @@
  (1460 :> [kind |-> "class_data", statics |-> <<F1(2, 8)>>, instances |-> <<F1(0, 2), F1(1, 0)>>,
            directs |-> <<>>, virtuals |-> <<M1(2, 1, 1340)>>]) @@
  (1500 :> Ann(value, <<"string", S(hello)>>)) @@ (1510 :> Ann(name, <<"type", T(Base)>>)) @@
  (1520 :> [Ann(value, <<"null">>) EXCEPT !.annotation.type = T(Failure), !.annotation.elements =
              <<<<S(name), <<"annotation", [type |-> T(Annotation), elements |-> <<>>]>>>>, <<S(value), <<"null">>>>>>]) @@
  (1540 :> [kind |-> "set", entries |-> <<1500, 1520>>]) @@ (1552 :> [kind |-> "set", entries |-> <<1510>>]) @@
  (1564 :> [kind |-> "refs", entries |-> <<0, 1540>>]) @@
  (1600 :> [kind |-> "dir", class |-> 1540, fields |-> <<>>, methods |-> <<>>, params |-> <<>>]) @@
  (1640 :> [kind |-> "dir", class |-> 0,
            fields |-> <<<<F(Activity, count, IntT), 1540>>, <<F(Activity, name, Str), 1552>>>>,
            methods |-> <<<<M(Activity, Ctor, <<>>), 1540>>, <<M(Activity, onCreate, <<Str>>), 1552>>>>,
            params |-> <<<<M(Activity, onCreate, <<Str>>), 1564>>>>])

\* 1: everything shared; 2: rich values and annotations; 3: few members.
Image(v) ==
  [header |-> [file_size |-> 2000, map_off |-> 1900, data_off |-> 1000, data_size |-> 1000,
               off |-> [k \in ToSet(Tables) |-> 112]],
   map |-> <<[type |-> "header", count |-> 1, off |-> 0]>>, at |-> Items,
   string |-> ZeroBased(Strings, LAMBDA t : 1000 + 4 * S(t)),
   type |-> ZeroBased(Types, S),
   proto |-> ZeroBased(Protos, LAMBDA p : [shorty |-> S(MCShorty(p[1], p[2])), ret |-> T(p[1]), params |-> Lists[p[2]]]),
   field |-> ZeroBased(MyFields, LAMBDA f : [class |-> T(f[1]), name |-> S(f[2]), type |-> T(f[3])]),
   method |-> ZeroBased(Methods, LAMBDA m : [class |-> T(m[1]), name |-> S(m[2]), proto |-> Pos(Protos, m[3])]),
   class |-> ZeroBased(<<Class(Iface, 0, <<>>, 1450, 0, IF v = 1 THEN 1600 ELSE 0),
                         Class(Base, Object, <<Iface>>, IF v = 3 THEN 0 ELSE 1430, IF v = 3 THEN 0 ELSE 1240,
                               IF v = 1 THEN 1600 ELSE 0),
                         Class(Activity, Base, <<Iface>>, IF v = 3 THEN 1460 ELSE 1400, IF v = 1 THEN 1240 ELSE IF v = 2 THEN 1250 ELSE 0,
                               IF v = 1 THEN 1600 ELSE 1640)>>, LAMBDA c : c)]

MCJobs == [image : {Image(1), Image(2), Image(3)}, want : {Everything, Activity, Base, Helper}]

Call(class, n, params, ret) == [class |-> class, name |-> n, params |-> params, ret |-> ret]
Edit(class, n, params, field, call, text) ==
  [class |-> class, name |-> n, params |-> params, ret |-> Void, field |-> field, call |-> call, text |-> text]

\* The probe of ClassTransform; a new field in the midst of the others; a
\* method without code, which calls one that may have been read.
MCEdits == {Edit(Activity, onCreate, <<Str>>, FALSE, Call(Helper, printEnter, <<Object, Str>>, Void), format),
            Edit(Activity, onCreate, <<Iface>>, TRUE, Call(Activity, size, <<>>, IntT), hello),
            Edit(Base, onCreate, <<Iface>>, FALSE, Call(Iface, onCreate, <<Iface>>, Void), format),
            Edit(Iface, onCreate, <<Iface>>, FALSE, Call(Base, Ctor, <<>>, Void), hello)}
=============================================================================
