------------------------------- MODULE BerryVM -------------------------------
(***************************************************************************)
(* The Berry virtual machine (be_vm.c, be_exec.c, the native functions of  *)
(* be_listlib.c, be_maplib.c, be_rangelib.c and be_baselib.c) and the host *)
(* that drives a script with it (aktualino_berry.c): it runs the compiled  *)
(* top level, then calls the entries one after another, each protected.    *)
(*                                                                         *)
(* A step executes one instruction; a native function is part of the step  *)
(* that calls it.  Where the code calls a closure from C and goes on when  *)
(* it returns (be_dofunc), the frame keeps what is to be done then.        *)
(***************************************************************************)
EXTENDS BerryHeap

CONSTANT GcModes        \* {"never", "always"}: when the collector runs

VARIABLE vm

Nothing == [k |-> "none", n |-> 0, a |-> 0, sense |-> TRUE]
After(k, n, a) == [k |-> k, n |-> n, a |-> a, sense |-> TRUE]

Idle(m) == m.frames = <<>>
Depth(m) == Len(m.frames)

\* The objects that the compiler leaves: the classes, at addresses 1, 2, ...,
\* and a closure for each of their methods.
FirstHeap(cs) ==
  LET ms == Listed({<<c, x>> \in (DOMAIN cs) \X UNION {DOMAIN cs[c].members : c \in DOMAIN cs} :
                        x \in DOMAIN cs[c].members /\ cs[c].members[x][1] \in {"clo", "static"}})
      At(c, x) == Len(cs) + CHOOSE i \in DOMAIN ms : ms[i] = <<c, x>>
      Mbr(c, x) == LET e == cs[c].members[x]
                   IN  CASE e[1] = "var" -> e [] e[1] = "nil" -> <<"static", Nil>>
                         [] e[1] = "clo" -> <<"method", <<"clo", At(c, x)>>>>
                         [] e[1] = "static" -> <<"static", <<"clo", At(c, x)>>>>
  IN  [c \in DOMAIN cs |-> [k |-> "class", super |-> 0, nvar |-> cs[c].nvar, members |-> [x \in DOMAIN cs[c].members |-> Mbr(c, x)]]]
      \o [i \in DOMAIN ms |-> [k |-> "clo", proto |-> cs[ms[i][1]].members[ms[i][2]][2], ups |-> <<>>]]

\* A machine that holds the compiled code and has run none of it.
Machine(p, gc, code, heap) ==
  [p |-> p, gc |-> gc, code |-> code, uses |-> ProtoClasses(code.protos),
   stack |-> [i \in 1 .. StackSize |-> Nil], reg |-> 0, top |-> 0, ip |-> 0,
   frames |-> <<>>, excs |-> <<>>, heap |-> heap, next |-> Len(heap) + 1, uvs |-> <<>>, open |-> <<>>,
   glob |-> [i \in DOMAIN code.globals |-> IF i <= Len(Builtins) THEN <<"fn", Builtins[i]>> ELSE Nil],
   trace |-> <<>>, log |-> <<>>, rcs |-> <<>>, saved |-> 0]
Loaded(p, gc, code) == Machine(p, gc, code, FirstHeap(code.classes))

Init == \E p \in DOMAIN Programs, gc \in GcModes : vm = Loaded(p, gc, Compile(Tokens(Programs[p])))

-----------------------------------------------------------------------------
\* Exceptions (be_exec.c): the value and its argument travel above the top.

\* be_except_block_resume: back in the function of the innermost try block, the
\* exception above its top.
ResumeBlock(m) ==
  LET e == Last(m.excs)
      cf == m.frames[e.depth + 1]
      left == PutCell(PutCell([m EXCEPT !.top = cf.top, !.reg = cf.reg, !.frames = SubSeq(@, 1, e.depth)],
                              cf.top, Cell(m, m.top)), cf.top + 1, Cell(m, m.top + 1))
  IN  [IF Depth(m) > e.depth THEN left ELSE m EXCEPT !.ip = e.ip, !.excs = Front(@)]

\* vm_state_restore of be_protectedcall: two values of exception on top of the
\* saved stack, one of which akt_berry_load and akt_berry_call pop.
RestoreState(m) ==
  LET out == PutCell(PutCell([m EXCEPT !.reg = 0, !.frames = <<>>], m.saved, Cell(m, m.top)), m.saved + 1, Cell(m, m.top + 1))
  IN  [out EXCEPT !.top = m.saved + 1, !.rcs = Append(@, "error")]

\* be_throw: to the innermost recovery point.
Unwind(m) == IF m.excs # <<>> THEN ResumeBlock(m) ELSE RestoreState(m)

SaveTrace(m) == [m EXCEPT !.trace = [i \in DOMAIN m.frames |-> Cell(m, m.frames[i].func)]]

\* be_raise
Throw(m, v, w) == Unwind(SaveTrace(PutCell(PutCell(m, m.top, v), m.top + 1, w)))
Error(m, what) == Throw(m, Str(what), Str("message"))

-----------------------------------------------------------------------------
\* Calls and returns.

\* precall: a frame for the function in cell `at'.
PushFrame(m, at, size, mode, then) ==
  [m EXCEPT !.frames = Append(@, [func |-> at - mode, reg |-> m.reg, top |-> m.top, ip |-> m.ip, then |-> then]),
            !.reg = at + 1, !.top = at + 1 + size]

\* prep_closure: parameters that are not given are set to nil, one cell more too.
PushClosure(m, at, argc, mode, then) ==
  LET f == ProtoOf(m, Cell(m, at))
      m1 == PushFrame(m, at, f.nstack, mode, then)
  IN  [m1 EXCEPT !.ip = 0, !.stack = [i \in DOMAIN @ |-> IF i - 1 \in m1.reg + argc .. m1.reg + f.argc THEN Nil ELSE @[i]]]

PutReg(m, a, v) == PutCell(m, m.reg + a, v)

RECURSIVE Return(_, _), Resume(_, _, _), Native(_, _), DoFunc(_, _, _, _), CallFrom(_, _, _, _)

\* Resume: what the C code that called the function does with its result v.
Resume(m, then, v) ==
  LET m1 == [m EXCEPT !.top = @ - then.n]
      isbool == v[1] = "bool"
  IN  CASE then.k = "none" -> m1
        [] then.k = "value" -> PutReg(m1, then.a, v)
        [] then.k = "bool" -> IF isbool THEN PutReg(m1, then.a, v) ELSE Error(m1, "type_error")      \* check_bool
        [] then.k = "jump" -> IF ~isbool THEN Error(m1, "type_error")
                              ELSE IF v[2] = then.sense THEN [m1 EXCEPT !.ip = then.a] ELSE m1
        [] then.k = "native" -> Return(m1, v)
        [] then.k = "host" -> [m1 EXCEPT !.rcs = Append(@, "ok")]

\* RET and ret_native: the result takes the place of the function.
Return(m, v) ==
  LET cf == Last(m.frames)
      m1 == [PutCell(m, cf.func, v) EXCEPT !.reg = cf.reg, !.top = cf.top, !.ip = cf.ip, !.frames = Front(@)]
  IN  Resume(m1, cf.then, v)

\* be_dofunc: call the function in cell `at' from C.
DoFunc(m, at, argc, then) ==
  LET f == Cell(m, at)
  IN  CASE f[1] = "clo" -> PushClosure(m, at, argc, 0, then)
        [] f[1] \in {"fn", "ntv"} -> Native(PushFrame(m, at, argc, 0, then), f)
        [] OTHER -> Error(m, "type_error")

\* The method x of an object, a built-in one by its name, or Nil.
NativeMethods == [list |-> {"item", "setitem", "push", "pop", "insert", "remove", "size", "clear", "resize", "reverse", "iter", "..", "+", "==", "!=", "find", "keys", "copy"},
                  map |-> {"item", "setitem", "insert", "remove", "find", "contains", "size", "iter", "keys"},
                  range |-> {"iter", "lower", "upper", "setrange"}]
MethodOf(m, o, x) ==
  IF o[1] = "inst" THEN IF InstanceMember(m, o[2], x) = 0 THEN Nil ELSE Member(m, o[2], x).v
  ELSE IF o[1] \in DOMAIN NativeMethods /\ x \in NativeMethods[o[1]] THEN <<"fn", x>> ELSE Nil

Object(v) == v[1] \in {"inst", "list", "map", "range"}

\* object_binop, ins_unop, obj2bool and the rest: the method and its arguments
\* go above the top, n cells of which are protected during the call.
CallMethod(m, x, args, then) ==
  LET f == MethodOf(m, args[1], x)
      put == [m EXCEPT !.stack = [i \in DOMAIN @ |-> IF i = m.top + 1 THEN f
                                     ELSE IF i - m.top - 1 \in DOMAIN args THEN args[i - m.top - 1] ELSE @[i]]]
  IN  IF ~IsFunction(f) THEN Error(m, "attribute_error")
      ELSE DoFunc([put EXCEPT !.top = @ + then.n], m.top, Len(args), then)

-----------------------------------------------------------------------------
\* Native functions: Native(m, f) runs f in the frame just pushed for it.

Arg(m, i) == Cell(m, m.reg + i - 1)
Argc(m) == m.top - m.reg

\* An iterator keeps its object and where it is, before the first element; that
\* of a range keeps the bounds.
ReturnObject(type, x) == Return(x.m, <<type, x.a>>)
NewIter(m, o, keys) ==
  LET r == ObjOf(m, o)
  IN  ReturnObject("ntv", New(m, IF o[1] = "range" THEN [k |-> "ntv", of |-> Nil, pos |-> r.lo, hi |-> r.hi]
                                 ELSE [k |-> "ntv", of |-> o, keys |-> keys, pos |-> -1]))

\* The three iter_closures: [over, v, pos], pos being where the iterator is then.
ListNext(it, l) ==
  LET over == it.pos + 1 >= l.count
  IN  [over |-> over, v |-> IF over THEN Nil ELSE l.data[it.pos + 2], pos |-> it.pos + 1]
MapNext(it, o) ==
  LET pos == Table!MapNext(o.table, it.pos)
      slot == Table!Slot(o.table, pos)
      over == pos = Table!NoSlot
  IN  [over |-> over, v |-> IF over THEN Nil ELSE IF it.keys THEN slot.key ELSE slot.val, pos |-> pos]
RangeNext(it) == [over |-> it.pos > it.hi, v |-> Num(it.pos), pos |-> it.pos + 1]

IterNext(m, f) ==
  LET it == ObjOf(m, f)
      o == ObjOf(m, it.of)
      next == IF it.of = Nil THEN RangeNext(it) ELSE IF o.k = "list" THEN ListNext(it, o) ELSE MapNext(it, o)
  IN  IF next.over THEN Throw(m, Str("stop_iteration"), Nil)
      ELSE Return([m EXCEPT !.heap[f[2]].pos = next.pos], next.v)

Put(m, o, obj) == [m EXCEPT !.heap[o[2]] = obj]

\* The data of an object by index or key (be_api.c); what is of the wrong type
\* changes nothing.  DataGet and DataSet: [ok, ...].
DataGet(m, o, k) ==
  LET d == ObjOf(m, o)
      ok == IF d.k = "list" THEN IsInt(k) /\ InList(d, k[2]) ELSE k # Nil /\ Table!Find(d.table, k) # Table!NoSlot
  IN  [ok |-> ok, v |-> IF ~ok THEN Nil ELSE IF d.k = "list" THEN d.data[ListIndex(d, k[2]) + 1] ELSE Table!MapFind(d.table, k)]

\* A list is also written at a negative index, before its data; no program here does.
DataSet(m, o, k, v) ==
  LET d == ObjOf(m, o)
      ok == IF d.k = "list" THEN IsInt(k) /\ k[2] \in 0 .. d.count - 1 ELSE k # Nil
  IN  [ok |-> ok, m |-> IF ~ok THEN m
                        ELSE IF d.k = "list" THEN Put(m, o, [d EXCEPT !.data[k[2] + 1] = v])
                        ELSE Put(m, o, [d EXCEPT !.table = Table!MapInsert(@, k, v)])]

DataPush(m, o, v) == Put(m, o, ListPush(ObjOf(m, o), v))

DataInsert(m, o, k, v) ==
  LET d == ObjOf(m, o)
      new == k # Nil /\ Table!Find(d.table, k) = Table!NoSlot
  IN  IF d.k = "list" THEN [ok |-> IsInt(k), m |-> IF IsInt(k) THEN Put(m, o, ListInsert(d, k[2], v)) ELSE m]
      ELSE [ok |-> new, m |-> IF new THEN Put(m, o, [d EXCEPT !.table = Table!MapInsert(@, k, v)]) ELSE m]

DataRemove(m, o, k) ==
  LET d == ObjOf(m, o)
  IN  IF d.k = "list" THEN IF IsInt(k) THEN Put(m, o, ListRemove(d, k[2])) ELSE m
      ELSE IF k = Nil THEN m ELSE Put(m, o, [d EXCEPT !.table = Table!MapRemove(@, k)])

DataMerge(m, o, from) == IF from[1] = "list" THEN Put(m, o, ListMerge(ObjOf(m, o), ObjOf(m, from))) ELSE m
DataResize(m, o, n) == IF IsInt(n) THEN Put(m, o, ListResize(ObjOf(m, o), n[2])) ELSE m
DataSize(m, o) == LET d == ObjOf(m, o) IN Num(IF d.k = "list" THEN d.count ELSE d.table.count)

\* be_listlib.c

\* A new list of the values vs.
NewList(m, vs) == ReturnObject("list", New(m, FoldLeft(ListPush, ListNew, vs)))

\* m_init of a range, and the keys of a list.
NewRange(m, lo, hi) == ReturnObject("range", New(m, [k |-> "range", lo |-> lo, hi |-> hi]))
ListKeys(m, o) == NewRange(m, 0, ObjOf(m, o).count - 1)

\* item_range: a negative bound counts from the end, what is outside is not there.
ItemRange(m, o, r) ==
  LET size == ObjOf(m, o).count
      Bound(i) == IF i < 0 THEN size + i ELSE i
      lower == Bound(r.lo)
      upper == Bound(r.hi)
      from == IF lower < 0 THEN 0 ELSE lower
      to == IF upper < size THEN upper ELSE size - 1
  IN  NewList(m, SubSeq(ObjOf(m, o).data, from + 1, to + 1))

\* item_list: nil for an index that is not one; a negative index is none.
ItemList(m, o, ks) ==
  LET At(k) == IF IsInt(k) /\ k[2] \in 0 .. ObjOf(m, o).count - 1 THEN ObjOf(m, o).data[k[2] + 1] ELSE Nil
  IN  NewList(m, [i \in 1 .. ks.count |-> At(ks.data[i])])

ListItem(m, o, k) ==
  LET got == DataGet(m, o, k)
  IN  CASE got.ok -> Return(m, got.v)
        [] ~got.ok /\ k[1] = "range" -> ItemRange(m, o, ObjOf(m, k))
        [] ~got.ok /\ k[1] = "list" -> ItemList(m, o, ObjOf(m, k))
        [] OTHER -> Error(m, "index_error")

ReturnSet(m, set) == IF set.ok THEN Return(set.m, Nil) ELSE Error(m, "index_error")
ListSetItem(m, o, k, v) == ReturnSet(m, DataSet(m, o, k, v))
ListPop(m, o) ==
  LET k == IF Argc(m) >= 2 THEN Arg(m, 2) ELSE Num(-1)
      got == DataGet(m, o, k)
  IN  IF got.ok THEN Return(DataRemove(m, o, k), got.v) ELSE Error(m, "index_error")

\* be_iseq: lists by their elements, which may be lists (an element that is an
\* instance with an == of its own is left out), anything else by what it is.
RECURSIVE Same(_, _, _)
ListEqual(m, a, b) ==
  LET size == IF b[1] \in {"list", "map"} THEN DataSize(m, b) ELSE Num(-1)
  IN  DataSize(m, a) = size /\ \A i \in 0 .. size[2] - 1 : Same(m, DataGet(m, a, Num(i)).v, DataGet(m, b, Num(i)).v)
Same(m, a, b) == IF a[1] = "list" /\ b # Nil THEN ListEqual(m, a, b) ELSE a = b

\* m_find: the first element that is equal.  Its iterator is a new object.
ListFind(m, o, v) ==
  LET l == ObjOf(m, o)
      at == SelectInSubSeq(l.data, 1, l.count, LAMBDA x : Same(m, x, v))
  IN  Return(MaybeCollect(m), IF at = 0 THEN Nil ELSE Num(at - 1))

\* m_merge: a new list of the two.
MergeInto(m, sum, o, other) == Return(DataMerge(DataMerge(m, sum, o), sum, other), sum)
PlusInto(new, o, other) ==
  IF other[1] # "list" THEN Error(new.m, "type_error") ELSE MergeInto(new.m, <<"list", new.a>>, o, other)
ListPlus(m, o, other) == PlusInto(New(m, ListNew), o, other)

\* The calls that make no object: the machine and the result.
ListAnswer(m, x, o, a, b) ==
  CASE x = "push" -> <<DataPush(m, o, a), Nil>>
    [] x = ".." -> <<DataPush(m, o, a), o>>
    [] x = "insert" -> <<DataInsert(m, o, a, b).m, Nil>>
    [] x = "remove" -> <<DataRemove(m, o, a), Nil>>
    [] x = "resize" -> <<DataResize(m, o, a), Nil>>
    [] x = "clear" -> <<DataResize(m, o, Num(0)), Nil>>
    [] x = "reverse" -> <<Put(m, o, ListReverse(ObjOf(m, o))), o>>
    [] x = "size" -> <<m, DataSize(m, o)>>
    [] x \in {"==", "!="} -> <<m, Bool(ListEqual(m, o, a) = (x = "=="))>>
Answer(mv) == Return(mv[1], mv[2])

ListCall(m, x, o) ==
  LET a == IF Argc(m) >= 2 THEN Arg(m, 2) ELSE Nil
      b == IF Argc(m) >= 3 THEN Arg(m, 3) ELSE Nil
  IN  CASE x = "item" -> ListItem(m, o, a)
        [] x = "setitem" -> ListSetItem(m, o, a, b)
        [] x = "pop" -> ListPop(m, o)
        [] x = "+" -> ListPlus(m, o, a)
        [] x = "iter" -> NewIter(m, o, FALSE)
        [] x = "find" -> ListFind(m, o, a)
        [] x = "keys" -> ListKeys(m, o)
        [] x = "copy" -> NewList(m, InUse(ObjOf(m, o)))
        [] OTHER -> Answer(ListAnswer(m, x, o, a, b))

\* be_maplib.c; a nil key is not stored, and found nowhere.
MapAnswer(m, x, o, a, b) ==
  LET got == DataGet(m, o, a)
      Inserted(new) == <<new.m, Bool(new.ok)>>
  IN  CASE x = "setitem" -> <<DataSet(m, o, a, b).m, Nil>>
        [] x = "insert" -> Inserted(DataInsert(m, o, a, b))
        [] x = "remove" -> <<DataRemove(m, o, a), Nil>>
        [] x = "find" -> <<m, IF got.ok THEN got.v ELSE b>>
        [] x = "contains" -> <<m, Bool(got.ok)>>
        [] x = "size" -> <<m, DataSize(m, o)>>

MapItem(m, got) == IF got.ok THEN Return(m, got.v) ELSE Error(m, "key_error")
MapCall(m, x, o) ==
  LET a == IF Argc(m) >= 2 THEN Arg(m, 2) ELSE Nil
      b == IF Argc(m) >= 3 THEN Arg(m, 3) ELSE Nil
  IN  CASE x = "item" -> MapItem(m, DataGet(m, o, a))
        [] x \in {"iter", "keys"} -> NewIter(m, o, x = "keys")
        [] OTHER -> Answer(MapAnswer(m, x, o, a, b))

\* l_iterator of be_baselib.c: a function is its own iterator.
Iterator(m) ==
  LET o == Arg(m, 1)
  IN  IF Argc(m) > 0 /\ IsFunction(o) THEN Return(m, o)
      ELSE IF Argc(m) > 0 /\ Object(o) /\ MethodOf(m, o, "iter") # Nil THEN CallMethod(m, "iter", <<o>>, After("native", 2, 0))
      ELSE Return(m, Nil)

\* be_rangelib.c: a range of integers.
RangeCall(m, x, o) ==
  LET r == ObjOf(m, o)
  IN  CASE x = "iter" -> NewIter(m, o, FALSE)
        [] x = "lower" -> Return(m, Num(r.lo))
        [] x = "upper" -> Return(m, Num(r.hi))
        [] x = "setrange" -> Return(Put(m, o, [r EXCEPT !.lo = Arg(m, 2)[2], !.hi = Arg(m, 3)[2]]), Nil)

-----------------------------------------------------------------------------
\* The functions of be_baselib.c about classes and types.

BuiltinClasses == {<<"fn", "list">>, <<"fn", "map">>, <<"fn", "range">>}
IsClass(v) == v[1] = "class" \/ v \in BuiltinClasses

\* be_vtype2str
TypeName(v) ==
  CASE v[1] \in {"nil", "bool", "int"} -> v[1] [] v[1] = "str" -> "string" [] Object(v) -> "instance" [] IsClass(v) -> "class" [] OTHER -> "function"

\* _getclass
ClassOf(m, v) ==
  CASE v[1] = "inst" -> <<"class", m.heap[v[2]].class>> [] v[1] \in DOMAIN NativeMethods -> <<"fn", v[1]>> [] OTHER -> IF IsClass(v) THEN v ELSE Nil

\* be_getsuper of a class: Nil for none.
SuperClass(m, c) == IF c[1] = "class" /\ m.heap[c[2]].super # 0 THEN <<"class", m.heap[c[2]].super>> ELSE Nil

\* be_isderived, as _issubv calls it.
RECURSIVE Derived(_, _, _), ClosureClass(_, _, _), SuperObject(_, _, _)
Derived(m, c, super) == super # Nil /\ c # Nil /\ (c = super \/ Derived(m, SuperClass(m, c), super))

\* find_class_closure: the class, c or a superclass, that the function f is a
\* member of, or Nil.
ClosureClass(m, c, f) ==
  IF c = Nil \/ \E x \in DOMAIN m.heap[c[2]].members : m.heap[c[2]].members[x][1] # "var" /\ m.heap[c[2]].members[x][2] = f
  THEN c ELSE ClosureClass(m, SuperClass(m, c), f)

\* The object of class c among the super objects from a on, or Nil.
SuperObject(m, a, c) ==
  IF a = 0 THEN Nil ELSE IF <<"class", m.heap[a].class>> = c THEN <<"inst", a>> ELSE SuperObject(m, m.heap[a].super, c)

\* l_super: of an instance in a method, the object one class above the class of
\* the method; elsewhere one class above its own; or at the class that is given.
Super(m) ==
  LET o == Arg(m, 1)
      level == Arg(m, 2)
      caller == Cell(m, m.frames[Depth(m) - 1].func)
      base == IF Argc(m) = 1 THEN ClosureClass(m, ClassOf(m, o), caller) ELSE Nil
      up == m.heap[o[2]].super
      target == IF base # Nil THEN SuperClass(m, base) ELSE IF Argc(m) > 1 /\ level # Nil THEN level
                ELSE IF up = 0 THEN Nil ELSE ClassOf(m, <<"inst", up>>)
  IN  CASE Argc(m) > 0 /\ IsClass(o) -> Return(m, SuperClass(m, o))
        [] Argc(m) > 0 /\ o[1] = "inst" -> IF Argc(m) > 1 /\ level # Nil /\ ~IsClass(level) THEN Error(m, "type_error")
                                           ELSE Return(m, SuperObject(m, up, target))
        [] OTHER -> Return(m, Nil)

\* l_size
SizeOf(m) ==
  LET v == Arg(m, 1)
  IN  CASE v[1] = "str" -> Return(m, Num(Len(v[2])))
        [] Object(v) /\ MethodOf(m, v, "size") # Nil -> CallMethod(m, "size", <<v>>, After("native", 2, 0))
        [] OTHER -> Return(m, Nil)

\* _issubv
Issubv(m, ok) == Return(m, Bool(ok /\ Derived(m, ClassOf(m, Arg(m, 1)), ClassOf(m, Arg(m, 2)))))

\* l_type, l_classof, l_isinstance and l_issubclass, with all their arguments.
TypeCall(m, x) ==
  LET a == Arg(m, 1)
  IN  CASE x = "type" -> Return(m, Str(TypeName(a)))
        [] x = "classof" -> Return(m, IF Object(a) THEN ClassOf(m, a) ELSE Nil)
        [] x = "isinstance" -> Issubv(m, Object(a))
        [] x = "issubclass" -> Issubv(m, IsClass(a))

Logged(v) == IF v[1] \in {"nil", "bool", "int", "str"} THEN v ELSE <<"obj", 0>>

Native(m, f) ==
  LET x == f[2]
      o == Arg(m, 1)
  IN  CASE f[1] = "ntv" -> IterNext(m, f)
        [] f[1] = "fn" /\ x = "log" -> Return([m EXCEPT !.log = Append(@, Logged(o))], Nil)
        [] f[1] = "fn" /\ x = "list" -> NewList(m, SubSeq(m.stack, m.reg + 1, m.top))
        [] f[1] = "fn" /\ x = "map" -> ReturnObject("map", New(m, [k |-> "map", table |-> Table!MapNew]))
        [] f[1] = "fn" /\ x = "range" -> NewRange(m, o[2], Arg(m, 2)[2])
        [] f[1] = "fn" /\ x = "__iterator__" -> Iterator(m)
        [] f[1] = "fn" /\ x = "super" -> Super(m)
        [] f[1] = "fn" /\ x = "size" /\ o[1] \notin {"list", "map"} -> SizeOf(m)
        [] f[1] = "fn" /\ x \in {"type", "classof", "isinstance", "issubclass"} -> TypeCall(m, x)
        [] f[1] = "fn" /\ x = "init" -> Return(m, o)        \* be_default_init_native_function
        [] OTHER -> CASE o[1] = "list" -> ListCall(m, x, o)
                      [] o[1] = "map" -> MapCall(m, x, o)
                      [] o[1] = "range" -> RangeCall(m, x, o)

-----------------------------------------------------------------------------
\* Instructions.  M is the machine past the instruction just fetched.

Code == ProtoOf(vm, Running(vm)).code
Ins == Code[vm.ip + 1]
A == Ins[2]
B == Ins[3]
C == Ins[4]
M == [vm EXCEPT !.ip = @ + 1]

R(i) == Cell(vm, vm.reg + i)
Const(i) == LET k == ProtoOf(vm, Running(vm)).k[i + 1] IN IF k[1] = "cls" THEN <<"class", k[2]>> ELSE k
RK(i) == IF IsK(i) THEN Const(i - 256) ELSE R(i)

Op(ops) == ~Idle(vm) /\ Ins[1] \in ops

Load ==
  /\ Op({"LDNIL", "LDBOOL", "LDINT", "LDCONST", "MOVE"})
  /\ vm' = CASE Ins[1] = "LDNIL" -> PutReg(M, A, Nil)
             [] Ins[1] = "LDBOOL" -> PutReg([M EXCEPT !.ip = @ + C], A, Bool(B = 1))
             [] Ins[1] = "LDINT" -> PutReg(M, A, Num(B))
             [] Ins[1] = "LDCONST" -> PutReg(M, A, Const(B))
             [] Ins[1] = "MOVE" -> PutReg(M, A, RK(B))

GetGlobal == Op({"GETGBL"}) /\ vm' = PutReg(M, A, vm.glob[B + 1])
SetGlobal == Op({"SETGBL"}) /\ vm' = [M EXCEPT !.glob[B + 1] = R(A)]
GetUpval == Op({"GETUPV"}) /\ vm' = PutReg(M, A, UpGet(vm, ObjOf(vm, Running(vm)).ups[B + 1]))
SetUpval == Op({"SETUPV"}) /\ vm' = UpSet(M, ObjOf(vm, Running(vm)).ups[B + 1], R(A))

Operator == [op \in {OpCode[o] : o \in DOMAIN OpCode} |-> CHOOSE o \in DOMAIN OpCode : OpCode[o] = op]

\* make_range and connect_str: what they make is a new object, so the collector may run.
PutRange(m, a, lo, hi) == LET r == New(m, [k |-> "range", lo |-> lo, hi |-> hi]) IN PutReg(r.m, a, <<"range", r.a>>)
PutJoined(m, a, s1, s2) == PutReg(MaybeCollect(m), a, Str(s1 \o s2))

Arithmetic ==
  /\ Op({"ADD", "SUB", "MUL", "DIV", "MOD"})
  /\ LET a == RK(B)  b == RK(C)  op == Operator[Ins[1]]
     IN  vm' = CASE IsInt(a) /\ IsInt(b) -> IF op = "/" /\ b[2] = 0 THEN Error(M, "divzero_error") ELSE PutReg(M, A, Compute(op, a[2], b[2]))
                 [] op = "+" /\ a[1] = "str" /\ b[1] = "str" -> PutJoined(M, A, a[2], b[2])
                 [] Object(a) -> CallMethod(M, op, <<a, b>>, After("value", 1, A))
                 [] OTHER -> Error(M, "type_error")

\* relop_rule (strings are compared by be_strcmp: left out)
Relational ==
  /\ Op({"LT", "LE", "GT", "GE"})
  /\ LET a == RK(B)  b == RK(C)  op == Operator[Ins[1]]
     IN  vm' = CASE IsInt(a) /\ IsInt(b) -> PutReg(M, A, Compute(op, a[2], b[2]))
                 [] Object(a) -> CallMethod(M, op, <<a, b>>, After("bool", 1, A))
                 [] OTHER -> Error(M, "type_error")

\* bitwise_block
Bits ==
  /\ Op({"AND", "OR", "XOR", "SHL", "SHR"})
  /\ LET a == RK(B)  b == RK(C)  op == Operator[Ins[1]]
     IN  vm' = CASE IsInt(a) /\ IsInt(b) -> PutReg(M, A, Compute(op, a[2], b[2]))
                 [] Object(a) -> CallMethod(M, op, <<a, b>>, After("value", 1, A))
                 [] OTHER -> Error(M, "type_error")

\* object_eqop: the operator of an object that has it, else whether it is the same object.
EqOperator(a, b, op) == Object(a) /\ b # Nil /\ IsFunction(MethodOf(vm, a, op))

\* equal_rule
Equality ==
  /\ Op({"EQ", "NE"})
  /\ LET a == RK(B)  b == RK(C)  op == Operator[Ins[1]]
     IN  vm' = IF EqOperator(a, b, op) THEN CallMethod(M, op, <<a, b>>, After("bool", 1, A))
               ELSE PutReg(M, A, Bool((a = b) = (op = "==")))

\* CONNECT: a range, a string, or the operator of an object.
Connect ==
  /\ Op({"CONNECT"})
  /\ LET a == RK(B)  b == RK(C)
     IN  vm' = CASE IsInt(a) /\ IsInt(b) -> PutRange(M, A, a[2], b[2])
                 [] Object(a) -> CallMethod(M, "..", <<a, b>>, After("value", 1, A))
                 [] a[1] = "str" /\ b[1] = "str" -> PutJoined(M, A, a[2], b[2])
                 [] OTHER -> Error(M, "type_error")

Negate ==
  /\ Op({"NEG"})
  /\ LET b == RK(B)
     IN  vm' = CASE IsInt(b) -> PutReg(M, A, Num(-b[2]))
                 [] Object(b) -> CallMethod(M, "-*", <<b>>, After("value", 0, A))
                 [] OTHER -> Error(M, "type_error")

Flip ==
  /\ Op({"FLIP"})
  /\ LET b == RK(B)
     IN  vm' = CASE IsInt(b) -> PutReg(M, A, Num(-b[2] - 1))
                 [] Object(b) -> CallMethod(M, "~", <<b>>, After("value", 0, A))
                 [] OTHER -> Error(M, "type_error")

\* be_value2bool of anything but an instance with a tobool method.
Plain(v) == CASE v[1] = "nil" -> FALSE [] v[1] = "bool" -> v[2] [] v[1] = "int" -> v[2] # 0 [] v[1] = "str" -> v[2] # "" [] OTHER -> TRUE

Jump == Op({"JMP"}) /\ vm' = [M EXCEPT !.ip = B]
JumpIf ==
  /\ Op({"JMPT", "JMPF"})
  /\ LET v == R(A)  sense == Ins[1] = "JMPT"
     IN  vm' = IF v[1] = "inst" /\ MethodOf(vm, v, "tobool") # Nil
               THEN CallMethod(M, "tobool", <<v>>, [k |-> "jump", n |-> 0, a |-> B, sense |-> sense])
               ELSE IF Plain(v) = sense THEN [M EXCEPT !.ip = B] ELSE M

NewClosure ==
  /\ Op({"CLOSURE"})
  /\ LET i == ProtoOf(vm, Running(vm)).ps[B + 1]
         x == New(M, [k |-> "clo", proto |-> i, ups |-> <<>>])
     IN  vm' = InitUpvals(PutReg(x.m, A, <<"clo", x.a>>), x.a)

ClassInit == Op({"CLASS"}) /\ vm' = ClassUpvalInit(M, Const(B)[2])

SetSuperclass ==
  /\ Op({"SETSUPER"})
  /\ vm' = IF R(A)[1] = "class" /\ RK(B)[1] = "class" THEN [M EXCEPT !.heap[R(A)[2]].super = RK(B)[2]] ELSE Error(M, "type_error")

Attribute(o, x) ==
  CASE o[1] = "inst" -> Member(vm, o[2], x)
    [] o[1] = "class" -> LET c == ClassMember(vm, o[2], x) IN
         IF c = 0 \/ (c # 0 /\ vm.heap[c].members[x][1] = "var") THEN NotFound ELSE [kind |-> "static", v |-> vm.heap[c].members[x][2]]
    [] o[1] \in {"list", "map", "range"} -> IF MethodOf(vm, o, x) = Nil THEN NotFound ELSE [kind |-> "method", v |-> MethodOf(vm, o, x)]
    [] OTHER -> NotFound

GetMember ==
  /\ Op({"GETMBR"})
  /\ LET at == Attribute(RK(B), RK(C)[2])
     IN  vm' = IF at = NotFound THEN Error(M, "attribute_error") ELSE PutReg(M, A, at.v)

\* GETMET: a method and the instance it is called on; anything else is marked
\* as no method, and its value put in the next register.
NoMethod == <<"nomethod", 0>>
GetMethodOf ==
  /\ Op({"GETMET"})
  /\ LET o == RK(B)
         at == Attribute(o, RK(C)[2])
         self == IF o[1] = "inst" THEN <<"inst", LowestSub(vm, o[2])>> ELSE o
         m1 == PutReg(M, A, at.v)
     IN  vm' = CASE at = NotFound -> Error(M, "attribute_error")
                 [] at # NotFound /\ (o[1] = "class" \/ at.v[1] = "class") -> PutReg(PutReg(M, A, NoMethod), A + 1, at.v)
                 [] at # NotFound /\ o[1] # "class" /\ IsFunction(at.v) ->
                      IF at.kind = "static" THEN PutReg(PutReg(M, A, NoMethod), A + 1, at.v) ELSE PutReg(m1, A + 1, self)
                 [] OTHER -> Error(m1, "attribute_error")

SetMemberOf ==
  /\ Op({"SETMBR"})
  /\ LET x == SetMember(M, R(A), RK(B)[2], RK(C))
     IN  vm' = IF R(A)[1] \in {"inst", "class"} /\ x.ok THEN x.m ELSE Error(M, "attribute_error")

GetIndex ==
  /\ Op({"GETIDX"})
  /\ vm' = IF Object(RK(B)) THEN CallMethod(M, "item", <<RK(B), RK(C)>>, After("value", 3, A)) ELSE Error(M, "type_error")

SetIndex ==
  /\ Op({"SETIDX"})
  /\ vm' = IF Object(R(A)) THEN CallMethod(M, "setitem", <<R(A), RK(B), RK(C)>>, After("none", 4, 0)) ELSE Error(M, "type_error")

Close1 == Op({"CLOSE"}) /\ vm' = CloseUpvals(M, vm.reg + A)

\* EXBLK 0: be_except_block_setup; EXBLK 1: be_except_block_close.
TryBegin == Op({"EXBLK"}) /\ A = 0 /\ vm' = [M EXCEPT !.excs = Append(@, [depth |-> Depth(vm), ip |-> B])]
TryEnd == Op({"EXBLK"}) /\ A = 1 /\ vm' = [M EXCEPT !.excs = SubSeq(@, 1, Len(@) - B)]

\* CATCH: skip the jump to the next except block when one of the cases is the
\* exception (an exception that is an object with its own == is left out).
CatchException ==
  /\ Op({"CATCH"})
  /\ LET v == Cell(vm, vm.top)
         hit == B = 0 \/ \E i \in 0 .. B - 1 : R(A + i) = v
         m1 == IF C >= 1 THEN PutReg(M, A, v) ELSE M
         m2 == IF C = 2 THEN PutReg(m1, A + 1, Cell(vm, vm.top + 1)) ELSE m1
     IN  vm' = IF hit THEN [m2 EXCEPT !.ip = @ + 1] ELSE M

RaiseException ==
  /\ Op({"RAISE"})
  /\ vm' = IF A < 2 THEN Throw(M, RK(B), IF A = 1 THEN RK(C) ELSE Nil) ELSE Unwind(M)

\* be_class_newobj: the instance in place of the class, and its constructor
\* between the instance and the arguments.
CallInit(m, at, argc, init) ==
  IF init[1] = "var" THEN m
  ELSE CallFrom([m EXCEPT !.stack = [i \in DOMAIN @ |-> IF i - 1 = at + 1 THEN init[2]
                                       ELSE IF i - 1 \in at + 2 .. at + 2 + argc THEN @[i - 2] ELSE @[i]]],
                at + 1, argc + 1, 0)
InitFrom(m, at, argc, owner) ==
  IF owner = 0 THEN m ELSE CallInit(m, at, argc, m.heap[m.heap[owner].class].members["init"])
Construct(m, at, argc, a) == InitFrom(m, at, argc, InstanceMember(m, a, "init"))
PutInstance(new, at, argc, mode) ==
  Construct(PutCell(PutCell(new.m, at, <<"inst", new.a>>), at - mode, <<"inst", new.a>>), at, argc, new.a)
NewInstance(m, at, argc, mode) == PutInstance(NewObject(m, Cell(m, at)[2]), at, argc, mode)

\* The () method goes in front of its instance.
CallInFront(m, at, argc, mode, call) ==
  IF IsFunction(call)
  THEN CallFrom([m EXCEPT !.stack = [i \in DOMAIN @ |-> IF i - 1 = at THEN call
                                       ELSE IF i - 1 \in at + 1 .. at + 1 + argc THEN @[i - 1] ELSE @[i]]],
                at, argc + 1, mode)
  ELSE Error(m, "attribute_error")
CallObject(m, at, argc, mode) == CallInFront(m, at, argc, mode, MethodOf(m, Cell(m, at), "()"))

\* CALL of the value in cell `at'.
CallFrom(m, at, argc, mode) ==
  LET f == Cell(m, at)
  IN  CASE f = NoMethod -> CallFrom(PutCell(m, at, Cell(m, at + 1)), at + 1, argc - 1, 1)
        [] f[1] = "class" -> NewInstance(m, at, argc, mode)
        [] f[1] = "inst" -> CallObject(m, at, argc, mode)
        [] f[1] = "clo" -> PushClosure(m, at, argc, mode, Nothing)
        [] f[1] \in {"fn", "ntv"} -> Native(PushFrame(m, at, argc, mode, Nothing), f)
        [] OTHER -> Error(m, "type_error")

CallValue == Op({"CALL"}) /\ vm' = CallFrom(M, vm.reg + A, B, 0)

ReturnValue == Op({"RET"}) /\ vm' = Return(M, IF A = 1 THEN RK(B) ELSE Nil)

-----------------------------------------------------------------------------
\* The host (aktualino_berry.c).

Program == vm.code

\* akt_berry_load: the main closure, which the compiler leaves on the stack, is
\* called protected.
HostLoad ==
  /\ vm.rcs = <<>> /\ Idle(vm)
  /\ LET main == [k |-> "clo", proto |-> Len(Program.protos), ups |-> <<>>]
         m1 == [PutCell(vm, vm.top, <<"clo", vm.next>>) EXCEPT !.top = @ + 1, !.saved = vm.top + 1,
                                                               !.heap = (vm.next :> main) @@ @, !.next = @ + 1]
     IN  vm' = IF Program.err # "" THEN [vm EXCEPT !.rcs = <<"error">>] ELSE DoFunc(m1, vm.top, 0, After("host", 1, 0))

\* akt_berry_call: a missing global is no error; a failed call leaves its
\* function and one of the two values of the exception on the stack.
HostCall ==
  /\ Idle(vm) /\ vm.rcs # <<>> /\ vm.rcs[1] = "ok" /\ Len(vm.rcs) <= Len(Entries)
  /\ LET i == GlobalIndex(Program, Entries[Len(vm.rcs)])
         m1 == [PutCell(vm, vm.top, vm.glob[i + 1]) EXCEPT !.top = @ + 1, !.saved = vm.top + 1]
     IN  vm' = IF i < 0 THEN [vm EXCEPT !.rcs = Append(@, "absent")] ELSE DoFunc(m1, vm.top, 0, After("host", 1, 0))

Finished == Idle(vm) /\ vm.rcs # <<>> /\ (vm.rcs[1] = "error" \/ Len(vm.rcs) > Len(Entries))

Done == Finished /\ UNCHANGED vm

Step ==
  \/ Load \/ GetGlobal \/ SetGlobal \/ GetUpval \/ SetUpval
  \/ Arithmetic \/ Bits \/ Flip \/ Relational \/ Equality \/ Connect \/ Negate
  \/ Jump \/ JumpIf \/ NewClosure \/ ClassInit \/ SetSuperclass
  \/ GetMember \/ GetMethodOf \/ SetMemberOf \/ GetIndex \/ SetIndex
  \/ Close1 \/ TryBegin \/ TryEnd \/ CatchException \/ RaiseException
  \/ CallValue \/ ReturnValue \/ HostLoad \/ HostCall

Next == Step \/ Done

Spec == Init /\ [][Next]_vm

-----------------------------------------------------------------------------
Expected == [p \in DOMAIN Programs |-> Meaning(Programs[p])]

Agrees(e) ==
  /\ Program.err = ""
  /\ IsPrefix(vm.log, e.log) /\ IsPrefix(vm.rcs, e.rcs)
  /\ Finished => vm.log = e.log /\ vm.rcs = e.rcs

\* What a script has logged so far is what its source means, and so is how each
\* of the host's calls ended, whenever the collector runs.
AgreesWithSource == Agrees(Expected[vm.p])

\* Every reference in a register, a global, the heap or a closed upvalue is to an
\* object that has not been freed.
References ==
  LET Live(v) == IsGc(v) => v[2] \in DOMAIN vm.heap
      Parts(o) == IF o.k = "inst" THEN {o.class, o.super} \ {0} ELSE IF o.k = "class" THEN {o.super} \ {0} ELSE {}
  IN  /\ \A i \in 0 .. vm.top + 1 : Live(Cell(vm, i))
      /\ \A i \in DOMAIN vm.glob : Live(vm.glob[i])
      /\ \A a \in DOMAIN vm.heap :
           /\ Refs(vm, a) \union Parts(vm.heap[a]) \subseteq DOMAIN vm.heap
           /\ vm.heap[a].k = "clo" => \A u \in ToSet(vm.heap[a].ups) : ~vm.uvs[u].gone

\* Every open upvalue stands for a cell of a running function, and no cell has two.
UpvaluesLive ==
  /\ \A u \in ToSet(vm.open) : vm.uvs[u].open /\ vm.uvs[u].at < vm.top
  /\ \A i, j \in DOMAIN vm.open : vm.uvs[vm.open[i]].at = vm.uvs[vm.open[j]].at => i = j

\* The exception handlers are those of the try blocks that are running: each of a
\* function on the call stack, in its order, whichever way a block was left.
HandlersMatch ==
  /\ \A i \in DOMAIN vm.excs : vm.excs[i].depth \in 1 .. Depth(vm)
  /\ \A i, j \in DOMAIN vm.excs : i < j => vm.excs[i].depth <= vm.excs[j].depth

\* Nothing that the machine can still read is gone, however its functions, loops
\* and try blocks were left and whenever the collector runs: neither an object,
\* nor the cell of an open upvalue, nor the frame of an exception handler.
NoDangling == References /\ UpvaluesLive /\ HandlersMatch

\* A call of the host leaves the stack as it found it (aktualino_berry.c keeps the
\* stack handling "in one place"): refuted, a call that fails leaves two values.
HostBalanced == Idle(vm) => vm.top = 0

=============================================================================
