------------------------------ MODULE BerryHeap ------------------------------
(***************************************************************************)
(* The memory of the Berry virtual machine: its value stack, the objects,  *)
(* the upvalues of closures, classes and instances, and the collector      *)
(* (be_func.c, be_class.c, be_gc.c, be_list.c).                            *)
(*                                                                         *)
(* A machine m (bvm) is a record; stack cells and program counters count   *)
(* from 0.  A value is <<type, v>>, v being the address of an object in    *)
(* m.heap for "clo", "ntv", "class", "inst", "list", "map" and "range".    *)
(* A list, map or range is one object here (the code has an instance of a  *)
(* built-in class that holds it).  Strings are values: that making one may *)
(* start the collector is kept.                                            *)
(***************************************************************************)
EXTENDS BerrySource

CONSTANTS
  Programs,     \* the programs, a sequence
  StackSize     \* cells of the value stack

KeyHash(k) == IF k[1] = "int" THEN k[2] ELSE Len(k[2])
Table == INSTANCE BerryTable WITH Hash <- KeyHash, NoKey <- Nil

GcTypes == {"clo", "ntv", "class", "inst", "list", "map", "range"}
IsGc(v) == v[1] \in GcTypes
IsFunction(v) == v[1] \in {"clo", "ntv", "fn"}

ObjOf(m, v) == m.heap[v[2]]
Cell(m, i) == m.stack[i + 1]
PutCell(m, i, v) == [m EXCEPT !.stack[i + 1] = v]
ProtoOf(m, clo) == m.code.protos[ObjOf(m, clo).proto]
Running(m) == Cell(m, Last(m.frames).func)      \* vm->cf->func

-----------------------------------------------------------------------------
\* Upvalues (be_func.c): m.open lists the open ones as the code does, the
\* newest first; an open one stands for the stack cell `at'.

UpGet(m, u) == IF m.uvs[u].open THEN Cell(m, m.uvs[u].at) ELSE m.uvs[u].val
UpSet(m, u, v) == IF m.uvs[u].open THEN PutCell(m, m.uvs[u].at, v) ELSE [m EXCEPT !.uvs[u].val = v]

\* findupval: the list is searched as if it were sorted by level, downwards.
FindUp(m, level) ==
  LET i == SelectInSeq(m.open, LAMBDA u : m.uvs[u].at <= level)
      new == Len(m.uvs) + 1
  IN  IF i # 0 /\ m.uvs[m.open[i]].at = level THEN [m |-> m, u |-> m.open[i]]
      ELSE [m |-> [m EXCEPT !.uvs = Append(@, [open |-> TRUE, at |-> level, val |-> Nil, refs |-> 0, gone |-> FALSE]),
                            !.open = <<new>> \o @],
            u |-> new]

\* be_initupvals of the closure at address a, in the running function.
InitUpvals(m, a) ==
  LET One(acc, d) ==
        LET f == IF d.instack THEN FindUp(acc, acc.reg + d.idx) ELSE [m |-> acc, u |-> ObjOf(acc, Running(acc)).ups[d.idx + 1]]
        IN  [f.m EXCEPT !.uvs[f.u].refs = @ + 1, !.heap[a].ups = Append(@, f.u)]
  IN  FoldLeft(One, [m EXCEPT !.heap[a].ups = <<>>], m.code.protos[m.heap[a].proto].up)

Closed(m, u) == IF m.uvs[u].refs = 0 THEN [m EXCEPT !.uvs[u].gone = TRUE, !.uvs[u].open = FALSE]
                ELSE [m EXCEPT !.uvs[u].open = FALSE, !.uvs[u].val = Cell(m, m.uvs[u].at)]

\* be_upvals_close: every open upvalue at `level' or above keeps its value.
CloseUpvals(m, level) ==
  LET Above(u) == m.uvs[u].at >= level
  IN  [FoldLeft(Closed, m, SelectSeq(m.open, Above)) EXCEPT !.open = SelectSeq(m.open, LAMBDA u : ~Above(u))]

\* be_release_upvalues
ReleaseUpvals(m, ups) ==
  LET One(acc, u) ==
        LET refs == IF acc.uvs[u].refs > 0 THEN acc.uvs[u].refs - 1 ELSE 0
        IN  [acc EXCEPT !.uvs[u].refs = refs, !.uvs[u].gone = @ \/ (~acc.uvs[u].open /\ refs = 0)]
  IN  FoldLeft(One, m, ups)

-----------------------------------------------------------------------------
\* The collector (be_gc.c).

\* Classes that a function or a function inside it has among its constants
\* (an inner function is finished before the one around it).
ProtoClasses(ps) ==
  LET cl[i \in DOMAIN ps] == {ps[i].k[j][2] : j \in {n \in DOMAIN ps[i].k : ps[i].k[n][1] = "cls"}}
                             \union UNION {cl[j] : j \in ToSet(ps[i].ps)}
  IN  cl

InUse(list) == SubSeq(list.data, 1, list.count)

\* Mutant: an upvalue that is closed is not marked.
OpenUpvalues(m, ups) == {UpGet(m, u) : u \in {x \in ToSet(ups) : m.uvs[x].open}}

\* The values of the upvalues that mark_closure marks.
MarkedUpvalues(m, ups) == {UpGet(m, u) : u \in {x \in ToSet(ups) : m.uvs[x].refs > 0}}

\* What mark_closure, mark_ntvclos, mark_class, mark_instance, mark_list and
\* mark_map mark: addresses.
Refs(m, a) ==
  LET o == m.heap[a]
      Of(vs) == {v[2] : v \in {x \in vs : IsGc(x)}}
  IN  CASE o.k = "clo" -> Of(MarkedUpvalues(m, o.ups)) \union m.uses[o.proto]
        [] o.k = "ntv" -> Of({o.of})
        [] o.k = "class" -> Of({o.members[x][2] : x \in {y \in DOMAIN o.members : o.members[y][1] # "var"}}) \union ({o.super} \ {0})
        [] o.k = "inst" -> Of(ToSet(o.vals)) \union {o.class} \union ({o.super} \ {0})
        [] o.k = "list" -> Of(ToSet(InUse(o)))
        [] o.k = "map" -> Of({s.key : s \in ToSet(o.table.slots)} \union {s.val : s \in {t \in ToSet(o.table.slots) : t.key # Nil}})
        [] o.k = "range" -> {}

\* premark_stack: the cells above the top are set to nil.
PremarkStack(m) == [m EXCEPT !.stack = [i \in DOMAIN @ |-> IF i <= m.top THEN @[i] ELSE Nil]]

Roots(m) ==
  LET vs == {Cell(m, i) : i \in 0 .. m.top - 1} \union ToSet(m.glob) \union ToSet(m.trace)
  IN  {v[2] : v \in {x \in vs : IsGc(x)}}

RECURSIVE Reached(_, _, _)
Reached(m, new, seen) ==
  IF new = {} THEN seen
  ELSE LET all == seen \union new IN Reached(m, UNION {Refs(m, a) : a \in new} \ all, all)

\* delete_white: what was not reached is freed; a function that is freed
\* releases its upvalues.
Sweep(m, live) ==
  LET dead == Listed({a \in DOMAIN m.heap \ live : m.heap[a].k = "clo"})
      m1 == FoldLeft(LAMBDA acc, a : ReleaseUpvals(acc, m.heap[a].ups), m, dead)
  IN  [m1 EXCEPT !.heap = [a \in live |-> m.heap[a]]]

\* be_gc_collect
Collect(m) == LET m1 == PremarkStack(m) IN Sweep(m1, Reached(m1, Roots(m1), {}))

\* be_gc_auto: the collector may run whenever memory is asked for; m.gc says
\* whether it runs each time or not at all.
MaybeCollect(m) == IF m.gc = "always" THEN Collect(m) ELSE m

\* be_newgcobj: the collector runs before the new object is linked in.
Link(m, o) == [m |-> [m EXCEPT !.heap = (m.next :> o) @@ @, !.next = @ + 1], a |-> m.next]
New(m, o) == Link(MaybeCollect(m), o)

-----------------------------------------------------------------------------
\* Classes and instances (be_class.c).  A member of a class is <<"var", n>>,
\* <<"method", v>> or <<"static", v>>.

\* instance_member: the instance of the hierarchy whose class has x, or 0.
RECURSIVE InstanceMember(_, _, _), ClassMember(_, _, _), Supers(_, _, _), LowestSub(_, _)
InstanceMember(m, a, x) ==
  IF a = 0 \/ x \in DOMAIN m.heap[m.heap[a].class].members THEN a ELSE InstanceMember(m, m.heap[a].super, x)
ClassMember(m, c, x) ==
  IF c = 0 \/ x \in DOMAIN m.heap[c].members THEN c ELSE ClassMember(m, m.heap[c].super, x)
LowestSub(m, a) == IF m.heap[a].sub = 0 THEN a ELSE LowestSub(m, m.heap[a].sub)

NotFound == [kind |-> "none", v |-> Nil]

\* be_instance_member: [kind, v]; a function kept in a variable is static.
Member(m, a, x) ==
  LET at == InstanceMember(m, a, x)
      e == m.heap[m.heap[at].class].members[x]
      v == m.heap[at].vals[e[2] + 1]
  IN  CASE at = 0 /\ x # "init" -> NotFound
        [] at = 0 /\ x = "init" -> [kind |-> "method", v |-> <<"fn", "init">>]
        [] at # 0 -> IF e[1] = "var" THEN [kind |-> "static", v |-> v] ELSE [kind |-> e[1], v |-> e[2]]

\* newobjself, newobject: one object for each class of the hierarchy.
NewSelf(m, c, sub) == New(m, [k |-> "inst", class |-> c, super |-> 0, sub |-> sub, vals |-> [i \in 1 .. m.heap[c].nvar |-> Nil]])

SupersOf(x, c, sub) == Supers([x.m EXCEPT !.heap[sub].super = x.a], c, x.a)
Supers(m, c, sub) == IF c = 0 THEN m ELSE SupersOf(NewSelf(m, c, sub), m.heap[c].super, sub)

\* newobject: the new object is on the stack while its super objects are made.
Held(x) == [PutCell(x.m, x.m.top, <<"inst", x.a>>) EXCEPT !.top = @ + 1]
WithSupers(x, c) == [m |-> [Supers(Held(x), c, x.a) EXCEPT !.top = @ - 1], a |-> x.a]
NewObject(m, c) == WithSupers(NewSelf(m, c, 0), m.heap[c].super)

\* be_class_upvalue_init: the methods of a class catch their upvalues when the
\* class statement is reached, again each time it is.
ClassUpvalInit(m, c) ==
  LET ms == m.heap[c].members
      clos == {ms[x][2][2] : x \in {y \in DOMAIN ms : ms[y][1] # "var" /\ ms[y][2][1] = "clo"}}
      One(acc, a) == IF m.code.protos[m.heap[a].proto].up = <<>> THEN acc
                     ELSE InitUpvals(ReleaseUpvals(acc, acc.heap[a].ups), a)
  IN  FoldLeft(One, m, Listed(clos))

\* be_instance_setmember, be_class_setmember: [m, ok].
SetMember(m, o, x, v) ==
  LET at == IF o[1] = "inst" THEN InstanceMember(m, o[2], x) ELSE ClassMember(m, o[2], x)
      e == IF o[1] = "inst" THEN m.heap[m.heap[at].class].members[x] ELSE m.heap[at].members[x]
  IN  CASE at = 0 -> [m |-> m, ok |-> FALSE]
        [] at # 0 /\ o[1] = "inst" -> IF e[1] = "var" THEN [m |-> [m EXCEPT !.heap[at].vals[e[2] + 1] = v], ok |-> TRUE]
                                      ELSE [m |-> m, ok |-> FALSE]
        [] OTHER -> IF e[1] = "var" THEN [m |-> m, ok |-> FALSE]
                    ELSE [m |-> [m EXCEPT !.heap[at].members[x] = <<"static", v>>], ok |-> TRUE]

-----------------------------------------------------------------------------
\* Lists (be_list.c): the data up to the capacity, of which `count' are in use.

ListNew == [k |-> "list", data |-> <<Nil, Nil>>, count |-> 0]
Capacity(l) == Len(l.data)
Grown(l, cap) == [l EXCEPT !.data = @ \o [i \in 1 .. cap - Len(@) |-> Nil]]
Room(l) == IF l.count >= Capacity(l) THEN Grown(l, Table!NextSize(Capacity(l))) ELSE l

ListIndex(l, i) == IF i < 0 THEN l.count + i ELSE i
InList(l, i) == ListIndex(l, i) \in 0 .. l.count - 1

ListPush(l, v) == LET r == Room(l) IN [r EXCEPT !.data[r.count + 1] = v, !.count = @ + 1]

ListInsert(l, i, v) ==
  LET r == Room(l)
      at == ListIndex(l, i)
  IN  IF at \notin 0 .. l.count THEN l
      ELSE [r EXCEPT !.count = @ + 1,
              !.data = [j \in DOMAIN @ |-> IF j = at + 1 THEN v ELSE IF j > at + 1 /\ j <= r.count + 1 THEN @[j - 1] ELSE @[j]]]

ListRemove(l, i) ==
  LET at == ListIndex(l, i)
  IN  IF ~InList(l, i) THEN l
      ELSE [l EXCEPT !.count = @ - 1, !.data = [j \in DOMAIN @ |-> IF j > at /\ j < l.count THEN @[j + 1] ELSE @[j]]]

ListResize(l, n) ==
  LET cap == Table!NextSize(n)
      nils == [j \in DOMAIN Grown(l, cap).data |-> IF j > l.count /\ j <= n THEN Nil ELSE Grown(l, cap).data[j]]
  IN  IF n = l.count THEN l
      ELSE IF cap > Capacity(l) THEN [l EXCEPT !.data = nils, !.count = n] ELSE [l EXCEPT !.count = n]

ListMerge(l, other) ==
  LET n == l.count + other.count
      big == IF Table!NextSize(n) > Capacity(l) THEN Grown(l, Table!NextSize(n)) ELSE l
  IN  IF n = 0 THEN l
      ELSE [big EXCEPT !.count = n,
              !.data = [j \in DOMAIN @ |-> IF j > l.count /\ j <= n THEN other.data[j - l.count] ELSE @[j]]]

ListReverse(l) == [l EXCEPT !.data = [j \in DOMAIN @ |-> IF j <= l.count THEN @[l.count + 1 - j] ELSE @[j]]]

=============================================================================
