----------------------------- MODULE BerrySource -----------------------------
(***************************************************************************)
(* What a Berry program means, and how it is written: the reference that   *)
(* the compiler and the virtual machine are checked against.  A program is *)
(* a sequence of statements, an expression or a statement a tuple that     *)
(* begins with its kind; Tokens writes it out with the fewest parentheses, *)
(* Meaning runs it.  Every `var' that is executed makes a new cell, which  *)
(* closures share; a value is <<type, v>>, v an address for an object.     *)
(***************************************************************************)
EXTENDS BerryParser, Bitwise, TLC

CONSTANT Entries        \* the functions the host calls after the top level, in order

-----------------------------------------------------------------------------
\* Writing a program.

RECURSIVE Expr2(_, _), Stmt2(_), Join(_, _)
T(k) == <<<<k, 0>>>>
Id(x) == <<<<"id", x>>>>

Join(parts, sep) ==
  IF parts = <<>> THEN <<>> ELSE IF Len(parts) = 1 THEN parts[1] ELSE parts[1] \o sep \o Join(Tail(parts), sep)
Names(xs) == Join([i \in DOMAIN xs |-> Id(xs[i])], T(","))
Exprs(es) == Join([i \in DOMAIN es |-> Expr2(es[i], AssignPrio)], T(","))
Block2(ss) == FlattenSeq([i \in DOMAIN ss |-> Stmt2(ss[i])])
Func2(params, body) == T("(") \o Names(params) \o T(")") \o Block2(body) \o T("end")

ExprPrio(e) == CASE e[1] = "bin" -> Prio[e[2]] [] e[1] = "un" -> UnaryPrio [] e[1] \in {"cond", "lam"} -> AssignPrio [] OTHER -> 0

\* Expr2(e, p): e where an operand of priority p at most is wanted.
Expr2(e, p) ==
  LET bare ==
        CASE e[1] \in {"int", "str", "id"} -> <<e>>
          [] e[1] = "nil" -> T("nil")
          [] e[1] = "bool" -> T(IF e[2] THEN "true" ELSE "false")
          [] e[1] = "bin" -> Expr2(e[3], Prio[e[2]]) \o T(e[2]) \o Expr2(e[4], Prio[e[2]] - 1)
          [] e[1] = "un" -> T(e[2]) \o Expr2(e[3], UnaryPrio)
          [] e[1] = "cond" -> Expr2(e[2], AssignPrio - 1) \o T("?") \o Expr2(e[3], AssignPrio) \o T(":") \o Expr2(e[4], AssignPrio)
          [] e[1] = "call" -> Expr2(e[2], 0) \o T("(") \o Exprs(e[3]) \o T(")")
          [] e[1] = "mem" -> Expr2(e[2], 0) \o T(".") \o Id(e[3])
          [] e[1] = "idx" -> Expr2(e[2], 0) \o T("[") \o Expr2(e[3], AssignPrio) \o T("]")
          [] e[1] = "list" -> T("[") \o Exprs(e[2]) \o T("]")
          [] e[1] = "map" -> T("{") \o Join([i \in DOMAIN e[2] |->
                                Expr2(e[2][i][1], AssignPrio) \o T(":") \o Expr2(e[2][i][2], AssignPrio)], T(",")) \o T("}")
          [] e[1] = "fn" -> T("def") \o Func2(e[2], e[3])
          [] e[1] = "lam" -> T("/") \o Names(e[2]) \o T("->") \o Expr2(e[3], AssignPrio)
  IN  IF ExprPrio(e) > p THEN T("(") \o bare \o T(")") ELSE bare

Full(e) == Expr2(e, AssignPrio)
MethodName(x) == CASE x = "()" -> T("(") \o T(")") [] x = "-*" -> T("-") \o T("*") [] x \in DOMAIN OpCode \union {"~"} -> T(x) [] OTHER -> Id(x)

Stmt2(s) ==
  CASE s[1] = "var" -> T("var") \o Id(s[2]) \o T("=") \o Full(s[3]) \o T(";")
    [] s[1] = "set" -> Full(s[2]) \o T("=") \o Full(s[3]) \o T(";")
    [] s[1] = "upd" -> Full(s[3]) \o T(s[2]) \o Full(s[4]) \o T(";")
    [] s[1] = "expr" -> Full(s[2]) \o T(";")
    [] s[1] = "if" -> T("if") \o Join([i \in DOMAIN s[2] |-> Full(s[2][i][1]) \o T(";") \o Block2(s[2][i][2])], T("elif"))
                      \o (IF s[3] = <<>> THEN <<>> ELSE T("else") \o Block2(s[3])) \o T("end")
    [] s[1] = "while" -> T("while") \o Full(s[2]) \o T(";") \o Block2(s[3]) \o T("end")
    [] s[1] = "for" -> T("for") \o Id(s[2]) \o T(":") \o Full(s[3]) \o T(";") \o Block2(s[4]) \o T("end")
    [] s[1] = "do" -> T("do") \o Block2(s[2]) \o T("end")
    [] s[1] \in {"break", "continue"} -> T(s[1]) \o T(";")
    [] s[1] = "return" -> T("return") \o Full(s[2]) \o T(";")
    [] s[1] = "def" -> T("def") \o Id(s[2]) \o Func2(s[3], s[4])
    [] s[1] = "class" -> T("class") \o Id(s[2]) \o (IF s[3] = "" THEN <<>> ELSE T(":") \o Id(s[3]))
                         \o (IF s[4] = <<>> THEN <<>> ELSE T("var") \o Names(s[4]))
                         \o Join([i \in DOMAIN s[6] |-> T("static") \o Id(s[6][i][1]) \o T("=") \o Full(s[6][i][2])], <<>>)
                         \o Join([i \in DOMAIN s[5] |-> T("def") \o MethodName(s[5][i][1]) \o Func2(s[5][i][2], s[5][i][3])], <<>>)
                         \o T("end")
    [] s[1] = "try" -> T("try") \o Block2(s[2])
                       \o Join([i \in DOMAIN s[3] |->
                                 T("except") \o (IF s[3][i][1] = <<>> THEN T("..") ELSE Exprs(s[3][i][1]))
                                 \o (IF s[3][i][2] = <<>> THEN <<>> ELSE T("as") \o Names(s[3][i][2]))
                                 \o T(";") \o Block2(s[3][i][3])], <<>>)
                       \o T("end")
    [] s[1] = "raise" -> T("raise") \o Exprs(Tail(s)) \o T(";")

Tokens(prog) == Block2(prog)

-----------------------------------------------------------------------------
\* Running it.  r is [sig, v, w, fn, env, global, cells, objs, log]: sig is "ok",
\* "break", "continue", "return" or "raise", v a value (the exception, with
\* its argument w), fn the function that runs, env the cell of each name, global
\* whether a `var' makes a global.  <<"super", <<n, c>>>> is the instance n seen
\* as one of its superclass c.

\* A set in some order.
Listed(S) == FoldSet(LAMBDA x, list : Append(list, x), <<>>, S)

Nil == <<"nil", 0>>
Bool(b) == <<"bool", b>>
Num(n) == <<"int", n>>
Str(x) == <<"str", x>>
IsInt(v) == v[1] = "int"

Run0 == [sig |-> "ok", v |-> Nil, w |-> Nil, fn |-> Nil, env |-> <<>>, global |-> TRUE, cells |-> <<>>, objs |-> <<>>, log |-> <<>>]

Then(r, F(_)) == IF r.sig = "ok" THEN F(r) ELSE r
Ret(r, v) == [r EXCEPT !.v = v]
Raise(r, v) == [r EXCEPT !.sig = "raise", !.v = v, !.w = Nil]
Wrong(r) == Raise(r, Str("type_error"))
OnlyBool(r) == IF r.sig = "ok" /\ r.v[1] # "bool" THEN Wrong(r) ELSE r

NewObj(r, kind, o) == [r EXCEPT !.objs = Append(@, o), !.v = <<kind, Len(r.objs) + 1>>]
Obj(r, v) == r.objs[v[2]]
Declare(r, x, v) ==
  IF r.global /\ x \in DOMAIN r.env THEN [r EXCEPT !.cells[r.env[x]] = v]
  ELSE [r EXCEPT !.cells = Append(@, v), !.env = (x :> Len(r.cells) + 1) @@ @]

RECURSIVE Owner(_, _, _)
\* The class, c or a superclass, that has a method or a static x, or Nil.
Owner(r, c, x) == IF c = Nil \/ x \in DOMAIN Obj(r, c).methods \union DOMAIN Obj(r, c).statics THEN c ELSE Owner(r, Obj(r, c).super, x)
FindMethod(r, c, x) == LET o == Owner(r, c, x) IN IF o = Nil \/ (o # Nil /\ x \notin DOMAIN Obj(r, o).methods) THEN Nil ELSE Obj(r, o).methods[x]
Method(r, o, x) == FindMethod(r, Obj(r, o).class, x)

Quot(a, b) == LET q == (IF a < 0 THEN -a ELSE a) \div (IF b < 0 THEN -b ELSE b) IN IF (a < 0) # (b < 0) THEN -q ELSE q
Compute(op, a, b) ==
  CASE op = "+" -> Num(a + b) [] op = "-" -> Num(a - b) [] op = "*" -> Num(a * b) [] op = "/" -> Num(Quot(a, b))
    [] op = "%" -> Num(a - b * Quot(a, b)) [] op = "<" -> Bool(a < b) [] op = "<=" -> Bool(a <= b)
    [] op = ">" -> Bool(a > b) [] op = ">=" -> Bool(a >= b)
    [] op = "&" -> Num(a & b) [] op = "|" -> Num(a | b) [] op = "^" -> Num(a ^^ b)          \* of naturals
    [] op = "<<" -> Num(a * 2 ^ b) [] op = ">>" -> Num(a \div (2 ^ b))

RECURSIVE Ancestors(_, _), Alike(_, _, _)
\* A class and its superclasses, from it upwards.
Ancestors(r, c) == IF c = Nil THEN <<>> ELSE <<c>> \o Ancestors(r, Obj(r, c).super)

Kinds == {"inst", "super", "list", "map", "range"}
IsClassValue(v) == v[1] = "class" \/ v \in {<<"list", 0>>, <<"map", 0>>, <<"range", 0>>}
IsInstance(v) == v[1] \in Kinds /\ ~IsClassValue(v)
ClassValue(r, v) ==
  CASE v[1] = "inst" -> Obj(r, v).class [] v[1] = "super" -> v[2][2] [] IsClassValue(v) -> v
    [] OTHER -> IF IsInstance(v) THEN <<v[1], 0>> ELSE Nil
IsA(r, c, d) == d # Nil /\ (c = d \/ (c[1] = "class" /\ d \in ToSet(Ancestors(r, c))))

\* super(o) is one class above the class of the method that runs, super(o, c) at c.
SuperView(r, o, args) ==
  LET all == Ancestors(r, ClassValue(r, o))
      Defines(c) == r.fn \in {Obj(r, c).methods[x] : x \in DOMAIN Obj(r, c).methods}
      here == SelectInSeq(all, Defines)
      at == IF Len(args) = 2 /\ args[2] # Nil THEN SelectInSeq(Tail(all), LAMBDA c : c = args[2]) + 1
            ELSE IF Len(args) = 1 /\ here # 0 THEN here + 1 ELSE 2
  IN  IF at \in 2 .. Len(all) THEN <<"super", <<IF o[1] = "super" THEN o[2][1] ELSE o[2], all[at]>>>> ELSE Nil

TypeOf(v) ==
  CASE v[1] = "str" -> "string" [] v[1] \in {"nil", "bool", "int"} -> v[1]
    [] OTHER -> IF IsClassValue(v) THEN "class" ELSE IF IsInstance(v) THEN "instance" ELSE "function"

Alike(r, a, b) ==
  IF a[1] = "list" /\ b[1] = "list"
  THEN Len(Obj(r, a)) = Len(Obj(r, b)) /\ \A i \in DOMAIN Obj(r, a) : Alike(r, Obj(r, a)[i], Obj(r, b)[i])
  ELSE a = b

RECURSIVE Run(_, _, _, _), EvAll(_, _), Elif(_, _, _), While(_, _, _), For(_, _, _, _), Catch(_, _), AnyEqual(_, _, _)

\* What an expression is worth, what a call returns, what statements do: the
\* meanings that the others come back to.
Ev(e, r) == Run("ev", r, e, <<>>)
Do(ss, r) == Run("do", r, ss, <<>>)
Apply(r, f, args) == Run("apply", r, f, args)

\* Truth of r.v, and the equality of two values, which may run methods.
Truth(r, v) ==
  CASE v[1] = "nil" -> Ret(r, Bool(FALSE))
    [] v[1] = "bool" -> Ret(r, v)
    [] v[1] = "int" -> Ret(r, Bool(v[2] # 0))
    [] v[1] = "str" -> Ret(r, Bool(v[2] # ""))
    [] v[1] = "inst" /\ Method(r, v, "tobool") # Nil -> OnlyBool(Apply(r, Method(r, v, "tobool"), <<v>>))
    [] OTHER -> Ret(r, Bool(TRUE))

Base(r, f, args) ==
  LET o == args[1]
      m == IF o[1] = "inst" THEN Method(r, o, "size") ELSE Nil
  IN  CASE f = "type" -> Ret(r, Str(TypeOf(o)))
        [] f = "classof" -> Ret(r, IF IsInstance(o) THEN ClassValue(r, o) ELSE Nil)
        [] f = "isinstance" -> Ret(r, Bool(IsInstance(o) /\ IsA(r, ClassValue(r, o), ClassValue(r, args[2]))))
        [] f = "issubclass" -> Ret(r, Bool(IsClassValue(o) /\ IsA(r, o, ClassValue(r, args[2]))))
        [] f = "super" -> CASE o[1] = "class" -> Ret(r, Obj(r, o).super)
                            [] o[1] \in {"inst", "super"} -> IF Len(args) = 2 /\ args[2] # Nil /\ ~IsClassValue(args[2]) THEN Wrong(r)
                                                             ELSE Ret(r, SuperView(r, o, args))
                            [] OTHER -> Ret(r, Nil)
        [] f = "size" -> CASE o[1] = "str" -> Ret(r, Num(Len(o[2])))
                           [] o[1] \in {"list", "map"} -> Ret(r, Num(Cardinality(DOMAIN Obj(r, o))))
                           [] OTHER -> IF m = Nil THEN Ret(r, Nil) ELSE Apply(r, m, <<o>>)

\* A call: parameters that are not given are nil, arguments that are not taken are dropped.
ApplyRule(r, f, args) ==
  LET c == Obj(r, f)
      n == Len(c.params)
      s == [r EXCEPT !.cells = @ \o [i \in 1 .. n |-> IF i <= Len(args) THEN args[i] ELSE Nil],
                     !.env = [i \in {c.params[j] : j \in 1 .. n} |-> Len(r.cells) + CHOOSE j \in 1 .. n : c.params[j] = i] @@ c.env,
                     !.global = FALSE, !.fn = f]
      t == Do(c.body, s)
      back == [t EXCEPT !.env = r.env, !.global = r.global, !.fn = r.fn, !.sig = IF @ = "raise" THEN @ ELSE "ok"]
      new == NewObj(r, "inst", [class |-> f, vals |-> [x \in c.all |-> Nil]])
      init == FindMethod(r, f, "init")
  IN  CASE f[1] = "fn" -> IF t.sig = "ok" THEN Ret(back, Nil) ELSE back
        [] f[1] = "class" /\ init = Nil -> new
        [] f[1] = "class" /\ init # Nil -> Then(Apply(new, init, <<new.v>> \o args), LAMBDA a : Ret(a, new.v))
        [] f[1] = "inst" /\ Method(r, f, "()") # Nil -> Apply(r, Method(r, f, "()"), <<f>> \o args)
        [] f[1] = "log" -> [r EXCEPT !.log = Append(@, IF args[1][1] \in {"nil", "bool", "int", "str"} THEN args[1] ELSE <<"obj", 0>>), !.v = Nil]
        [] f[1] = "range" -> NewObj(r, "range", <<args[1][2], args[2][2]>>)
        [] f[1] \in {"type", "classof", "isinstance", "issubclass", "size", "super"} -> Base(r, f[1], args)
        [] OTHER -> Wrong(r)

Equal(r, op, a, b) ==
  IF a[1] = "inst" /\ b # Nil /\ Method(r, a, op) # Nil THEN OnlyBool(Apply(r, Method(r, a, op), <<a, b>>)) ELSE Ret(r, Bool(Alike(r, a, b) = (op = "==")))

Binary(r, op, a, b) ==
  CASE op \in {"==", "!="} -> Equal(r, op, a, b)
    [] op = ".." /\ IsInt(a) /\ IsInt(b) -> NewObj(r, "range", <<a[2], b[2]>>)
    [] op = ".." /\ a[1] = "list" -> [r EXCEPT !.objs[a[2]] = Append(@, b), !.v = a]
    [] op = "+" /\ a[1] = "list" /\ b[1] = "list" -> NewObj(r, "list", Obj(r, a) \o Obj(r, b))
    [] op # ".." /\ IsInt(a) /\ IsInt(b) -> IF op = "/" /\ b[2] = 0 THEN Raise(r, Str("divzero_error")) ELSE Ret(r, Compute(op, a[2], b[2]))
    [] op \in {"+", ".."} /\ a[1] = "str" /\ b[1] = "str" -> Ret(r, Str(a[2] \o b[2]))
    [] a[1] = "inst" /\ Method(r, a, op) # Nil ->
         IF op \in {"<", "<=", ">", ">="} THEN OnlyBool(Apply(r, Method(r, a, op), <<a, b>>)) ELSE Apply(r, Method(r, a, op), <<a, b>>)
    [] op = "+" /\ a[1] = "list" /\ b[1] # "list" -> Wrong(r)
    [] OTHER -> IF a[1] \in {"inst", "list", "map", "range"} THEN Raise(r, Str("attribute_error")) ELSE Wrong(r)

\* What a list has at a range, as far as it goes, and at a list of indices.
Items(l, kind, k) ==
  LET From(i) == IF i < 0 THEN Len(l) + i ELSE i
      In(i) == IsInt(i) /\ i[2] \in 0 .. Len(l) - 1
      inside == {i \in DOMAIN l : i - 1 >= From(k[1]) /\ i - 1 <= From(k[2])}
  IN  IF kind = "list" THEN [j \in DOMAIN k |-> IF In(k[j]) THEN l[k[j][2] + 1] ELSE Nil]
      ELSE [j \in 1 .. Cardinality(inside) |-> l[j - 1 + CHOOSE i \in inside : \A h \in inside : i <= h]]

Item(r, o, k) ==
  CASE o[1] = "list" /\ k[1] \in {"range", "list"} -> NewObj(r, "list", Items(Obj(r, o), k[1], Obj(r, k)))
    [] o[1] = "list" /\ k[1] \notin {"range", "list"} -> IF IsInt(k) /\ k[2] \in -Len(Obj(r, o)) .. Len(Obj(r, o)) - 1
                        THEN Ret(r, Obj(r, o)[IF k[2] < 0 THEN Len(Obj(r, o)) + k[2] + 1 ELSE k[2] + 1])
                        ELSE Raise(r, Str("index_error"))
    [] o[1] = "map" -> IF k \in DOMAIN Obj(r, o) THEN Ret(r, Obj(r, o)[k]) ELSE Raise(r, Str("key_error"))
    [] o[1] = "inst" /\ Method(r, o, "item") # Nil -> Apply(r, Method(r, o, "item"), <<o, k>>)
    [] o[1] = "inst" /\ Method(r, o, "item") = Nil -> Raise(r, Str("attribute_error"))
    [] OTHER -> Wrong(r)

StoreItem(r, o, k, v) ==
  CASE o[1] = "list" -> IF IsInt(k) /\ k[2] \in 0 .. Len(Obj(r, o)) - 1 THEN [r EXCEPT !.objs[o[2]][k[2] + 1] = v]
                        ELSE Raise(r, Str("index_error"))
    [] o[1] = "map" -> [r EXCEPT !.objs[o[2]] = (k :> v) @@ @]
    [] o[1] = "inst" /\ Method(r, o, "setitem") # Nil -> Apply(r, Method(r, o, "setitem"), <<o, k, v>>)
    [] OTHER -> Wrong(r)

FuncValue(r, params, body) == NewObj(r, "fn", [params |-> params, body |-> body, env |-> r.env])

\* The values of expressions, left to right, as a sequence.
EvAll(es, r) ==
  IF es = <<>> THEN Ret(r, <<>>)
  ELSE Then(Ev(Head(es), r), LAMBDA a : Then(EvAll(Tail(es), a), LAMBDA b : Ret(b, <<a.v>> \o b.v)))

\* Lists count from 0, and from the end with a negative index.
ListSend(r, o, x, args) ==
  LET l == Obj(r, o)
      i == IF args = <<>> \/ ~IsInt(Head(args)) THEN -1 ELSE Head(args)[2]
      at == IF i < 0 THEN Len(l) + i + 1 ELSE i + 1
      in == at \in DOMAIN l
      To(list, v) == [r EXCEPT !.objs[o[2]] = list, !.v = v]
  IN  CASE x = "push" -> To(Append(l, args[1]), Nil)
        [] x = "pop" -> IF in THEN To(RemoveAt(l, at), l[at]) ELSE Raise(r, Str("index_error"))
        [] x = "remove" -> To(IF in THEN RemoveAt(l, at) ELSE l, Nil)
        [] x = "insert" -> To(IF at \in 1 .. Len(l) + 1 THEN InsertAt(l, at, args[2]) ELSE l, Nil)
        [] x = "clear" -> To(<<>>, Nil)
        [] x = "copy" -> NewObj(r, "list", l)
        [] x = "keys" -> NewObj(r, "range", <<0, Len(l) - 1>>)
        [] x = "find" -> LET n == SelectInSeq(l, LAMBDA v : Alike(r, v, args[1])) IN Ret(r, IF n = 0 THEN Nil ELSE Num(n - 1))
        [] x = "reverse" -> To([j \in DOMAIN l |-> l[Len(l) + 1 - j]], o)
        [] OTHER -> Raise(r, Str("attribute_error"))

MapSend(r, o, x, args) ==
  LET f == Obj(r, o)
      has == args # <<>> /\ args[1] \in DOMAIN f
      To(g, v) == [r EXCEPT !.objs[o[2]] = g, !.v = v]
  IN  CASE x = "remove" -> To([k \in DOMAIN f \ {args[1]} |-> f[k]], Nil)
        [] x = "find" -> Ret(r, IF has THEN f[args[1]] ELSE IF Len(args) > 1 THEN args[2] ELSE Nil)
        [] x = "contains" -> Ret(r, Bool(has))
        [] x = "keys" -> Ret(r, <<"keys", o[2]>>)
        [] x = "insert" -> To(IF has THEN f ELSE (args[1] :> args[2]) @@ f, Bool(~has))
        [] OTHER -> Raise(r, Str("attribute_error"))

RangeSend(r, o, x, args) ==
  CASE x = "lower" -> Ret(r, Num(Obj(r, o)[1]))
    [] x = "upper" -> Ret(r, Num(Obj(r, o)[2]))
    [] x = "setrange" -> [r EXCEPT !.objs[o[2]] = <<args[1][2], args[2][2]>>, !.v = Nil]
    [] OTHER -> Raise(r, Str("attribute_error"))

\* The variable x of an instance, as far as its class c has it.
InstOf(o) == IF o[1] = "super" THEN <<"inst", o[2][1]>> ELSE o
HasVar(r, o, x) == (o[1] = "inst" /\ x \in DOMAIN Obj(r, o).vals) \/ (o[1] = "super" /\ x \in Obj(r, o[2][2]).all)

\* x.name of an instance or of a class.
Field(r, o, x) ==
  LET c == IF o[1] = "super" THEN o[2][2] ELSE IF o[1] = "class" THEN o ELSE IF o[1] = "inst" THEN Obj(r, o).class ELSE Nil
      at == Owner(r, c, x)
  IN  CASE HasVar(r, o, x) -> Ret(r, Obj(r, InstOf(o)).vals[x])
        [] ~HasVar(r, o, x) /\ at # Nil ->
             Ret(r, IF x \in DOMAIN Obj(r, at).statics THEN Obj(r, at).statics[x] ELSE Obj(r, at).methods[x])
        [] OTHER -> Raise(r, Str("attribute_error"))

\* x.name(args): a method gets the instance, a function kept in a variable does not.
Send(r, o, x, args) ==
  LET m == FindMethod(r, ClassValue(r, o), x)
  IN  CASE HasVar(r, o, x) -> Apply(r, Obj(r, InstOf(o)).vals[x], args)
        [] o[1] \in {"inst", "super"} /\ ~HasVar(r, o, x) ->
             IF m # Nil THEN Apply(r, m, <<InstOf(o)>> \o args) ELSE IF x = "init" THEN Ret(r, o) ELSE Raise(r, Str("attribute_error"))
        [] o[1] = "range" -> RangeSend(r, o, x, args)
        [] o[1] \in {"list", "map"} /\ x = "size" -> Ret(r, Num(Cardinality(DOMAIN Obj(r, o))))
        [] o[1] = "list" /\ x # "size" -> ListSend(r, o, x, args)
        [] o[1] = "map" /\ x # "size" -> MapSend(r, o, x, args)
        [] o[1] = "class" -> Then(Field(r, o, x), LAMBDA a : Apply(a, a.v, args))
        [] OTHER -> Raise(r, Str("attribute_error"))

EvRule(e, r) ==
  CASE e[1] \in {"int", "str", "nil", "bool"} -> Ret(r, e)
    [] e[1] = "id" -> Ret(r, IF e[2] \in DOMAIN r.env THEN r.cells[r.env[e[2]]] ELSE <<e[2], 0>>)   \* else a builtin
    [] e[1] = "bin" /\ e[2] \in {"&&", "||"} ->
         Then(Ev(e[3], r), LAMBDA a : Then(Truth(a, a.v), LAMBDA b :
           IF b.v[2] # (e[2] = "&&") THEN b ELSE Then(Ev(e[4], b), LAMBDA c : Truth(c, c.v))))
    [] e[1] = "bin" /\ e[2] \notin {"&&", "||"} -> Then(EvAll(<<e[3], e[4]>>, r), LAMBDA a : Binary(a, e[2], a.v[1], a.v[2]))
    [] e[1] = "un" /\ e[2] = "!" -> Then(Ev(e[3], r), LAMBDA a : Then(Truth(a, a.v), LAMBDA b : Ret(b, Bool(~b.v[2]))))
    [] e[1] = "un" /\ e[2] # "!" -> Then(Ev(e[3], r), LAMBDA a :
         LET m == IF a.v[1] = "inst" THEN Method(a, a.v, IF e[2] = "-" THEN "-*" ELSE "~") ELSE Nil
         IN  CASE IsInt(a.v) -> Ret(a, Num(IF e[2] = "-" THEN -a.v[2] ELSE -a.v[2] - 1))
               [] IsInstance(a.v) -> IF m = Nil THEN Raise(a, Str("attribute_error")) ELSE Apply(a, m, <<a.v>>)
               [] OTHER -> Wrong(a))
    [] e[1] = "cond" -> Then(Ev(e[2], r), LAMBDA a : Then(Truth(a, a.v), LAMBDA b : Ev(IF b.v[2] THEN e[3] ELSE e[4], b)))
    [] e[1] = "call" /\ e[2][1] = "mem" -> Then(EvAll(<<e[2][2]>> \o e[3], r), LAMBDA a : Send(a, Head(a.v), e[2][3], Tail(a.v)))
    [] e[1] = "call" /\ e[2][1] # "mem" -> Then(EvAll(<<e[2]>> \o e[3], r), LAMBDA a : Apply(a, Head(a.v), Tail(a.v)))
    [] e[1] = "mem" -> Then(Ev(e[2], r), LAMBDA a : Field(a, a.v, e[3]))
    [] e[1] = "idx" -> Then(EvAll(<<e[2], e[3]>>, r), LAMBDA a : Item(a, a.v[1], a.v[2]))
    [] e[1] = "list" -> Then(EvAll(e[2], r), LAMBDA a : NewObj(a, "list", a.v))
    [] e[1] = "map" -> Then(EvAll(FlattenSeq(e[2]), r), LAMBDA a :
         NewObj(a, "map", [k \in {a.v[2 * i - 1] : i \in 1 .. Len(e[2])} |->
                             a.v[2 * (CHOOSE i \in 1 .. Len(e[2]) : a.v[2 * i - 1] = k /\ \A j \in i + 1 .. Len(e[2]) : a.v[2 * j - 1] # k)]]))
    [] e[1] = "fn" -> FuncValue(r, e[2], e[3])
    [] e[1] = "lam" -> FuncValue(r, e[2], <<<<"return", e[3]>>>>)

\* Statements in a scope of their own.
Scope(ss, r) == LET a == Do(ss, [r EXCEPT !.global = FALSE]) IN [a EXCEPT !.env = r.env, !.global = r.global]

\* What a loop does with the outcome of its body.
Loop(a, Again(_)) == CASE a.sig = "break" -> [a EXCEPT !.sig = "ok"]
                       [] a.sig \in {"ok", "continue"} -> Again([a EXCEPT !.sig = "ok"])
                       [] OTHER -> a

While(c, b, r) ==
  Then(Ev(c, r), LAMBDA a : Then(Truth(a, a.v), LAMBDA t :
    IF t.v[2] THEN Loop(Scope(b, t), LAMBDA u : While(c, b, u)) ELSE t))

\* for x : it.  A list is read as it is at each turn; a function is called until
\* it raises stop_iteration.
For(it, x, b, r) ==
  LET Body(s, v, rest) == Loop(Scope(<<<<"var", x, v>>>> \o b, s), LAMBDA u : For(rest, x, b, u))
      a == Apply(r, it, <<>>)
  IN  CASE it[1] = "range" -> For(<<"ints", Obj(r, it)>>, x, b, r)
        [] it[1] = "ints" -> IF it[2][1] > it[2][2] THEN r ELSE Body(r, Num(it[2][1]), <<"ints", <<it[2][1] + 1, it[2][2]>>>>)
        [] it[1] = "list" -> For(<<"items", it[2], 1>>, x, b, r)
        [] it[1] \in {"map", "keys"} ->
             LET l == NewObj(r, "list", Listed({IF it[1] = "map" THEN <<k, Obj(r, it)[k]>> ELSE <<k, k>> : k \in DOMAIN Obj(r, it)}))
             IN  For(<<"items", l.v[2], 1>>, x, b, [l EXCEPT !.objs[l.v[2]] = [i \in DOMAIN @ |-> @[i][2]]])
        [] it[1] = "items" -> IF it[3] > Len(r.objs[it[2]]) THEN r ELSE Body(r, <<"val", r.objs[it[2]][it[3]]>>, <<"items", it[2], it[3] + 1>>)
        [] it[1] = "inst" -> Then(Apply(r, Method(r, it, "iter"), <<it>>), LAMBDA f : For(f.v, x, b, f))
        [] OTHER -> IF a.sig = "raise" /\ a.v = Str("stop_iteration") THEN [a EXCEPT !.sig = "ok"]
                    ELSE Then(a, LAMBDA u : Body(u, <<"val", u.v>>, it))

AnyEqual(r, v, es) ==
  IF es = <<>> THEN Ret(r, Bool(FALSE))
  ELSE Then(Ev(Head(es), r), LAMBDA a : Then(Equal(a, "==", v, a.v), LAMBDA b : IF b.v[2] THEN b ELSE AnyEqual(b, v, Tail(es))))

\* The except clauses, in order, for the exception in r.
Catch(cs, r) ==
  LET c == Head(cs)
      ok == [r EXCEPT !.sig = "ok"]
      hit == IF c[1] = <<>> THEN Ret(ok, Bool(TRUE)) ELSE AnyEqual(ok, r.v, c[1])
      vars == [i \in DOMAIN c[2] |-> <<"var", c[2][i], <<"val", IF i = 1 THEN r.v ELSE r.w>>>>]
  IN  IF cs = <<>> THEN r
      ELSE Then(hit, LAMBDA a : IF a.v[2] THEN Scope(vars \o c[3], a) ELSE Catch(Tail(cs), [r EXCEPT !.cells = a.cells, !.objs = a.objs, !.log = a.log]))

Elif(arms, els, r) ==
  IF arms = <<>> THEN Scope(els, r)
  ELSE Then(Ev(arms[1][1], r), LAMBDA a : Then(Truth(a, a.v), LAMBDA b :
         IF b.v[2] THEN Scope(arms[1][2], b) ELSE Elif(Tail(arms), els, b)))

Store(lhs, r, v) ==
  CASE lhs[1] = "id" -> [r EXCEPT !.cells[r.env[lhs[2]]] = v]
    [] lhs[1] = "mem" -> Then(Ev(lhs[2], r), LAMBDA a : CASE HasVar(a, a.v, lhs[3]) -> [a EXCEPT !.objs[InstOf(a.v)[2]].vals[lhs[3]] = v]
                           [] a.v[1] = "class" /\ Owner(a, a.v, lhs[3]) # Nil -> [a EXCEPT !.objs[Owner(a, a.v, lhs[3])[2]].statics[lhs[3]] = v]
                           [] OTHER -> Raise(a, Str("attribute_error")))
    [] lhs[1] = "idx" -> Then(EvAll(<<lhs[2], lhs[3]>>, r), LAMBDA a : StoreItem(a, a.v[1], a.v[2], v))

Ex(s, r) ==
  CASE s[1] = "var" -> Then(IF s[3][1] = "val" THEN Ret(r, s[3][2]) ELSE Ev(s[3], r), LAMBDA a : Declare(a, s[2], a.v))
    [] s[1] = "set" -> Then(Ev(s[3], r), LAMBDA a : Store(s[2], a, a.v))
    [] s[1] = "upd" -> Then(Ev(<<"bin", AssignOps[s[2]], s[3], s[4]>>, r), LAMBDA a : Store(s[3], a, a.v))
    [] s[1] = "expr" -> Ev(s[2], r)
    [] s[1] = "if" -> Elif(s[2], s[3], r)
    [] s[1] = "while" -> While(s[2], s[3], r)
    [] s[1] = "for" -> Then(Ev(s[3], r), LAMBDA a : For(a.v, s[2], s[4], a))
    [] s[1] = "do" -> Scope(s[2], r)
    [] s[1] \in {"break", "continue"} -> [r EXCEPT !.sig = s[1]]
    [] s[1] = "return" -> Then(Ev(s[2], r), LAMBDA a : [a EXCEPT !.sig = "return"])
    [] s[1] = "def" -> LET a == Declare(r, s[2], Nil)
                           b == FuncValue(a, s[3], s[4])
                       IN  [b EXCEPT !.cells[b.env[s[2]]] = b.v]
    [] s[1] = "class" ->
         LET a == Declare(r, s[2], Nil)
             sup == IF s[3] = "" THEN Nil ELSE a.cells[a.env[s[3]]]
             n == Len(s[5])
             fs == [i \in 1 .. n |-> [params |-> <<"self">> \o s[5][i][2], body |-> s[5][i][3], env |-> a.env]]
             b == [a EXCEPT !.objs = @ \o fs]
             st == EvAll([i \in DOMAIN s[6] |-> s[6][i][2]], b)
             c == NewObj(st, "class", [super |-> sup, statics |-> [x \in {s[6][i][1] : i \in DOMAIN s[6]} |->
                                                                   st.v[CHOOSE i \in DOMAIN s[6] : s[6][i][1] = x]], params |-> <<>>, body |-> <<>>, env |-> <<>>,
                                      all |-> ToSet(s[4]) \union (IF sup = Nil THEN {} ELSE Obj(b, sup).all),
                                      methods |-> [x \in {s[5][i][1] : i \in 1 .. n} |->
                                                     <<"fn", Len(a.objs) + CHOOSE i \in 1 .. n : s[5][i][1] = x>>]])
         IN  IF sup[1] \notin {"nil", "class"} THEN Wrong(a) ELSE [c EXCEPT !.cells[c.env[s[2]]] = c.v]
    [] s[1] = "try" -> LET a == Scope(s[2], r) IN IF a.sig = "raise" THEN Catch(s[3], [a EXCEPT !.env = r.env, !.global = r.global]) ELSE a
    [] s[1] = "raise" -> Then(EvAll(Tail(s), r), LAMBDA a :
         [a EXCEPT !.sig = "raise", !.v = a.v[1], !.w = IF Len(a.v) > 1 THEN a.v[2] ELSE Nil])

Run(what, r, x, args) ==
  CASE what = "ev" -> EvRule(x, r)
    [] what = "apply" -> ApplyRule(r, x, args)
    [] what = "do" -> IF x = <<>> THEN r ELSE Then(Ex(Head(x), r), LAMBDA a : Do(Tail(x), a))

\* The top level, then the entries the host calls while nothing has failed:
\* [log, rcs] with how each of them ended.
RECURSIVE Host(_, _, _)
Host(r, es, rcs) ==
  LET x == Head(es)
      a == Apply([r EXCEPT !.sig = "ok"], r.cells[r.env[x]], <<>>)
  IN  IF es = <<>> THEN [log |-> r.log, rcs |-> rcs]
      ELSE IF x \notin DOMAIN r.env THEN Host(r, Tail(es), Append(rcs, "absent"))
      ELSE Host(a, Tail(es), Append(rcs, IF a.sig = "raise" THEN "error" ELSE "ok"))

Meaning(prog) ==
  LET r == Do(prog, Run0)
  IN  IF r.sig = "raise" THEN [log |-> r.log, rcs |-> <<"error">>]
      ELSE Host([r EXCEPT !.env = r.env, !.global = TRUE], Entries, <<"ok">>)

=============================================================================
