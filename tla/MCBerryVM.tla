------------------------------ MODULE MCBerryVM ------------------------------
(***************************************************************************)
(* The programs that BerryVM runs.  Each is the syntax tree of the Berry   *)
(* text above it; Expressions enumerates the operators over every kind of  *)
(* operand that the code generator tells apart.                            *)
(***************************************************************************)
EXTENDS BerryVM

V(x) == <<"id", x>>
Bin(op, a, b) == <<"bin", op, a, b>>
Un(op, a) == <<"un", op, a>>
Cond(c, a, b) == <<"cond", c, a, b>>
FunCall(f, args) == <<"call", f, args>>
Dot(e, x) == <<"mem", e, x>>
At(e, i) == <<"idx", e, i>>
ListOf(es) == <<"list", es>>
MapOf(kvs) == <<"map", kvs>>
Fn(params, body) == <<"fn", params, body>>
Lam(params, e) == <<"lam", params, e>>

Var(x, e) == <<"var", x, e>>
Set(lhs, e) == <<"set", lhs, e>>
Upd(op, lhs, e) == <<"upd", op, lhs, e>>
Eval(e) == <<"expr", e>>
Log(e) == Eval(FunCall(V("log"), <<e>>))
If(arms, els) == <<"if", arms, els>>
WhileDo(c, body) == <<"while", c, body>>
ForIn(x, e, body) == <<"for", x, e, body>>
Begin(body) == <<"do", body>>
Break == <<"break">>
Continue == <<"continue">>
Give(e) == <<"return", e>>
Def(x, params, body) == <<"def", x, params, body>>
Class(x, super, vars, statics, methods) == <<"class", x, super, vars, methods, statics>>
Try(body, clauses) == <<"try", body, clauses>>
Throwing(es) == <<"raise">> \o es

MCBuiltins == <<"list", "map", "range", "__iterator__", "log", "type", "classof", "isinstance", "issubclass", "size", "super">>
MCEntries == <<"setup", "loop", "loop">>

-----------------------------------------------------------------------------

\* Closures that share a variable, and closures over a closure's variable:
\*   def mk() var n = 0; def inc() n += 1; return n end; def get() return def () return n end end; return [inc, get] end
\*   var p = mk(); var q = mk();
\*   p[0](); p[0](); q[0]();
\*   log(p[1]()()); log(q[1]()()); p[0](); log(p[1]()());
Counters ==
  <<Def("mk", <<>>, <<Var("n", Num(0)), Def("inc", <<>>, <<Upd("+=", V("n"), Num(1)), Give(V("n"))>>), Def("get", <<>>,
      <<Give(Fn(<<>>, <<Give(V("n"))>>))>>), Give(ListOf(<<V("inc"), V("get")>>))>>),
    Var("p", FunCall(V("mk"), <<>>)),
    Var("q", FunCall(V("mk"), <<>>)),
    Eval(FunCall(At(V("p"), Num(0)), <<>>)),
    Eval(FunCall(At(V("p"), Num(0)), <<>>)),
    Eval(FunCall(At(V("q"), Num(0)), <<>>)),
    Log(FunCall(FunCall(At(V("p"), Num(1)), <<>>), <<>>)),
    Log(FunCall(FunCall(At(V("q"), Num(1)), <<>>), <<>>)),
    Eval(FunCall(At(V("p"), Num(0)), <<>>)),
    Log(FunCall(FunCall(At(V("p"), Num(1)), <<>>), <<>>))>>

\* Each turn of a loop has a variable of its own:
\*   var fs = []; for i : 0 .. 2; var k = i * 2; fs.push(def () k += 1; return k + i end); end;
\*   for f : fs; log(f()); log(f()); end
PerTurn ==
  <<Var("fs", ListOf(<<>>)),
    ForIn("i", Bin("..", Num(0), Num(2)), <<Var("k", Bin("*", V("i"), Num(2))), Eval(FunCall(Dot(V("fs"), "push"), <<Fn(<<>>,
      <<Upd("+=", V("k"), Num(1)), Give(Bin("+", V("k"), V("i")))>>)>>))>>),
    ForIn("f", V("fs"), <<Log(FunCall(V("f"), <<>>)), Log(FunCall(V("f"), <<>>))>>)>>

\* Break and continue inside a try block inside a loop:
\*   def f(n) var i = 0; var s = 0;
\*     while true; i += 1;
\*       try if i == 2; continue; end; if i > n; break; end; if i == 3; raise "odd", i; end; s += i;
\*       except "odd" as e, v; s += 10 * v; end; end;
\*     return s end
\*   log(f(4));
\*   def g(l) for x : l; for y : l; if y == x; continue; end; if y > 2; break; end; log(x * 10 + y); end; end; end
\*   try g([1, 2, 3]); raise "x", 5; except "y", "z"; log(1); except "w", "x" as e, v; log(v); end
Loops ==
  <<Def("f", <<"n">>, <<Var("i", Num(0)), Var("s", Num(0)), WhileDo(Bool(TRUE), <<Upd("+=", V("i"), Num(1)), Try(<<If(<<<<Bin("==",
      V("i"), Num(2)), <<Continue>>>>>>, <<>>), If(<<<<Bin(">", V("i"), V("n")), <<Break>>>>>>, <<>>), If(<<<<Bin("==", V("i"),
      Num(3)), <<Throwing(<<Str("odd"), V("i")>>)>>>>>>, <<>>), Upd("+=", V("s"), V("i"))>>, <<<<<<Str("odd")>>, <<"e", "v">>,
      <<Upd("+=", V("s"), Bin("*", Num(10), V("v")))>>>>>>)>>), Give(V("s"))>>),
    Log(FunCall(V("f"), <<Num(4)>>)),
    Def("g", <<"l">>, <<ForIn("x", V("l"), <<ForIn("y", V("l"), <<If(<<<<Bin("==", V("y"), V("x")), <<Continue>>>>>>, <<>>),
      If(<<<<Bin(">", V("y"), Num(2)), <<Break>>>>>>, <<>>), Log(Bin("+", Bin("*", V("x"), Num(10)), V("y")))>>)>>)>>),
    Try(<<Eval(FunCall(V("g"), <<ListOf(<<Num(1), Num(2), Num(3)>>)>>)), Throwing(<<Str("x"), Num(5)>>)>>, <<<<<<Str("y"), Str("z")>>,
      <<>>, <<Log(Num(1))>>>>, <<<<Str("w"), Str("x")>>, <<"e", "v">>, <<Log(V("v"))>>>>>>)>>

\* An exception crosses functions, a block that does not name it, and a return:
\*   def g(n) if n == 0; raise "deep", 7; end; g(n - 1); end
\*   def h() try g(2); except "shallow"; return 1; end; end
\*   def k() try h(); except "deep" as e, m; return m; end; return 0 end
\*   def r() try try return 5; except ..; return 6; end; except ..; return 8; end; end
\*   log(k()); log(r());
\*   try try raise "a"; except "a"; raise "b", 4; end; except "b" as e, v; log(v); end;
\*   try raise "c"; except ..; log(3); end;
\*   try g(1); log(0); except .. as e; log(e); end
Unwinding ==
  <<Def("g", <<"n">>, <<If(<<<<Bin("==", V("n"), Num(0)), <<Throwing(<<Str("deep"), Num(7)>>)>>>>>>, <<>>), Eval(FunCall(V("g"),
      <<Bin("-", V("n"), Num(1))>>))>>),
    Def("h", <<>>, <<Try(<<Eval(FunCall(V("g"), <<Num(2)>>))>>, <<<<<<Str("shallow")>>, <<>>, <<Give(Num(1))>>>>>>)>>),
    Def("k", <<>>, <<Try(<<Eval(FunCall(V("h"), <<>>))>>, <<<<<<Str("deep")>>, <<"e", "m">>, <<Give(V("m"))>>>>>>), Give(Num(0))>>),
    Def("r", <<>>, <<Try(<<Try(<<Give(Num(5))>>, <<<<<<>>, <<>>, <<Give(Num(6))>>>>>>)>>, <<<<<<>>, <<>>, <<Give(Num(8))>>>>>>)>>),
    Log(FunCall(V("k"), <<>>)),
    Log(FunCall(V("r"), <<>>)),
    Try(<<Try(<<Throwing(<<Str("a")>>)>>, <<<<<<Str("a")>>, <<>>, <<Throwing(<<Str("b"), Num(4)>>)>>>>>>)>>, <<<<<<Str("b")>>, <<"e",
      "v">>, <<Log(V("v"))>>>>>>),
    Try(<<Throwing(<<Str("c")>>)>>, <<<<<<>>, <<>>, <<Log(Num(3))>>>>>>),
    Try(<<Eval(FunCall(V("g"), <<Num(1)>>)), Log(Num(0))>>, <<<<<<>>, <<"e">>, <<Log(V("e"))>>>>>>)>>

\* Operators, indexing, calls and conditions on an instance:
\*   class A var x; def init(x) self.x = x; end; def +(o) return A(self.x + o.x) end; def ==(o) return self.x == o.x end;
\*     def <(o) return self.x < o.x end; def ()(k, j) return self.x * 10 + k + j end; def item(k) return self.x * k end;
\*     def setitem(k, v) self.x = k + v; end; def tobool() return self.x > 0 end; def -*() return A(-self.x) end end
\*   var a = A(2); var b = A(3);
\*   log((a + b).x); log(a == b); log(a < b); log(a(4, 5)); log(b[5]);
\*   a[1] = 0; log(a.x); log((-b).x);
\*   if a; log("yes"); end; if A(0); log("no"); end;
\*   b.x -= 3; while b; log("never"); end; log(a == A(1) && !b); log(A(1) == nil)
Objects ==
  <<Class("A", "", <<"x">>, <<>>, <<<<"init", <<"x">>, <<Set(Dot(V("self"), "x"), V("x"))>>>>, <<"+", <<"o">>,
      <<Give(FunCall(V("A"), <<Bin("+", Dot(V("self"), "x"), Dot(V("o"), "x"))>>))>>>>, <<"==", <<"o">>, <<Give(Bin("==",
      Dot(V("self"), "x"), Dot(V("o"), "x")))>>>>, <<"<", <<"o">>, <<Give(Bin("<", Dot(V("self"), "x"), Dot(V("o"), "x")))>>>>,
      <<"()", <<"k", "j">>, <<Give(Bin("+", Bin("+", Bin("*", Dot(V("self"), "x"), Num(10)), V("k")), V("j")))>>>>, <<"item", <<"k">>,
      <<Give(Bin("*", Dot(V("self"), "x"), V("k")))>>>>, <<"setitem", <<"k", "v">>, <<Set(Dot(V("self"), "x"), Bin("+", V("k"),
      V("v")))>>>>, <<"tobool", <<>>, <<Give(Bin(">", Dot(V("self"), "x"), Num(0)))>>>>, <<"-*", <<>>, <<Give(FunCall(V("A"),
      <<Un("-", Dot(V("self"), "x"))>>))>>>>>>),
    Var("a", FunCall(V("A"), <<Num(2)>>)),
    Var("b", FunCall(V("A"), <<Num(3)>>)),
    Log(Dot(Bin("+", V("a"), V("b")), "x")),
    Log(Bin("==", V("a"), V("b"))),
    Log(Bin("<", V("a"), V("b"))),
    Log(FunCall(V("a"), <<Num(4), Num(5)>>)),
    Log(At(V("b"), Num(5))),
    Set(At(V("a"), Num(1)), Num(0)),
    Log(Dot(V("a"), "x")),
    Log(Dot(Un("-", V("b")), "x")),
    If(<<<<V("a"), <<Log(Str("yes"))>>>>>>, <<>>),
    If(<<<<FunCall(V("A"), <<Num(0)>>), <<Log(Str("no"))>>>>>>, <<>>),
    Upd("-=", Dot(V("b"), "x"), Num(3)),
    WhileDo(V("b"), <<Log(Str("never"))>>),
    Log(Bin("&&", Bin("==", V("a"), FunCall(V("A"), <<Num(1)>>)), Un("!", V("b")))),
    Log(Bin("==", FunCall(V("A"), <<Num(1)>>), Nil))>>

\* Inherited fields and methods, statics, a function in a field, the lowest subclass as self:
\*   class A var x, f; static n = 1; def init(x) self.x = x; end; def get() return self.x end; def twice() return self.get() + self.get() end end
\*   class B : A var y; static m = 20; def init(x, y) self.x = x; self.y = y; end; def get() return self.x + self.y end end
\*   class C : B end
\*   var a = A(1); var b = B(2, 3); var c = C(4, 5); c.f = /k -> k + 1;
\*   log(a.twice()); log(b.twice()); log(c.twice()); log(c.f(7)); log(a.f);
\*   B.m += 1; log(B.m); log(C.m + A.n); c.y = 50; log(c.get());
\*   try a.y = 1; except "attribute_error"; log("no y"); end
Classes ==
  <<Class("A", "", <<"x", "f">>, <<<<"n", Num(1)>>>>, <<<<"init", <<"x">>, <<Set(Dot(V("self"), "x"), V("x"))>>>>, <<"get", <<>>,
      <<Give(Dot(V("self"), "x"))>>>>, <<"twice", <<>>, <<Give(Bin("+", FunCall(Dot(V("self"), "get"), <<>>), FunCall(Dot(V("self"),
      "get"), <<>>)))>>>>>>),
    Class("B", "A", <<"y">>, <<<<"m", Num(20)>>>>, <<<<"init", <<"x", "y">>, <<Set(Dot(V("self"), "x"), V("x")), Set(Dot(V("self"),
      "y"), V("y"))>>>>, <<"get", <<>>, <<Give(Bin("+", Dot(V("self"), "x"), Dot(V("self"), "y")))>>>>>>),
    Class("C", "B", <<>>, <<>>, <<>>),
    Var("a", FunCall(V("A"), <<Num(1)>>)),
    Var("b", FunCall(V("B"), <<Num(2), Num(3)>>)),
    Var("c", FunCall(V("C"), <<Num(4), Num(5)>>)),
    Set(Dot(V("c"), "f"), Lam(<<"k">>, Bin("+", V("k"), Num(1)))),
    Log(FunCall(Dot(V("a"), "twice"), <<>>)),
    Log(FunCall(Dot(V("b"), "twice"), <<>>)),
    Log(FunCall(Dot(V("c"), "twice"), <<>>)),
    Log(FunCall(Dot(V("c"), "f"), <<Num(7)>>)),
    Log(Dot(V("a"), "f")),
    Upd("+=", Dot(V("B"), "m"), Num(1)),
    Log(Dot(V("B"), "m")),
    Log(Bin("+", Dot(V("C"), "m"), Dot(V("A"), "n"))),
    Set(Dot(V("c"), "y"), Num(50)),
    Log(FunCall(Dot(V("c"), "get"), <<>>)),
    Try(<<Set(Dot(V("a"), "y"), Num(1))>>, <<<<<<Str("attribute_error")>>, <<>>, <<Log(Str("no y"))>>>>>>)>>

\* The methods of a class inside a function share its variables:
\*   def mk(n) class D def get() n += 1; return n end end; def cur() return n end; return [D, cur] end
\*   var d = mk(4); var o = d[0](); log(o.get()); log(d[0]().get()); log(d[1]());
ClassInside ==
  <<Def("mk", <<"n">>, <<Class("D", "", <<>>, <<>>, <<<<"get", <<>>, <<Upd("+=", V("n"), Num(1)), Give(V("n"))>>>>>>), Def("cur",
      <<>>, <<Give(V("n"))>>), Give(ListOf(<<V("D"), V("cur")>>))>>),
    Var("d", FunCall(V("mk"), <<Num(4)>>)),
    Var("o", FunCall(At(V("d"), Num(0)), <<>>)),
    Log(FunCall(Dot(V("o"), "get"), <<>>)),
    Log(FunCall(Dot(FunCall(At(V("d"), Num(0)), <<>>), "get"), <<>>)),
    Log(FunCall(At(V("d"), Num(1)), <<>>))>>

\* The list methods:
\*   var l = [1, 2]; l.push(3); l.insert(1, 9); log(l.size()); log(l.pop()); log(l[-1]); l[0] = 7; l.remove(1); log(l[0] + l[1]);
\*   l.insert(-1, 5); log(l[1]); l.insert(9, 0); l.remove(9); log(l.size()); log(l.pop(0)); l.reverse();
\*   for x : l + [4, 6]; log(x); end; l .. 8; log(l.size()); l.clear(); log(l.size());
\*   try log(l[0]); except "index_error"; log("index"); end;
\*   try l[3] = 1; except "index_error"; log("store"); end; try l.pop(); except "index_error"; log("pop"); end
Lists ==
  <<Var("l", ListOf(<<Num(1), Num(2)>>)),
    Eval(FunCall(Dot(V("l"), "push"), <<Num(3)>>)),
    Eval(FunCall(Dot(V("l"), "insert"), <<Num(1), Num(9)>>)),
    Log(FunCall(Dot(V("l"), "size"), <<>>)),
    Log(FunCall(Dot(V("l"), "pop"), <<>>)),
    Log(At(V("l"), Un("-", Num(1)))),
    Set(At(V("l"), Num(0)), Num(7)),
    Eval(FunCall(Dot(V("l"), "remove"), <<Num(1)>>)),
    Log(Bin("+", At(V("l"), Num(0)), At(V("l"), Num(1)))),
    Eval(FunCall(Dot(V("l"), "insert"), <<Un("-", Num(1)), Num(5)>>)),
    Log(At(V("l"), Num(1))),
    Eval(FunCall(Dot(V("l"), "insert"), <<Num(9), Num(0)>>)),
    Eval(FunCall(Dot(V("l"), "remove"), <<Num(9)>>)),
    Log(FunCall(Dot(V("l"), "size"), <<>>)),
    Log(FunCall(Dot(V("l"), "pop"), <<Num(0)>>)),
    Eval(FunCall(Dot(V("l"), "reverse"), <<>>)),
    ForIn("x", Bin("+", V("l"), ListOf(<<Num(4), Num(6)>>)), <<Log(V("x"))>>),
    Eval(Bin("..", V("l"), Num(8))),
    Log(FunCall(Dot(V("l"), "size"), <<>>)),
    Eval(FunCall(Dot(V("l"), "clear"), <<>>)),
    Log(FunCall(Dot(V("l"), "size"), <<>>)),
    Try(<<Log(At(V("l"), Num(0)))>>, <<<<<<Str("index_error")>>, <<>>, <<Log(Str("index"))>>>>>>),
    Try(<<Set(At(V("l"), Num(3)), Num(1))>>, <<<<<<Str("index_error")>>, <<>>, <<Log(Str("store"))>>>>>>),
    Try(<<Eval(FunCall(Dot(V("l"), "pop"), <<>>))>>, <<<<<<Str("index_error")>>, <<>>, <<Log(Str("pop"))>>>>>>)>>

\* The map methods:
\*   var m = {1: 10, 3: 30, 5: 50}; m[1] += 1; log(m[1]); log(m.contains(3)); log(m.insert(3, 31)); log(m.insert(7, 70)); m.remove(1);
\*   log(m.find(1)); log(m.find(1, 2)); log(m.size()); var s = 0; for v : m; s += v; end; log(s); for k : m.keys(); s += k; end; log(s);
\*   try log(m["a"]); except "key_error", "index_error" as e; log(e); end; log([{}, m][1][7])
Maps ==
  <<Var("m", MapOf(<<<<Num(1), Num(10)>>, <<Num(3), Num(30)>>, <<Num(5), Num(50)>>>>)),
    Upd("+=", At(V("m"), Num(1)), Num(1)),
    Log(At(V("m"), Num(1))),
    Log(FunCall(Dot(V("m"), "contains"), <<Num(3)>>)),
    Log(FunCall(Dot(V("m"), "insert"), <<Num(3), Num(31)>>)),
    Log(FunCall(Dot(V("m"), "insert"), <<Num(7), Num(70)>>)),
    Eval(FunCall(Dot(V("m"), "remove"), <<Num(1)>>)),
    Log(FunCall(Dot(V("m"), "find"), <<Num(1)>>)),
    Log(FunCall(Dot(V("m"), "find"), <<Num(1), Num(2)>>)),
    Log(FunCall(Dot(V("m"), "size"), <<>>)),
    Var("s", Num(0)),
    ForIn("v", V("m"), <<Upd("+=", V("s"), V("v"))>>),
    Log(V("s")),
    ForIn("k", FunCall(Dot(V("m"), "keys"), <<>>), <<Upd("+=", V("s"), V("k"))>>),
    Log(V("s")),
    Try(<<Log(At(V("m"), Str("a")))>>, <<<<<<Str("key_error"), Str("index_error")>>, <<"e">>, <<Log(V("e"))>>>>>>),
    Log(At(At(ListOf(<<MapOf(<<>>), V("m")>>), Num(1)), Num(7)))>>

\* A script that keeps state between the calls of the host:
\*   var n = 0; var seen = []; def setup() n = 10; seen.push(n); end
\*   def loop() n += 1; seen.push(n); if seen.size() == 3; raise "full", n; end; log(seen[-1]); end
\*   log(n)
KeepsState ==
  <<Var("n", Num(0)),
    Var("seen", ListOf(<<>>)),
    Def("setup", <<>>, <<Set(V("n"), Num(10)), Eval(FunCall(Dot(V("seen"), "push"), <<V("n")>>))>>),
    Def("loop", <<>>, <<Upd("+=", V("n"), Num(1)), Eval(FunCall(Dot(V("seen"), "push"), <<V("n")>>)), If(<<<<Bin("==",
      FunCall(Dot(V("seen"), "size"), <<>>), Num(3)), <<Throwing(<<Str("full"), V("n")>>)>>>>>>, <<>>), Log(At(V("seen"), Un("-",
      Num(1))))>>),
    Log(V("n"))>>

\* A script with one entry, called again after it failed:
\*   var n = 1; def loop() try n = n * 2; if n == 2; [].pop(); end; except "key_error"; log(0); end; log(n); end
NoSetup ==
  <<Var("n", Num(1)),
    Def("loop", <<>>, <<Try(<<Set(V("n"), Bin("*", V("n"), Num(2))), If(<<<<Bin("==", V("n"), Num(2)),
      <<Eval(FunCall(Dot(ListOf(<<>>), "pop"), <<>>))>>>>>>, <<>>)>>, <<<<<<Str("key_error")>>, <<>>, <<Log(Num(0))>>>>>>),
      Log(V("n"))>>)>>

\* A top level that fails:
\*   def setup() log(1); end; log(2); var x = nil; log(3); x.y = 4; log(5)
Fails ==
  <<Def("setup", <<>>, <<Log(Num(1))>>),
    Log(Num(2)),
    Var("x", Nil),
    Log(Num(3)),
    Set(Dot(V("x"), "y"), Num(4)),
    Log(Num(5))>>

\* Recursion, conditional expressions and short-circuit operators:
\*   def fib(n) return n < 2 ? n : fib(n - 1) + fib(n - 2) end
\*   def t(x, r) log(x); return r end
\*   log(fib(4)); log(t(1, true) && t(2, false) || t(3, true)); log(!(t(4, nil) || t(5, 0)));
\*   if t(6, false) && t(7, true) || !t(8, false); log(9); elif true; log(10); else log(11); end;
\*   var x = t(12, 1) ? t(13, 2) : t(14, 3); log(x + (x > 1 ? 100 : 200))
Recursion ==
  <<Def("fib", <<"n">>, <<Give(Cond(Bin("<", V("n"), Num(2)), V("n"), Bin("+", FunCall(V("fib"), <<Bin("-", V("n"), Num(1))>>),
      FunCall(V("fib"), <<Bin("-", V("n"), Num(2))>>))))>>),
    Def("t", <<"x", "r">>, <<Log(V("x")), Give(V("r"))>>),
    Log(FunCall(V("fib"), <<Num(4)>>)),
    Log(Bin("||", Bin("&&", FunCall(V("t"), <<Num(1), Bool(TRUE)>>), FunCall(V("t"), <<Num(2), Bool(FALSE)>>)), FunCall(V("t"),
      <<Num(3), Bool(TRUE)>>))),
    Log(Un("!", Bin("||", FunCall(V("t"), <<Num(4), Nil>>), FunCall(V("t"), <<Num(5), Num(0)>>)))),
    If(<<<<Bin("||", Bin("&&", FunCall(V("t"), <<Num(6), Bool(FALSE)>>), FunCall(V("t"), <<Num(7), Bool(TRUE)>>)), Un("!",
      FunCall(V("t"), <<Num(8), Bool(FALSE)>>))), <<Log(Num(9))>>>>, <<Bool(TRUE), <<Log(Num(10))>>>>>>, <<Log(Num(11))>>),
    Var("x", Cond(FunCall(V("t"), <<Num(12), Num(1)>>), FunCall(V("t"), <<Num(13), Num(2)>>), FunCall(V("t"), <<Num(14), Num(3)>>))),
    Log(Bin("+", V("x"), Cond(Bin(">", V("x"), Num(1)), Num(100), Num(200))))>>

\* Missing and extra arguments, calls inside calls, many temporaries:
\*   def f(a, b, c) return b == nil ? a : c == nil ? a * 10 + b : a * 100 + b * 10 + c end
\*   log(f(1)); log(f(1, 2)); log(f(1, 2, 3, 4)); log(f(f(1), f(2, 3) - f(0, 4), f(f(5)) % 2));
\*   def g() var a = 1; var b = a + 1; do var b = 5; a += b; end; if a == 6; var c = b * a; a = c - b; end; return [a, b, a - b * -(2 + a) / 3]
\*       end
\*   for x : g(); log(x); end; log("a" + "b" .. "c")
Arguments ==
  <<Def("f", <<"a", "b", "c">>, <<Give(Cond(Bin("==", V("b"), Nil), V("a"), Cond(Bin("==", V("c"), Nil), Bin("+", Bin("*", V("a"),
      Num(10)), V("b")), Bin("+", Bin("+", Bin("*", V("a"), Num(100)), Bin("*", V("b"), Num(10))), V("c")))))>>),
    Log(FunCall(V("f"), <<Num(1)>>)),
    Log(FunCall(V("f"), <<Num(1), Num(2)>>)),
    Log(FunCall(V("f"), <<Num(1), Num(2), Num(3), Num(4)>>)),
    Log(FunCall(V("f"), <<FunCall(V("f"), <<Num(1)>>), Bin("-", FunCall(V("f"), <<Num(2), Num(3)>>), FunCall(V("f"), <<Num(0),
      Num(4)>>)), Bin("%", FunCall(V("f"), <<FunCall(V("f"), <<Num(5)>>)>>), Num(2))>>)),
    Def("g", <<>>, <<Var("a", Num(1)), Var("b", Bin("+", V("a"), Num(1))), Begin(<<Var("b", Num(5)), Upd("+=", V("a"), V("b"))>>),
      If(<<<<Bin("==", V("a"), Num(6)), <<Var("c", Bin("*", V("b"), V("a"))), Set(V("a"), Bin("-", V("c"), V("b")))>>>>>>, <<>>),
      Give(ListOf(<<V("a"), V("b"), Bin("-", V("a"), Bin("/", Bin("*", V("b"), Un("-", Bin("+", Num(2), V("a")))), Num(3)))>>))>>),
    ForIn("x", FunCall(V("g"), <<>>), <<Log(V("x"))>>),
    Log(Bin("..", Bin("+", Str("a"), Str("b")), Str("c")))>>

\* A function and an instance as the iterator of a loop:
\*   class R var n; def init(n) self.n = n; end; def iter() var i = self.n; return def () if i == 0; raise "stop_iteration"; end; i -= 1; return
\*       i end end end
\*   for x : R(2); log(x); end; var k = 0;
\*   try for x : def () k += 1; if k > 2; raise "mine", k; end; return k end; log(x); end; except "mine" as e, v; log(v); end
Iterators ==
  <<Class("R", "", <<"n">>, <<>>, <<<<"init", <<"n">>, <<Set(Dot(V("self"), "n"), V("n"))>>>>, <<"iter", <<>>, <<Var("i",
      Dot(V("self"), "n")), Give(Fn(<<>>, <<If(<<<<Bin("==", V("i"), Num(0)), <<Throwing(<<Str("stop_iteration")>>)>>>>>>, <<>>),
      Upd("-=", V("i"), Num(1)), Give(V("i"))>>))>>>>>>),
    ForIn("x", FunCall(V("R"), <<Num(2)>>), <<Log(V("x"))>>),
    Var("k", Num(0)),
    Try(<<ForIn("x", Fn(<<>>, <<Upd("+=", V("k"), Num(1)), If(<<<<Bin(">", V("k"), Num(2)), <<Throwing(<<Str("mine"), V("k")>>)>>>>>>,
      <<>>), Give(V("k"))>>), <<Log(V("x"))>>)>>, <<<<<<Str("mine")>>, <<"e", "v">>, <<Log(V("v"))>>>>>>)>>

\* What the machine itself raises:
\*   def t(f) try f(); log("none"); except .. as e; log(e); end; end
\*   t(def () return nil + 1 end); t(def () return 1 / 0 end); t(def () return nil() end); t(def () return 5[0] end);
\*   class Q def tobool() return 1 end end; t(def () if Q(); log(1); end; end);
\*   t(def () return Q() + 1 end); t(def () return Q().x end); t(def () return Q().z() end); t(def () var z = nil; return -z end);
\*   t(def () return Q() < 1 end); t(def () return 1 < nil end); t(def () var q = 1; q[0] = 2; end); t(def () return 1 .. nil end); t(def ()
\*       class Z : t end; end)
Errors ==
  <<Def("t", <<"f">>, <<Try(<<Eval(FunCall(V("f"), <<>>)), Log(Str("none"))>>, <<<<<<>>, <<"e">>, <<Log(V("e"))>>>>>>)>>),
    Eval(FunCall(V("t"), <<Fn(<<>>, <<Give(Bin("+", Nil, Num(1)))>>)>>)),
    Eval(FunCall(V("t"), <<Fn(<<>>, <<Give(Bin("/", Num(1), Num(0)))>>)>>)),
    Eval(FunCall(V("t"), <<Fn(<<>>, <<Give(FunCall(Nil, <<>>))>>)>>)),
    Eval(FunCall(V("t"), <<Fn(<<>>, <<Give(At(Num(5), Num(0)))>>)>>)),
    Class("Q", "", <<>>, <<>>, <<<<"tobool", <<>>, <<Give(Num(1))>>>>>>),
    Eval(FunCall(V("t"), <<Fn(<<>>, <<If(<<<<FunCall(V("Q"), <<>>), <<Log(Num(1))>>>>>>, <<>>)>>)>>)),
    Eval(FunCall(V("t"), <<Fn(<<>>, <<Give(Bin("+", FunCall(V("Q"), <<>>), Num(1)))>>)>>)),
    Eval(FunCall(V("t"), <<Fn(<<>>, <<Give(Dot(FunCall(V("Q"), <<>>), "x"))>>)>>)),
    Eval(FunCall(V("t"), <<Fn(<<>>, <<Give(FunCall(Dot(FunCall(V("Q"), <<>>), "z"), <<>>))>>)>>)),
    Eval(FunCall(V("t"), <<Fn(<<>>, <<Var("z", Nil), Give(Un("-", V("z")))>>)>>)),
    Eval(FunCall(V("t"), <<Fn(<<>>, <<Give(Bin("<", FunCall(V("Q"), <<>>), Num(1)))>>)>>)),
    Eval(FunCall(V("t"), <<Fn(<<>>, <<Give(Bin("<", Num(1), Nil))>>)>>)),
    Eval(FunCall(V("t"), <<Fn(<<>>, <<Var("q", Num(1)), Set(At(V("q"), Num(0)), Num(2))>>)>>)),
    Eval(FunCall(V("t"), <<Fn(<<>>, <<Give(Bin("..", Num(1), Nil))>>)>>)),
    Eval(FunCall(V("t"), <<Fn(<<>>, <<Class("Z", "t", <<>>, <<>>, <<>>)>>)>>))>>

\* Only what is still reachable survives:
\*   class N var v, nxt; def init(v, n) self.v = v; self.nxt = n; end; def sum() return self.v + (self.nxt == nil ? 0 : self.nxt.sum()) end end
\*   class M : N def both(o) return [self.sum(), o.sum(), "s" + "t"] end end
\*   def build(n) var l = nil; for i : 1 .. n; l = M(i, l); end; return l end
\*   var a = build(3); var m = {1: build(2)}; a.nxt.nxt = m[1]; m.remove(1);
\*   for x : a.both(build(1)); log(x); end;
\*   def keep() var box = [1]; return def (x) box.push([x, box]); return box end end
\*   var k = keep(); var j = [0]; k(2); j = {}; k(3); log(k(4)[2][1][1][0]); log(k(5).size());
Garbage ==
  <<Class("N", "", <<"v", "nxt">>, <<>>, <<<<"init", <<"v", "n">>, <<Set(Dot(V("self"), "v"), V("v")), Set(Dot(V("self"), "nxt"),
      V("n"))>>>>, <<"sum", <<>>, <<Give(Bin("+", Dot(V("self"), "v"), Cond(Bin("==", Dot(V("self"), "nxt"), Nil), Num(0),
      FunCall(Dot(Dot(V("self"), "nxt"), "sum"), <<>>))))>>>>>>),
    Class("M", "N", <<>>, <<>>, <<<<"both", <<"o">>, <<Give(ListOf(<<FunCall(Dot(V("self"), "sum"), <<>>), FunCall(Dot(V("o"), "sum"),
      <<>>), Bin("+", Str("s"), Str("t"))>>))>>>>>>),
    Def("build", <<"n">>, <<Var("l", Nil), ForIn("i", Bin("..", Num(1), V("n")), <<Set(V("l"), FunCall(V("M"), <<V("i"),
      V("l")>>))>>), Give(V("l"))>>),
    Var("a", FunCall(V("build"), <<Num(3)>>)),
    Var("m", MapOf(<<<<Num(1), FunCall(V("build"), <<Num(2)>>)>>>>)),
    Set(Dot(Dot(V("a"), "nxt"), "nxt"), At(V("m"), Num(1))),
    Eval(FunCall(Dot(V("m"), "remove"), <<Num(1)>>)),
    ForIn("x", FunCall(Dot(V("a"), "both"), <<FunCall(V("build"), <<Num(1)>>)>>), <<Log(V("x"))>>),
    Def("keep", <<>>, <<Var("box", ListOf(<<Num(1)>>)), Give(Fn(<<"x">>, <<Eval(FunCall(Dot(V("box"), "push"), <<ListOf(<<V("x"),
      V("box")>>)>>)), Give(V("box"))>>))>>),
    Var("k", FunCall(V("keep"), <<>>)),
    Var("j", ListOf(<<Num(0)>>)),
    Eval(FunCall(V("k"), <<Num(2)>>)),
    Set(V("j"), MapOf(<<>>)),
    Eval(FunCall(V("k"), <<Num(3)>>)),
    Log(At(At(At(At(FunCall(V("k"), <<Num(4)>>), Num(2)), Num(1)), Num(1)), Num(0))),
    Log(FunCall(Dot(FunCall(V("k"), <<Num(5)>>), "size"), <<>>))>>

\* Except values that are computed, an exception in flight while handlers run:
\*   var names = {1: "one", 2: "two"}; def nm(i) return names[i] end
\*   def f(i) try raise i; except 1, 2 as e; return nm(e); except 3; try raise "in"; except "in" as e; return e; end; except nil, "q"; return 0;
\*       end; end
\*   log(f(1)); log(f(2)); log(f(3)); log(f("q")); try f(5); except 4, 5 as e, v; log(e); log(v); end
Handlers ==
  <<Var("names", MapOf(<<<<Num(1), Str("one")>>, <<Num(2), Str("two")>>>>)),
    Def("nm", <<"i">>, <<Give(At(V("names"), V("i")))>>),
    Def("f", <<"i">>, <<Try(<<Throwing(<<V("i")>>)>>, <<<<<<Num(1), Num(2)>>, <<"e">>, <<Give(FunCall(V("nm"), <<V("e")>>))>>>>,
      <<<<Num(3)>>, <<>>, <<Try(<<Throwing(<<Str("in")>>)>>, <<<<<<Str("in")>>, <<"e">>, <<Give(V("e"))>>>>>>)>>>>, <<<<Nil,
      Str("q")>>, <<>>, <<Give(Num(0))>>>>>>)>>),
    Log(FunCall(V("f"), <<Num(1)>>)),
    Log(FunCall(V("f"), <<Num(2)>>)),
    Log(FunCall(V("f"), <<Num(3)>>)),
    Log(FunCall(V("f"), <<Str("q")>>)),
    Try(<<Eval(FunCall(V("f"), <<Num(5)>>))>>, <<<<<<Num(4), Num(5)>>, <<"e", "v">>, <<Log(V("e")), Log(V("v"))>>>>>>)>>

\* The bitwise operators, and those of an instance:
\*   var a = 12; log(a & 10); log(a | 3); log(a ^ 5); log(1 << 3 | 1); log(a >> 2 & 1); log(~a); a |= 1; a <<= 2; log(a); a &= 7; log(~5 + a);
\*       log(a & 6 == 4);
\*   class B var v; def init(v) self.v = v; end; def &(o) return self.v * o end; def ~() return -self.v end end
\*   var b = B(6); log(b & 3); log(~b); var s = "s"; def t(f) try f(); log("none"); except .. as e; log(e); end; end
\*   t(def () return 1 & nil end); t(def () return ~s end); t(def () return b | 1 end); t(def () return ~[] end); t(def () return [] >> 1 end);
\*       t(def () return s ^ 1 end)
BitOperators ==
  <<Var("a", Num(12)),
    Log(Bin("&", V("a"), Num(10))),
    Log(Bin("|", V("a"), Num(3))),
    Log(Bin("^", V("a"), Num(5))),
    Log(Bin("|", Bin("<<", Num(1), Num(3)), Num(1))),
    Log(Bin("&", Bin(">>", V("a"), Num(2)), Num(1))),
    Log(Un("~", V("a"))),
    Upd("|=", V("a"), Num(1)),
    Upd("<<=", V("a"), Num(2)),
    Log(V("a")),
    Upd("&=", V("a"), Num(7)),
    Log(Bin("+", Un("~", Num(5)), V("a"))),
    Log(Bin("==", Bin("&", V("a"), Num(6)), Num(4))),
    Class("B", "", <<"v">>, <<>>, <<<<"init", <<"v">>, <<Set(Dot(V("self"), "v"), V("v"))>>>>, <<"&", <<"o">>, <<Give(Bin("*",
      Dot(V("self"), "v"), V("o")))>>>>, <<"~", <<>>, <<Give(Un("-", Dot(V("self"), "v")))>>>>>>),
    Var("b", FunCall(V("B"), <<Num(6)>>)),
    Log(Bin("&", V("b"), Num(3))),
    Log(Un("~", V("b"))),
    Var("s", Str("s")),
    Def("t", <<"f">>, <<Try(<<Eval(FunCall(V("f"), <<>>)), Log(Str("none"))>>, <<<<<<>>, <<"e">>, <<Log(V("e"))>>>>>>)>>),
    Eval(FunCall(V("t"), <<Fn(<<>>, <<Give(Bin("&", Num(1), Nil))>>)>>)),
    Eval(FunCall(V("t"), <<Fn(<<>>, <<Give(Un("~", V("s")))>>)>>)),
    Eval(FunCall(V("t"), <<Fn(<<>>, <<Give(Bin("|", V("b"), Num(1)))>>)>>)),
    Eval(FunCall(V("t"), <<Fn(<<>>, <<Give(Un("~", ListOf(<<>>)))>>)>>)),
    Eval(FunCall(V("t"), <<Fn(<<>>, <<Give(Bin(">>", ListOf(<<>>), Num(1)))>>)>>)),
    Eval(FunCall(V("t"), <<Fn(<<>>, <<Give(Bin("^", V("s"), Num(1)))>>)>>))>>

\* Lists by a range and by a list, their equality, and ranges:
\*   var l = [4, 5, 6, 7]; def show(x) for i : x; log(i); end; end; show(l[1 .. 2]); show(l[-2 .. -1]); show(l[2 .. 9]); show(l[-9 .. 0]);
\*       show(l[[3, 0, -1, "a"]]);
\*   show(l[3 .. 1]); log(l.find(6)); log(l.find(1)); show(l.keys()); var c = l.copy(); c[0] = [1]; log(l[0]); log(c == l); c[0] = 4; log(c ==
\*       l); log(c != l);
\*   log([[1], 2] == [[1], 2]); log([[1]] != [[2]]); log([] == 5); log([[1], [2]].find([2])); log([1] == nil); try l["a"] + 1; except
\*       "index_error" as e; log(e); end;
\*   var r = 1 .. 3; log(r.lower() + r.upper()); for i : r; r.setrange(5, 6); log(i); end; show(r); show(range(2, 3)); show(l[[0, 1]] + l[r]);
\*       log(r == 5 .. 6)
Slices ==
  <<Var("l", ListOf(<<Num(4), Num(5), Num(6), Num(7)>>)),
    Def("show", <<"x">>, <<ForIn("i", V("x"), <<Log(V("i"))>>)>>),
    Eval(FunCall(V("show"), <<At(V("l"), Bin("..", Num(1), Num(2)))>>)),
    Eval(FunCall(V("show"), <<At(V("l"), Bin("..", Un("-", Num(2)), Un("-", Num(1))))>>)),
    Eval(FunCall(V("show"), <<At(V("l"), Bin("..", Num(2), Num(9)))>>)),
    Eval(FunCall(V("show"), <<At(V("l"), Bin("..", Un("-", Num(9)), Num(0)))>>)),
    Eval(FunCall(V("show"), <<At(V("l"), ListOf(<<Num(3), Num(0), Un("-", Num(1)), Str("a")>>))>>)),
    Eval(FunCall(V("show"), <<At(V("l"), Bin("..", Num(3), Num(1)))>>)),
    Log(FunCall(Dot(V("l"), "find"), <<Num(6)>>)),
    Log(FunCall(Dot(V("l"), "find"), <<Num(1)>>)),
    Eval(FunCall(V("show"), <<FunCall(Dot(V("l"), "keys"), <<>>)>>)),
    Var("c", FunCall(Dot(V("l"), "copy"), <<>>)),
    Set(At(V("c"), Num(0)), ListOf(<<Num(1)>>)),
    Log(At(V("l"), Num(0))),
    Log(Bin("==", V("c"), V("l"))),
    Set(At(V("c"), Num(0)), Num(4)),
    Log(Bin("==", V("c"), V("l"))),
    Log(Bin("!=", V("c"), V("l"))),
    Log(Bin("==", ListOf(<<ListOf(<<Num(1)>>), Num(2)>>), ListOf(<<ListOf(<<Num(1)>>), Num(2)>>))),
    Log(Bin("!=", ListOf(<<ListOf(<<Num(1)>>)>>), ListOf(<<ListOf(<<Num(2)>>)>>))),
    Log(Bin("==", ListOf(<<>>), Num(5))),
    Log(FunCall(Dot(ListOf(<<ListOf(<<Num(1)>>), ListOf(<<Num(2)>>)>>), "find"), <<ListOf(<<Num(2)>>)>>)),
    Log(Bin("==", ListOf(<<Num(1)>>), Nil)),
    Try(<<Eval(Bin("+", At(V("l"), Str("a")), Num(1)))>>, <<<<<<Str("index_error")>>, <<"e">>, <<Log(V("e"))>>>>>>),
    Var("r", Bin("..", Num(1), Num(3))),
    Log(Bin("+", FunCall(Dot(V("r"), "lower"), <<>>), FunCall(Dot(V("r"), "upper"), <<>>))),
    ForIn("i", V("r"), <<Eval(FunCall(Dot(V("r"), "setrange"), <<Num(5), Num(6)>>)), Log(V("i"))>>),
    Eval(FunCall(V("show"), <<V("r")>>)),
    Eval(FunCall(V("show"), <<FunCall(V("range"), <<Num(2), Num(3)>>)>>)),
    Eval(FunCall(V("show"), <<Bin("+", At(V("l"), ListOf(<<Num(0), Num(1)>>)), At(V("l"), V("r")))>>)),
    Log(Bin("==", V("r"), Bin("..", Num(5), Num(6))))>>

\* Super and the functions about classes:
\*   class A var v; def init(v) self.v = v; end; def f(x) return self.v + x end; def who() return "A" end end
\*   class B : A var w; def init(v) super(self).init(v); self.w = v * 2; end; def f(x) return super(self).f(x) * 10 end; def who() return "B" +
\*       super(self).who() end end
\*   class C : B def f(x) return super(self).f(x) + self.w end; def who() var g = def () return super(self).who() end; return "C" + g() end; def
\*       deep() return super(self, A).f(1) end end
\*   var c = C(3); log(c.f(1)); log(c.who()); log(c.deep()); log(super(c).who()); log(super(super(c)).who()); log(super(A)); log(super(C) == B);
\*   log(isinstance(c, A)); log(isinstance(A(1), B)); log(issubclass(C, A)); log(issubclass(A, c)); log(isinstance([], list)); log(issubclass(c,
\*       A)); log(classof(c) == C);
\*   log(type(c)); log(type(C)); log(type(log) + type(nil)); log(type("a")); log(type(1) + type(true)); log(type([]) + type(map));
\*       log(size("abc")); log(size([1, 2])); log(size(5)); log(classof(4));
\*   super(c).v = 9; log(c.v); log(super(A(1))); log(super(5)); log(super(c).w); log(super(c, nil).v); try super(c, 1); except .. as e; log(e);
\*       end; log(super(c, C)); class S def size() return 8 end end; log(size(S()))
SuperObjects ==
  <<Class("A", "", <<"v">>, <<>>, <<<<"init", <<"v">>, <<Set(Dot(V("self"), "v"), V("v"))>>>>, <<"f", <<"x">>, <<Give(Bin("+",
      Dot(V("self"), "v"), V("x")))>>>>, <<"who", <<>>, <<Give(Str("A"))>>>>>>),
    Class("B", "A", <<"w">>, <<>>, <<<<"init", <<"v">>, <<Eval(FunCall(Dot(FunCall(V("super"), <<V("self")>>), "init"), <<V("v")>>)),
      Set(Dot(V("self"), "w"), Bin("*", V("v"), Num(2)))>>>>, <<"f", <<"x">>, <<Give(Bin("*", FunCall(Dot(FunCall(V("super"),
      <<V("self")>>), "f"), <<V("x")>>), Num(10)))>>>>, <<"who", <<>>, <<Give(Bin("+", Str("B"), FunCall(Dot(FunCall(V("super"),
      <<V("self")>>), "who"), <<>>)))>>>>>>),
    Class("C", "B", <<>>, <<>>, <<<<"f", <<"x">>, <<Give(Bin("+", FunCall(Dot(FunCall(V("super"), <<V("self")>>), "f"), <<V("x")>>),
      Dot(V("self"), "w")))>>>>, <<"who", <<>>, <<Var("g", Fn(<<>>, <<Give(FunCall(Dot(FunCall(V("super"), <<V("self")>>), "who"),
      <<>>))>>)), Give(Bin("+", Str("C"), FunCall(V("g"), <<>>)))>>>>, <<"deep", <<>>, <<Give(FunCall(Dot(FunCall(V("super"),
      <<V("self"), V("A")>>), "f"), <<Num(1)>>))>>>>>>),
    Var("c", FunCall(V("C"), <<Num(3)>>)),
    Log(FunCall(Dot(V("c"), "f"), <<Num(1)>>)),
    Log(FunCall(Dot(V("c"), "who"), <<>>)),
    Log(FunCall(Dot(V("c"), "deep"), <<>>)),
    Log(FunCall(Dot(FunCall(V("super"), <<V("c")>>), "who"), <<>>)),
    Log(FunCall(Dot(FunCall(V("super"), <<FunCall(V("super"), <<V("c")>>)>>), "who"), <<>>)),
    Log(FunCall(V("super"), <<V("A")>>)),
    Log(Bin("==", FunCall(V("super"), <<V("C")>>), V("B"))),
    Log(FunCall(V("isinstance"), <<V("c"), V("A")>>)),
    Log(FunCall(V("isinstance"), <<FunCall(V("A"), <<Num(1)>>), V("B")>>)),
    Log(FunCall(V("issubclass"), <<V("C"), V("A")>>)),
    Log(FunCall(V("issubclass"), <<V("A"), V("c")>>)),
    Log(FunCall(V("isinstance"), <<ListOf(<<>>), V("list")>>)),
    Log(FunCall(V("issubclass"), <<V("c"), V("A")>>)),
    Log(Bin("==", FunCall(V("classof"), <<V("c")>>), V("C"))),
    Log(FunCall(V("type"), <<V("c")>>)),
    Log(FunCall(V("type"), <<V("C")>>)),
    Log(Bin("+", FunCall(V("type"), <<V("log")>>), FunCall(V("type"), <<Nil>>))),
    Log(FunCall(V("type"), <<Str("a")>>)),
    Log(Bin("+", FunCall(V("type"), <<Num(1)>>), FunCall(V("type"), <<Bool(TRUE)>>))),
    Log(Bin("+", FunCall(V("type"), <<ListOf(<<>>)>>), FunCall(V("type"), <<V("map")>>))),
    Log(FunCall(V("size"), <<Str("abc")>>)),
    Log(FunCall(V("size"), <<ListOf(<<Num(1), Num(2)>>)>>)),
    Log(FunCall(V("size"), <<Num(5)>>)),
    Log(FunCall(V("classof"), <<Num(4)>>)),
    Set(Dot(FunCall(V("super"), <<V("c")>>), "v"), Num(9)),
    Log(Dot(V("c"), "v")),
    Log(FunCall(V("super"), <<FunCall(V("A"), <<Num(1)>>)>>)),
    Log(FunCall(V("super"), <<Num(5)>>)),
    Log(Dot(FunCall(V("super"), <<V("c")>>), "w")),
    Log(Dot(FunCall(V("super"), <<V("c"), Nil>>), "v")),
    Try(<<Eval(FunCall(V("super"), <<V("c"), Num(1)>>))>>, <<<<<<>>, <<"e">>, <<Log(V("e"))>>>>>>),
    Log(FunCall(V("super"), <<V("c"), V("C")>>)),
    Class("S", "", <<>>, <<>>, <<<<"size", <<>>, <<Give(Num(8))>>>>>>),
    Log(FunCall(V("size"), <<FunCall(V("S"), <<>>)>>))>>

-----------------------------------------------------------------------------
\* Expressions: operators op1 and op2 nested either way over a parameter, a
\* captured variable u, a global g, an element, a call, a constant and the
\* variable c that is assigned; each is passed to a call and assigned to c.

Left == <<V("a"), FunCall(V("f"), <<V("b")>>), Num(3), Un("-", V("a"))>>
Right(op) == <<V("u"), V("g"), At(V("l"), Num(0)), IF op \in {"&&", "||"} THEN Num(0) ELSE V("c")>>

Pick(seq, i) == seq[1 + (i % Len(seq))]
LeftNested(op1, op2) ==
  [i \in 1 .. 6 |-> Bin(op1, Bin(op2, Pick(Left, i), Pick(Right(op2), i \div 4)), Pick(Right(op1), i + i \div 4))]
RightNested(op1, op2) ==
  [i \in 1 .. 6 |-> Bin(op1, Pick(Left, i), Bin(op2, Pick(Right(op2), i \div 4), Pick(Right(op2), i + i \div 4)))]

Expressions(es) ==
  LET Guarded(s) == Try(<<s>>, <<<<<<>>, <<"e">>, <<Log(V("e"))>>>>>>)
      Used(e) == <<Guarded(Log(Un("!", e))), Guarded(Set(V("c"), e)), Guarded(Log(V("c"))), Set(V("c"), Num(4))>>
  IN  <<Var("g", Num(5)), Def("f", <<"x">>, <<Give(Bin("+", V("x"), Num(1)))>>),
        Def("outer", <<"u">>,
          <<Give(Fn(<<"a", "b">>, <<Var("c", Num(4)), Var("l", ListOf(<<Num(6)>>))>>
                                  \o FlattenSeq([i \in DOMAIN es |-> Used(es[i])])))>>),
        Eval(FunCall(FunCall(V("outer"), <<Num(2)>>), <<Num(8), Num(9)>>))>>

Operators == <<"-", "*", "<", "==", "&&", "..">>
OperatorPairs == [n \in 1 .. 36 |-> <<Operators[1 + (n - 1) \div 6], Operators[1 + ((n - 1) % 6)]>>]

MCPrograms ==
  <<Counters, PerTurn, Loops, Unwinding, Objects, Classes, ClassInside, Lists, Maps, KeepsState, NoSetup, Fails, Recursion,
    Arguments, Iterators, Errors, Garbage, Handlers, BitOperators, Slices, SuperObjects>>
  \o [n \in 1 .. 36 |-> Expressions(LeftNested(OperatorPairs[n][1], OperatorPairs[n][2]))]
  \o [n \in 1 .. 36 |-> Expressions(RightNested(OperatorPairs[n][1], OperatorPairs[n][2]))]

=============================================================================
