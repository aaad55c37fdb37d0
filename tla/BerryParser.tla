----------------------------- MODULE BerryParser -----------------------------
(***************************************************************************)
(* The Berry compiler's parser (be_parser.c): tokens to bytecode in one    *)
(* pass, through the code generator.  A token is <<kind, value>>.          *)
(* `import', the strict mode and the named globals are left out (the       *)
(* device sets neither option), and so are debug information and reals.    *)
(***************************************************************************)
EXTENDS BerryCode

CONSTANT Builtins   \* names of the built-in globals, in order

\* An enclosing block: first local, first instruction, jumps to patch, kind.
Block(s, loop, exc) ==
  [n |-> NLocals(s), begin |-> Pc(s), brk |-> {}, cont |-> {}, loop |-> loop, exc |-> exc, up |-> FALSE]

NewFunc == [code |-> <<>>, k |-> <<>>, ps |-> <<>>, locals |-> <<>>, upvals |-> <<>>, freereg |-> 0,
            nstack |-> 0, argc |-> 0, vararg |-> FALSE, method |-> FALSE, blocks |-> <<>>, ret |-> FALSE]

Next1(s) == IF s.pos < Len(s.toks) THEN s.toks[s.pos + 1][1] ELSE "EOS"
Val1(s) == IF s.pos < Len(s.toks) THEN s.toks[s.pos + 1][2] ELSE ""
Skip(s) == [s EXCEPT !.pos = IF @ < Len(s.toks) THEN @ + 1 ELSE @]
Match(s, k) == IF Next1(s) = k THEN Skip(s) ELSE Fail(s, "expected token")

CheckVar(s, e) == IF e.ty = "VOID" THEN Fail(s, "undeclared") ELSE s

-----------------------------------------------------------------------------
\* Blocks and functions.

TopBlock(s) == Last(s.f.blocks)
BeginBlock(s, loop, exc) == [s EXCEPT !.f.blocks = Append(@, Block(s, loop, exc))]

\* end_block: close the upvalues, loop back, drop the block's locals and
\* every register above those of the enclosing block.
LoopBack(s, b) == IF b.loop THEN PatchList(PatchJump(JumpTo(s, b.begin), b.brk), b.cont, b.begin) ELSE s
LeaveBlock(s, b) == [LoopBack(s, b) EXCEPT !.f.locals = SubSeq(@, 1, b.n), !.f.freereg = b.n, !.f.blocks = Front(@)]
EndClosed(s) == LeaveBlock(s, TopBlock(s))
EndBlock(s) == EndClosed(Close(s, FALSE))

BeginFunc(s) ==
  BeginBlock([s EXCEPT !.outer = Append(@, s.f), !.f = NewFunc], FALSE, FALSE)

\* end_func: the finished function joins the protos; its index is the last.
ProtoOfFunc(f) ==
  [code |-> f.code, k |-> f.k, ps |-> f.ps, up |-> f.upvals, nstack |-> f.nstack, argc |-> f.argc, vararg |-> f.vararg]
EndFunc(s) ==
  [s EXCEPT !.f = Last(s.outer), !.outer = Front(@), !.protos = Append(@, ProtoOfFunc(EndBlock(CodeRetNil(s)).f))]

AddProto(s) == [s EXCEPT !.f.ps = Append(@, Len(s.protos))]
LastProto(s) == Len(s.f.ps) - 1

-----------------------------------------------------------------------------
\* Variables.

FindLocal(f, x, begin) ==
  LET found == {i \in begin .. Len(f.locals) - 1 : f.locals[i + 1] = x}
  IN  IF found = {} THEN -1 ELSE CHOOSE i \in found : \A j \in found : j <= i

NewLocal(s, x) ==
  IF FindLocal(s.f, x, TopBlock(s).n) # -1 THEN Fail(s, "redefinition")
  ELSE LET s1 == [s EXCEPT !.f.locals = Append(@, x)]
       IN  IF NLocals(s) >= s.f.freereg THEN AllocRegs(s1, 1) ELSE s1

GlobalIndex(s, x) ==
  LET found == {i \in DOMAIN s.globals : s.globals[i] = x}
      own == {i \in found : i > Len(Builtins)}
  IN  IF found = {} THEN -1
      ELSE (CHOOSE i \in (IF own # {} THEN own ELSE found) : TRUE) - 1

IsGlobalScope(s) == Len(s.outer) = 1 /\ Len(s.f.blocks) = 1

\* new_var: a local inside a function or a block, else a global.
NewVar(s, x) ==
  IF ~IsGlobalScope(s)
  THEN [s |-> NewLocal(s, x), e |-> Exp("LOCAL", NLocals(NewLocal(s, x)) - 1)]
  ELSE LET s1 == IF GlobalIndex(s, x) >= Len(Builtins) THEN s ELSE [s EXCEPT !.globals = Append(@, x)]
       IN  [s |-> s1, e |-> Exp("GLOBAL", GlobalIndex(s1, x))]

FindUpval(f, x) == SelectInSeq(f.upvals, LAMBDA u : u.name = x)

\* mark_upval: the block of f that declares local i.
MarkUpval(f, i) ==
  LET b == CHOOSE b \in DOMAIN f.blocks : f.blocks[b].n <= i
                    /\ \A c \in DOMAIN f.blocks : c > b => f.blocks[c].n > i
  IN  [f EXCEPT !.blocks[b].up = TRUE]

\* singlevaraux over the functions fs, innermost last: [fs, ty, v].
RECURSIVE SingleVarAux(_, _, _)
SingleVarAux(s, fs, x) ==
  LET f == Last(fs)
      local == FindLocal(f, x, 0)
      up == FindUpval(f, x)
      rest == SingleVarAux(s, Front(fs), x)
      outer == IF rest.ty = "LOCAL" THEN [rest.fs EXCEPT ![Len(rest.fs)] = MarkUpval(@, rest.v)] ELSE rest.fs
      uv == [name |-> x, idx |-> rest.v, instack |-> rest.ty = "LOCAL"]
  IN  CASE fs = <<>> -> [fs |-> fs, ty |-> "VOID", v |-> 0]
        [] fs # <<>> /\ local >= 0 -> [fs |-> fs, ty |-> "LOCAL", v |-> local]
        [] fs # <<>> /\ local < 0 /\ up # 0 -> [fs |-> fs, ty |-> "UPVAL", v |-> up - 1]
        [] OTHER ->
             IF rest.ty \in {"LOCAL", "UPVAL"}
             THEN [fs |-> Append(outer, [f EXCEPT !.upvals = Append(@, uv)]), ty |-> "UPVAL", v |-> Len(f.upvals)]
             ELSE [fs |-> fs, ty |-> IF GlobalIndex(s, x) >= 0 THEN "GLOBAL" ELSE "VOID", v |-> 0]

\* The outermost element of s.outer is the parser before any function.
SingleVar(s, x) ==
  LET r == SingleVarAux(s, Append(Tail(s.outer), s.f), x)
      s1 == [s EXCEPT !.outer = <<Head(s.outer)>> \o Front(r.fs), !.f = Last(r.fs)]
  IN  CASE r.ty = "VOID" -> [s |-> s, e |-> Exp("VOID", x)]
        [] r.ty = "GLOBAL" -> [s |-> s, e |-> Exp("GLOBAL", GlobalIndex(s, x))]
        [] OTHER -> [s |-> s1, e |-> Exp(r.ty, r.v)]

-----------------------------------------------------------------------------
\* Expressions.

Prio == [op \in DOMAIN OpCode \union {"&&", "||"} |->
  CASE op \in {"+", "-"} -> 5 [] op \in {"*", "/", "%"} -> 4 [] op \in {"<", "<=", ">", ">="} -> 11
    [] op \in {"==", "!="} -> 12 [] op = "&" -> 7 [] op = "|" -> 9 [] op = "^" -> 8
    [] op \in {"<<", ">>"} -> 6 [] op = ".." -> 10 [] op = "&&" -> 13 [] op = "||" -> 14]
UnaryPrio == 3
AssignPrio == 16

AssignOps == [op \in {"=", "+=", "-=", "*=", "/=", "%=", "&=", "|=", "^=", "<<=", ">>="} |->
  CASE op = "+=" -> "+" [] op = "-=" -> "-" [] op = "*=" -> "*" [] op = "/=" -> "/" [] op = "%=" -> "%"
    [] op = "&=" -> "&" [] op = "|=" -> "|" [] op = "^=" -> "^" [] op = "<<=" -> "<<" [] op = ">>=" -> ">>" [] OTHER -> "="]

RECURSIVE Parse(_, _, _), BinTail(_, _), SuffixTail(_), ExprList(_, _), VarList(_, _, _),
          Members(_, _, _), ElifTail(_), ExceptCases(_, _, _), ExceptBlocks(_, _, _), ClassBlock(_, _, _),
          VarFields(_), ClassVars(_, _), StaticVars(_, _, _)

\* The rules that the others come back to: sub_expr and stmtlist.
SubExpr(s, prio) == Parse("subexpr", s, prio)
StmtList(s) == Parse("stmtlist", s, 0).s

\* expr: any expression, checked to be more than an unknown name.
Expr(s) == SubExpr(s, AssignPrio)
Declared(a) == [s |-> CheckVar(a.s, a.e), e |-> a.e]
Value(s) == Declared(Expr(s))

\* func_varlist: the parameters, each a local from R0 on.
VarList(s, close, first) ==
  LET s1 == IF first THEN s ELSE Match(s, ",")
      star == Next1(s1) = "*"
      s2 == IF star THEN Skip(s1) ELSE s1
      s3 == NewVar(Match(s2, "id"), Val1(s2)).s
  IN  IF Next1(s) = close \/ s.err # "" THEN s
      ELSE IF star THEN [s3 EXCEPT !.f.vararg = TRUE]
      ELSE VarList(s3, close, FALSE)

Params(s, close) ==
  LET s1 == Match(VarList(s, close, TRUE), close) IN [s1 EXCEPT !.f.argc = s1.f.freereg]

\* funcbody: the function becomes the last of s.protos.
FuncBody(s, method) ==
  Match(EndFunc(StmtList(Params(Match(IF method THEN NewLocal(BeginFunc(s), "self") ELSE BeginFunc(s), "("), ")"))), "end")

FuncExp(s) == [s |-> s, e |-> Exp("PROTO", LastProto(s))]
AnonFunc(s) == FuncExp(AddProto(FuncBody(Skip(s), FALSE)))

LambdaRet(a) == FuncExp(AddProto(EndFunc(CodeRet(a.s, a.e))))
LambdaExpr(s) == LambdaRet(Value(Params(BeginFunc(Skip(s)), "->")))

\* list_nextmember, map_nextmember, separated by commas up to the bracket.
AddItem(a, l) == FreeRegs(Binop(a.s, "..", l, a.e, -1).s, 1)
ListMember(s, l) == AddItem(Value(s), l)
StoreIn(v, e) == SetVar(v.s, v.e, e)
MapStore(v, a) == StoreIn([v EXCEPT !.s = a.s], a.e)
MapValue(v) == MapStore(v, Value(Match(v.s, ":")))
MapKey(k, l) == MapValue(Suffix(k.s, "INDEX", l, k.e))
MapMember(s, l) == MapKey(Value(s), l)

AnyMember(s, l, close) == IF close = "]" THEN ListMember(s, l) ELSE MapMember(s, l)
NextMember(s, l, close) == IF Next1(s) = "," THEN Members(Skip(s), l, close) ELSE s
Members(s, l, close) ==
  IF Next1(s) = close \/ s.err # "" THEN s ELSE NextMember(AnyMember(s, l, close), l, close)

\* list_expr, map_expr: call the class, then fill what it returned.
FillPrim(a, close) ==
  [s |-> Match(Members(Call(a.s, a.reg, 0), [a.e EXCEPT !.ty = "LOCAL"], close), close), e |-> a.e]
PrimType(s, type, close) ==
  FillPrim(NextReg(Skip(s), Exp("GLOBAL", GlobalIndex([s EXCEPT !.globals = Builtins], type))), close)

SimpleExpr(s) ==
  LET k == Next1(s)
      v == Val1(s)
      To(e) == [s |-> Skip(s), e |-> e]
  IN  CASE k = "int" -> To(Exp("INT", v))
        [] k = "str" -> To(Exp("STRING", v))
        [] k = "id" -> LET a == SingleVar(s, v) IN [s |-> Skip(a.s), e |-> a.e]
        [] k = "true" -> To(Exp("BOOL", TRUE))
        [] k = "false" -> To(Exp("BOOL", FALSE))
        [] k = "nil" -> To(Exp("NIL", 0))
        [] OTHER -> [s |-> s, e |-> Exp("VOID", "")]

PrimaryExpr(s) ==
  CASE Next1(s) = "(" -> LET a == Value(Skip(s)) IN [s |-> Match(a.s, ")"), e |-> a.e]
    [] Next1(s) = "[" -> PrimType(s, "list", "]")
    [] Next1(s) = "{" -> PrimType(s, "map", "}")
    [] Next1(s) = "def" -> AnonFunc(s)
    [] Next1(s) = "/" -> LambdaExpr(s)
    [] OTHER -> SimpleExpr(s)

\* exprlist: each argument in the next register.
ExprList(s, n) ==
  LET a == Value(s)
      b == NextReg(a.s, a.e)
  IN  IF Next1(s) = ")" /\ n = 0 THEN [s |-> s, n |-> 0]
      ELSE IF Next1(b.s) = "," THEN ExprList(Skip(b.s), n + 1) ELSE [s |-> b.s, n |-> n + 1]

\* call_expr: the function, or the method and its instance, then the arguments.
CallWith(args, base, extra) == Call(Match(args.s, ")"), base, args.n + extra)
CallArgs(s, base, e, extra) ==
  [s |-> CallWith(ExprList(Skip(s), 0), base, extra), e |-> IF e.ty = "REG" THEN e ELSE [e EXCEPT !.ty = "REG", !.v = base]]
CallMember(m, e) == CallArgs(m.s, m.base, e, 1)
CallPlain(r) == CallArgs(r.s, r.reg, r.e, 0)
CallExpr(s, e) == IF e.ty = "MEMBER" THEN CallMember(GetMethod(s, e), e) ELSE CallPlain(NextReg(s, e))

MemberExpr(s, e) ==
  LET s1 == Skip(s)
      k == Value(Skip(s1))
  IN  IF Next1(s1) = "id" THEN Suffix(Skip(s1), "MEMBER", e, Exp("STRING", Val1(s1)))
      ELSE IF Next1(s1) = "(" THEN Suffix(Match(k.s, ")"), "MEMBER", e, k.e)
      ELSE [s |-> Fail(s1, "invalid syntax"), e |-> e]

IndexExpr(s, e) ==
  LET k == Value(Skip(s))
      a == Suffix(k.s, "INDEX", e, k.e)
  IN  [s |-> Match(a.s, "]"), e |-> a.e]

\* call_single_string_expr: a string literal right after a function is its argument.
StringArg(r, a) ==
  [s |-> Call(NextReg(a.s, a.e).s, r.reg, 1), e |-> IF r.e.ty = "REG" THEN r.e ELSE [r.e EXCEPT !.ty = "REG", !.v = r.reg]]
CallOnString(r) == StringArg(r, SimpleExpr(r.s))
CallString(s, e) ==
  IF e.ty = "MEMBER" THEN [s |-> Fail(s, "method not allowed for string prefix"), e |-> e] ELSE CallOnString(NextReg(s, e))

SuffixStep(a, next) ==
  CASE next = "(" -> CallExpr(a.s, a.e)
    [] next = "." -> MemberExpr(a.s, a.e)
    [] next = "[" -> IndexExpr(a.s, a.e)
    [] next = "str" -> CallString(a.s, a.e)

SuffixTail(a) ==
  IF Next1(a.s) \in {"(", ".", "[", "str"} THEN SuffixTail(SuffixStep(Declared(a), Next1(a.s))) ELSE a

\* cond_expr: both values are left in the same register.
OrElse(s, taken) == LET b == Value(Match(PatchJump(Emit(s, "JMP", 0, NoPc, 0), taken), ":")) IN NextReg(b.s, b.e)
CondJoin(r, from) == [s |-> PatchJump(r.s, {from}), e |-> [r.e EXCEPT !.ty = "REG", !.v = r.reg]]
CondElse(s, taken) == CondJoin(OrElse(s, taken), Pc(s))
CondThen(a, taken) == CondElse(FreeRegs(NextReg(a.s, a.e).s, 1), taken)
CondFrom(j) == CondThen(Value(j.s), j.e.f)
CondExpr(a) == IF Next1(a.s) = "?" THEN CondFrom(JumpBool(CheckVar(Skip(a.s), a.e), a.e, FALSE)) ELSE a

\* `a ..' stands for the range up to the greatest integer.
OpenRange(b, op) == b.e.ty = "VOID" /\ op = ".."
BinRight(b, op) == IF OpenRange(b, op) THEN [b EXCEPT !.e = Exp("INT", IsBxMax)] ELSE Declared(b)
BinWith(b, op, l) == Binop(b.s, op, l, b.e, -1)
BinStep(a, op) == BinWith(BinRight(SubExpr(a.s, Prio[op]), op), op, a.e)

BinTail(a, prio) ==
  IF Next1(a.s) \in DOMAIN Prio /\ prio > Prio[Next1(a.s)] /\ a.s.err = ""
  THEN BinTail(BinStep(PreBinop(Skip(CheckVar(a.s, a.e)), Next1(a.s), a.e), Next1(a.s)), prio)
  ELSE a

UnaryOn(a, op) == Unop(a.s, op, a.e)
Operand(s) ==
  IF Next1(s) \in {"-", "!", "~"} THEN UnaryOn(Declared(SubExpr(Skip(s), UnaryPrio)), Next1(s))
  ELSE SuffixTail(PrimaryExpr(s))

Choice(a, prio) == IF prio = AssignPrio THEN CondExpr(a) ELSE a
SubExprRule(s, prio) == Choice(BinTail(Operand(s), prio), prio)

\* assign_expr: an expression statement, an assignment or a compound one.
SuffixAlloc(s, l) ==
  IF l.ty = "GLOBAL" \/ (l.ty \in {"INDEX", "MEMBER"} /\ l.tt \in {"REG", "LOCAL", "GLOBAL"})
  THEN AllocRegs(s, 1) ELSE s

\* The variable that the assignment declares, if l is not one already.
IsNew(l) == (l.ty = "VOID" /\ l.v # "") \/ (l.ty = "GLOBAL" /\ l.v < Len(Builtins))
Target(s, l) ==
  IF IsNew(l) THEN NewVar(s, IF l.ty = "VOID" THEN l.v ELSE Builtins[l.v + 1]) ELSE [s |-> s, e |-> l]
AssignValue(v, l) == StoreIn(Target(v.s, l), v.e)
AssignOp(r, op, l, at) == AssignValue(IF op = "=" THEN r ELSE Binop(r.s, AssignOps[op], l, r.e, at), l)
Assign(l, op) ==
  AssignOp(Value(IF op = "=" THEN Skip(l.s) ELSE SuffixAlloc(CheckVar(Skip(l.s), l.e), l.e)), op, l.e, l.s.f.freereg)

ExprStmt(l) ==
  CASE l.e.ty = "VOID" /\ l.e.v = "" -> Fail(l.s, "unexpected symbol")
    [] Next1(l.s) \in DOMAIN AssignOps -> Assign(l, Next1(l.s))
    [] l.e.ty \in {"MEMBER", "INDEX", "REG"} -> [l.s EXCEPT !.f.freereg = NLocals(l.s)]
    [] OTHER -> CheckVar(l.s, l.e)
AssignExpr(s) == ExprStmt(Expr(s))

-----------------------------------------------------------------------------
\* Statements.

BlockFollows(s) == Next1(s) \notin {"else", "elif", "end", "except", "EOS"}

BlockOf(s, exc) == EndBlock(StmtList(BeginBlock(s, FALSE, exc)))

\* cond_stmt: [s, f] with the jumps taken when the condition is false.
CondOf(a) == LET j == JumpBool(a.s, a.e, FALSE) IN [s |-> j.s, f |-> j.e.f]
CondStmt(s) ==
  CondOf(Value(IF Next1(s) = ")" THEN Fail(s, "expected statement") ELSE s))

\* if_stmt: jl holds the jumps from the end of each branch, f those to the next one.
BranchEnd(s, f, jl, more) ==
  [s |-> PatchJump(IF more THEN Emit(s, "JMP", 0, NoPc, 0) ELSE s, f), jl |-> IF more THEN jl \union {Pc(s)} ELSE jl]
Branch(c, jl) == LET s == BlockOf(c.s, FALSE) IN BranchEnd(s, c.f, jl, Next1(s) \in {"elif", "else"})
ElseBranch(s) == IF Next1(s) = "else" THEN BlockOf(Skip(s), FALSE) ELSE s
ElifTail(b) ==
  IF Next1(b.s) = "elif" THEN ElifTail(Branch(CondStmt(Skip(b.s)), b.jl))
  ELSE PatchJump(Match(ElseBranch(b.s), "end"), b.jl)
IfStmt(s) == ElifTail(Branch(CondStmt(Skip(s)), {}))

WhileStmt(s) ==
  LET c == CondStmt(BeginBlock(Skip(s), TRUE, FALSE))
  IN  Match(PatchJump(EndBlock(StmtList(c.s)), c.f), "end")

\* for_init: the hidden local .it = __iterator__(expr); r is where the call goes.
IteratorReg(s) == NextReg(s, Exp("GLOBAL", GlobalIndex([s EXCEPT !.globals = Builtins], "__iterator__")))
HoldIterator(s, r) == NewLocal(FreeRegs(Call(s, r, 1), 1), ".it")
CallIterator(a, r) == HoldIterator(NextReg(a.s, a.e).s, r)
ForIter(r) == CallIterator(Value(r.s), r.reg)

\* for_leave: a break jumps over the handler of stop_iteration, at catch.
Rethrow(s, r) == Emit(Emit(s, "CATCH", r, 1, 0), "RAISE", 2, 0, 0)
CatchStop(e) == FreeRegs(Rethrow(e.s, e.reg), 1)
ForCatch(s, catch) == CatchStop(NextReg(PatchJump(s, {catch}), Exp("STRING", "stop_iteration")))
ForBroken(s, catch) == PatchJump(ForCatch(s, catch), {Pc(s) - 1})
ForLeave(s, brk, catch) ==
  IF brk THEN ForBroken(Emit(ExBlk(EndBlock(s), 1), "JMP", 0, NoPc, 0), catch) ELSE ForCatch(EndBlock(s), catch)
ForEnd(s, catch) == ForLeave(s, TopBlock(s).brk # {}, catch)

\* for_iter: x = .it(), which the loop comes back to.
LoopsHere(s) == [s EXCEPT !.f.blocks[Len(s.f.blocks)].begin = Pc(s)]
NextItem(s) == Call(SetVar(s, Exp("LOCAL", NLocals(s) - 1), Exp("LOCAL", NLocals(s) - 2)), NLocals(s) - 1, 0)
ForBody(s, x) == ForEnd(StmtList(NextItem(NewLocal(LoopsHere(Emit(s, "EXBLK", 0, NoPc, 0)), x))), Pc(s))

\* for_stmt: a try block that loops until .it() raises stop_iteration.
ForVar(s) == Match(Match(BeginBlock(s, TRUE, TRUE), "id"), ":")
ForStmt(s) == Match(ForBody(ForIter(IteratorReg(ForVar(Skip(s)))), Val1(Skip(s))), "end")

\* break_stmt and continue_stmt: leave the try blocks inside the loop, then jump.
LoopJump(s, list) ==
  LET loops == {i \in DOMAIN s.f.blocks : s.f.blocks[i].loop}
      at == CHOOSE i \in loops : \A j \in loops : j <= i
      tries == Cardinality({i \in at + 1 .. Len(s.f.blocks) : s.f.blocks[i].exc})
      s1 == IF tries > 0 THEN ExBlk(Skip(s), tries) ELSE Skip(s)
      s2 == Emit(s1, "JMP", 0, NoPc, 0)
  IN  IF loops = {} THEN Fail(s, "break not loop")
      ELSE [s2 EXCEPT !.f.blocks[at][list] = @ \union {Pc(s1)}]

BindFunc(s, e) == Closure(s, e, LastProto(s))
DefNamed(v) == BindFunc(AddProto(FuncBody(Match(v.s, "id"), FALSE)), v.e)
DefStmt(s) == DefNamed(NewVar(Skip(s), Val1(Skip(s))))

ReturnStmt(s) ==
  LET a == Expr(Skip(s))
      named == a.e.ty = "VOID" /\ a.e.v # ""
  IN  CodeRet(IF named THEN CheckVar(a.s, a.e) ELSE a.s, a.e)

\* var_field: the initial value is compiled before the name is declared.
VarFields(s) ==
  LET s1 == Match(s, "id")
      a == IF Next1(s1) = "=" THEN Value(Skip(s1)) ELSE [s |-> s1, e |-> Exp("NIL", 0)]
      v == NewVar(a.s, Val1(s))
      s2 == SetVar(v.s, v.e, a.e)
  IN  IF Next1(s2) = "," THEN VarFields(Skip(s2)) ELSE s2

-----------------------------------------------------------------------------
\* try ... except ... end, raise.

\* except_case_list: [s, base, n]; `..' catches everything.
ExceptCase(r, b, n) ==
  IF Next1(r.s) = "," THEN ExceptCases(Skip(r.s), b, n + 1)
  ELSE [s |-> FreeRegs(r.s, r.reg - b + 1), base |-> b, n |-> r.reg - b + 1]
CaseReg(a) == NextReg(a.s, a.e)
FirstCase(r) == ExceptCase(r, r.reg, 0)
ExceptCases(s, base, n) ==
  CASE n = 0 /\ Next1(s) = ".." -> [s |-> Skip(s), base |-> s.f.freereg, n |-> 0]
    [] n = 0 /\ Next1(s) # ".." -> FirstCase(CaseReg(Value(s)))
    [] OTHER -> ExceptCase(CaseReg(Value(s)), base, n)

ExceptVars(s) ==
  LET s1 == Skip(s)
      s2 == NewVar(Match(s1, "id"), Val1(s1)).s
      s3 == Skip(s2)
  IN  CASE Next1(s) # "as" -> [s |-> s, n |-> 0]
        [] Next1(s) = "as" /\ Next1(s2) # "," -> [s |-> s2, n |-> 1]
        [] OTHER -> [s |-> NewVar(Match(s3, "id"), Val1(s3)).s, n |-> 2]

\* except_block: CATCH the cases c into the variables v, the block, a jump past
\* the last one; skip is the jump over this one.
CatchAs(c, v) == Emit(Emit(v.s, "CATCH", c.base, c.n, v.n), "JMP", 0, NoPc, 0)
CatchCases(c) == CatchAs(c, ExceptVars(c.s))
ExceptRest(s, skip, jbrk) ==
  IF Next1(s) = "except" THEN ExceptBlocks(s, {skip}, jbrk)
  ELSE Match(PatchJump(Emit(PatchJump(s, {skip}), "RAISE", 2, 0, 0), jbrk), "end")
ExceptLeave(s, skip, jbrk) == ExceptRest(EndBlock(Emit(s, "JMP", 0, NoPc, 0)), skip, jbrk \union {Pc(s)})
ExceptBody(s, jbrk) == ExceptLeave(StmtList(s), Pc(s) - 1, jbrk)

\* The except blocks: jcatch, the jumps to the next one; jbrk, those past the last.
ExceptBlocks(s, jcatch, jbrk) ==
  ExceptBody(CatchCases(ExceptCases(PatchJump(BeginBlock(Match(s, "except"), FALSE, FALSE), jcatch), 0, 0)), jbrk)

TryLeave(s, catch) == ExceptBlocks(Emit(s, "JMP", 0, NoPc, 0), {catch}, {Pc(s)})
TryStmt(s) == TryLeave(ExBlk(BlockOf(Emit(Skip(s), "EXBLK", 0, NoPc, 0), TRUE), 1), Pc(s))

ThrowValue(a, b) == CodeRaise(b.s, a.e, b.e)
ThrowOne(a) == IF Next1(a.s) = "," THEN ThrowValue(a, Value(Skip(a.s))) ELSE CodeRaise(a.s, a.e, Exp("VOID", ""))
ThrowStmt(s) == ThrowOne(Value(Skip(s)))

-----------------------------------------------------------------------------
\* Classes: [super, members], a member being <<"var", n>>, <<"clo", proto>> or
\* <<"static", proto>>, or <<"nil", 0>> for a static that the code assigns.

\* check_class_attr: neither the class nor a superclass has the attribute (the
\* superclass is set at run time, so none is known here).
Bind(s, c, x, v) ==
  IF x \in DOMAIN s.classes[c].members THEN Fail(s, "redefinition of the attribute")
  ELSE [s EXCEPT !.classes[c].members = @ @@ (x :> v),
                 !.classes[c].nvar = IF v[1] = "var" THEN @ + 1 ELSE @]

ClassVars(s, c) ==
  LET s1 == Bind(Match(s, "id"), c, Val1(s), <<"var", s.classes[c].nvar>>)
  IN  IF Next1(s1) = "," THEN ClassVars(Skip(s1), c) ELSE s1

ClassDef(s, c, static) ==
  LET s1 == Skip(s)
      op == Next1(s1)
      neg == op = "-" /\ Next1(Skip(s1)) = "*"
      call == op = "(" /\ Next1(Skip(s1)) = ")"
      name == CASE op = "id" -> Val1(s1) [] call -> "()" [] neg -> "-*" [] OTHER -> op
      s2 == Skip(s1)
      s3 == IF call \/ neg THEN Skip(s2) ELSE s2
      s4 == IF op = "id" \/ op \in DOMAIN OpCode \union {"~", "("} THEN s3 ELSE Fail(s1, "not a valid function name")
      Method(s5) == Bind(s5, c, name, <<IF static THEN "static" ELSE "clo", Len(s5.protos)>>)
  IN  Method(FuncBody(s4, ~static))

\* class_static_assignment_expr: the value, then a store to the class's member x.
StaticValue(a, x, e) == StoreIn(Suffix(a.s, "MEMBER", e, Exp("STRING", x)), a.e)
StaticInit(s, x, e) == IF Next1(s) = "=" THEN StaticValue(Expr(Skip(s)), x, e) ELSE s
NextStatic(s, c, e) == IF Next1(s) = "," THEN StaticVars(Skip(s), c, e) ELSE s
StaticVars(s, c, e) == NextStatic(StaticInit(Bind(Match(s, "id"), c, Val1(s), <<"nil", 0>>), Val1(s), e), c, e)

ClassItem(s, c, e) ==
  LET s1 == Skip(s)
  IN  CASE Next1(s) = "var" -> ClassVars(s1, c)
        [] Next1(s) = "static" -> IF Next1(s1) = "def" THEN ClassDef(s1, c, TRUE)
                                  ELSE StaticVars(IF Next1(s1) = "var" THEN Skip(s1) ELSE s1, c, e)
        [] Next1(s) = "def" -> ClassDef(s, c, FALSE)

ClassBlock(s, c, e) ==
  CASE ~BlockFollows(s) -> s
    [] Next1(s) \in {"var", "static", "def"} -> ClassBlock(ClassItem(s, c, e), c, e)
    [] OTHER -> Fail(s, "unexpected token")

ClassSuper(a, e) == SetSuper(a.s, e, a.e)
ClassInherit(s, e) == IF Next1(s) = ":" THEN ClassSuper(Value(Skip(s)), e) ELSE s
ClassBody(v, c) == Match(ClassBlock(ClassInherit(CodeClass(v.s, v.e, c), v.e), c, v.e), "end")
ClassNamed(s, x) ==
  ClassBody(NewVar([Match(s, "id") EXCEPT !.classes = Append(@, [super |-> 0, members |-> <<>>, nvar |-> 0])], x),
            Len(s.classes) + 1)
ClassStmt(s) == ClassNamed(Skip(s), Val1(Skip(s)))

-----------------------------------------------------------------------------
Statement(s) ==
  CASE Next1(s) = "if" -> IfStmt(s)
    [] Next1(s) = "while" -> WhileStmt(s)
    [] Next1(s) = "for" -> ForStmt(s)
    [] Next1(s) = "do" -> Match(BlockOf(Skip(s), FALSE), "end")
    [] Next1(s) = "break" -> LoopJump(s, "brk")
    [] Next1(s) = "continue" -> LoopJump(s, "cont")
    [] Next1(s) = "def" -> DefStmt(s)
    [] Next1(s) = "class" -> ClassStmt(s)
    [] Next1(s) = "return" -> ReturnStmt(s)
    [] Next1(s) = "var" -> VarFields(Skip(s))
    [] Next1(s) = "try" -> TryStmt(s)
    [] Next1(s) = "raise" -> ThrowStmt(s)
    [] Next1(s) = ";" -> Skip(s)
    [] OTHER -> AssignExpr(s)

StmtListRule(s) == [s |-> IF BlockFollows(s) THEN StmtList(Statement(s)) ELSE s]

Parse(rule, s, prio) == IF rule = "subexpr" THEN SubExprRule(s, prio) ELSE StmtListRule(s)

\* be_parser_source: the compiled program; its main function is the last proto.
Fresh(toks) ==
  [f |-> NewFunc, outer |-> <<>>, protos |-> <<>>, classes |-> <<>>, globals |-> Builtins, toks |-> toks, pos |-> 0, err |-> ""]
Compiled(s) == [protos |-> s.protos, classes |-> s.classes, globals |-> s.globals, err |-> s.err]
AtEnd(s) == IF Next1(s) = "EOS" THEN s ELSE Fail(s, "expected token")
Compile(toks) == Compiled(AtEnd(EndFunc(StmtList(BeginFunc(Fresh(toks))))))

=============================================================================
