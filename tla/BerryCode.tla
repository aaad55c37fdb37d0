------------------------------ MODULE BerryCode ------------------------------
(***************************************************************************)
(* The code generator of the Berry compiler (be_code.c).                   *)
(*                                                                         *)
(* The compiler is a pure function of its tokens, so it is a family of     *)
(* operators on a compiler state s (parser and lexer together):            *)
(*   s.f       the function being compiled (bfuncinfo with its bproto)     *)
(*   s.outer   the functions around it, innermost last                     *)
(*   s.protos, s.classes, s.globals   finished functions, classes, the     *)
(*             names of the globals                                        *)
(*   s.toks, s.pos, s.err   tokens, the next one, the first error          *)
(* and on expression descriptors e (bexpdesc).  An operator that changes   *)
(* both returns [s, e].  An error jumps to the end of the tokens, where    *)
(* every loop of the parser stops (the code longjmps to be_loadmode).      *)
(*                                                                         *)
(* An instruction is <<op, A, B, C>>; a program counter is 0-based; a jump *)
(* holds its target in B rather than the offset to it; a list of jumps to  *)
(* patch, which the code threads through those offsets, is the set of      *)
(* their program counters.  Reals are left out.                            *)
(***************************************************************************)
EXTENDS Integers, Sequences, FiniteSets, SequencesExt

CONSTANTS
  ConstSearch,   \* BE_CONST_SEARCH_SIZE: how far constants are shared
  MaxRegs        \* registers of a function (255)

NoPc == -1
K(i) == i + 256                    \* setK: operand i is a constant
IsK(r) == r >= 256

Exp(ty, v) ==
  [ty |-> ty, v |-> v, obj |-> 0, tt |-> "VOID", idx |-> 0,
   t |-> {}, f |-> {}, not |-> FALSE, mask |-> FALSE]

Fail(s, what) == [s EXCEPT !.err = IF @ = "" THEN what ELSE @, !.pos = Len(s.toks)]

Pc(s) == Len(s.f.code)
NLocals(s) == Len(s.f.locals)

Emit(s, op, a, b, c) == [s EXCEPT !.f.code = Append(@, <<op, a, b, c>>)]

AllocRegs(s, n) ==
  LET top == s.f.freereg + n
      s1 == [s EXCEPT !.f.freereg = top, !.f.nstack = IF top > @ THEN top ELSE @]
  IN  IF top > s.f.nstack /\ top >= MaxRegs THEN Fail(s1, "register overflow") ELSE s1

FreeRegs(s, n) == [s EXCEPT !.f.freereg = @ - n]
FreeExpReg(s, e) == IF e.ty = "REG" THEN FreeRegs(s, 1) ELSE s

Arith == {"ADD", "SUB", "MUL", "DIV", "MOD", "LT", "LE", "EQ", "NE", "GT", "GE",
          "AND", "OR", "XOR", "SHL", "SHR", "CONNECT"}

Move(s, a, b) == IF IsK(b) THEN Emit(s, "LDCONST", a, b - 256, 0) ELSE Emit(s, "MOVE", a, b, 0)

\* code_move: R(a) <- RK(b).  When the last instruction computed R(b) from R(a)
\* it is made to write R(a) itself.
CodeMove(s, a, b) ==
  LET last == s.f.code[Pc(s)]
      folds == /\ Pc(s) > 0
               /\ last[1] \in Arith \union {"NEG", "FLIP", "LDNIL"}
               /\ last[2] = b
               /\ a = last[3] \/ (last[1] \in Arith /\ a = last[4])
  IN  IF folds THEN [s EXCEPT !.f.code[Pc(s)] = [@ EXCEPT ![2] = a]] ELSE Move(s, a, b)

-----------------------------------------------------------------------------
\* Constants and jumps.

NewConst(s, k) == [s EXCEPT !.f.k = Append(@, k)]

ConstOf(e) == IF e.ty = "INT" THEN <<"int", e.v>> ELSE <<"str", e.v>>

Exp2Const(s, e) ==
  LET found == {i \in 1 .. Len(s.f.k) : i <= ConstSearch /\ s.f.k[i] = ConstOf(e)}
      i == IF found = {} THEN Len(s.f.k) ELSE (CHOOSE x \in found : \A y \in found : x <= y) - 1
      s1 == IF found = {} THEN NewConst(s, ConstOf(e)) ELSE s
  IN  IF i < 256
      THEN [s |-> s1, e |-> [e EXCEPT !.ty = "CONST", !.v = K(i)]]
      ELSE [s |-> Emit(AllocRegs(s1, 1), "LDCONST", s1.f.freereg, i, 0),
            e |-> [e EXCEPT !.ty = "REG", !.v = s1.f.freereg]]

IsBxMax == 32767
ConstInt(s, i) == (i < -IsBxMax - 1 \/ i > IsBxMax) \/ (i \in 0 .. 3 /\ Len(s.f.k) < 256)

\* patchlistaux: a jump on a register goes to dtarget, any other to vtarget.
PatchAux(s, list, vtarget, dtarget) ==
  [s EXCEPT !.f.code =
     [i \in DOMAIN @ |->
        IF i - 1 \notin list THEN s.f.code[i]
        ELSE [s.f.code[i] EXCEPT ![3] =
                IF s.f.code[i][1] \in {"JMPT", "JMPF"} THEN dtarget ELSE vtarget]]]

PatchList(s, list, dst) == PatchAux(s, list, dst, dst)
PatchJump(s, list) == PatchList(s, list, Pc(s))
JumpTo(s, dst) == Emit(s, "JMP", 0, dst, 0)

JumpOp(e, b) == IF b # e.mask THEN "JMPT" ELSE "JMPF"
HasJump(e) == e.t # e.f \/ e.not

-----------------------------------------------------------------------------
\* Expressions to registers.

ObjTemp(e, noReuse) == IF ~noReuse /\ e.tt = "REG" THEN e.obj ELSE -1
IdxTemp(s, e, noReuse) == IF ~noReuse /\ ~IsK(e.idx) /\ e.idx >= NLocals(s) THEN e.idx ELSE -1
OneOf(reg1, reg2, dst) ==
  IF reg1 >= 0 /\ (reg2 < 0 \/ reg1 < reg2) THEN reg1 ELSE IF reg2 >= 0 THEN reg2 ELSE dst
DestAmong(s, reg1, reg2, dst) ==
  LET s1 == IF reg1 >= 0 /\ reg2 >= 0 /\ reg1 # reg2 THEN FreeRegs(s, 1) ELSE s
  IN  [s |-> s1, dst |-> IF dst >= s1.f.freereg THEN OneOf(reg1, reg2, dst) ELSE dst]
SuffixDest(s, e, dst, noReuse) == DestAmong(s, ObjTemp(e, noReuse), IdxTemp(s, e, noReuse), dst)

SuffixInto(s, dst, op, e) == [s |-> Emit(s, op, dst, e.obj, e.idx), dst |-> dst]
SuffixAt(x, op, e) == SuffixInto(x.s, IF x.dst > x.s.f.freereg THEN x.s.f.freereg ELSE x.dst, op, e)
CodeSuffix(s, op, e, dst, noReuse) == SuffixAt(SuffixDest(s, e, dst, noReuse), op, e)

\* var2reg: the register or constant that holds e; dst < 0 asks for any.
InReg(s, e, r) == [s |-> IF r = s.f.freereg THEN AllocRegs(s, 1) ELSE s, e |-> [e EXCEPT !.ty = "REG", !.v = r]]
SuffixInReg(x, e) == InReg(x.s, e, x.dst)
LoadOp == [INT |-> "LDINT", BOOL |-> "LDBOOL", NIL |-> "LDNIL", PROTO |-> "CLOSURE", GLOBAL |-> "GETGBL", UPVAL |-> "GETUPV"]
LoadArg(e) == CASE e.ty = "BOOL" -> IF e.v THEN 1 ELSE 0 [] e.ty = "NIL" -> 0 [] OTHER -> e.v
SuffixOp == [MEMBER |-> "GETMBR", INDEX |-> "GETIDX"]
IsConst(s, e) == e.ty = "STRING" \/ (e.ty = "INT" /\ ConstInt(s, e.v))
LoadInto(s, e, dst, noReuse) ==
  CASE IsConst(s, e) -> Exp2Const(s, e)
    [] e.ty \in DOMAIN LoadOp /\ ~IsConst(s, e) -> InReg(Emit(s, LoadOp[e.ty], dst, LoadArg(e), 0), e, dst)
    [] e.ty \in DOMAIN SuffixOp -> SuffixInReg(CodeSuffix(s, SuffixOp[e.ty], e, dst, noReuse), e)
    [] e.ty \in {"LOCAL", "REG", "CONST"} -> [s |-> s, e |-> e]
    [] OTHER -> [s |-> s, e |-> [e EXCEPT !.v = dst]]
Var2Reg(s, e, dst) == LoadInto(s, e, IF dst < 0 THEN s.f.freereg ELSE dst, dst >= 0)

\* appendjump: a jump on e, which is put in a register of its own if constant.
NotConst(a) ==
  IF IsK(a.e.v) THEN [s |-> CodeMove(AllocRegs(a.s, 1), a.s.f.freereg, a.e.v),
                      e |-> [a.e EXCEPT !.ty = "REG", !.v = a.s.f.freereg]]
  ELSE a
JumpOnReg(a, op) == [s |-> Emit(a.s, op, a.e.v, NoPc, 0), e |-> a.e, pc |-> Pc(a.s)]
JumpOn(s, op, e) == JumpOnReg(NotConst(Var2Reg(s, e, -1)), op)

\* exp2reg: e with its jumps, as the value of an expression.
BoolOfJumps(j) ==
  LET pcf == Pc(j.s)
      s1 == Emit(Emit(j.s, "LDBOOL", j.e.v, 0, 1), "LDBOOL", j.e.v, 1, 0)
  IN  [s |-> PatchAux(PatchAux(s1, j.e.f, pcf + 2, pcf), j.e.t \union {j.pc}, pcf + 2, pcf + 1),
       e |-> [j.e EXCEPT !.t = {}, !.f = {}, !.not = FALSE, !.mask = FALSE]]
JumpsToReg(a) == IF HasJump(a.e) THEN BoolOfJumps(JumpOn(a.s, JumpOp(a.e, TRUE), a.e)) ELSE a
Exp2Reg(s, e, dst) == JumpsToReg(Var2Reg(s, e, dst))

ExpReg(s, e) == Exp2Reg(s, e, -1)

\* be_code_nextreg: e in a register of its own, at the top.
ToTop(a, dst) ==
  IF a.e.ty = "REG" THEN [s |-> a.s, e |-> a.e, reg |-> a.e.v]
  ELSE [s |-> AllocRegs(CodeMove(a.s, dst, a.e.v), 1), e |-> a.e, reg |-> dst]
NextReg(s, e) == ToTop(ExpReg(s, e), s.f.freereg)

-----------------------------------------------------------------------------
\* Operators.

\* be_code_jumpbool: jump away when e is (jture) or is not true.
JumpAway(j, e, jture) ==
  LET list == (IF jture THEN e.t ELSE e.f) \union {j.pc}
  IN  [s |-> FreeExpReg(PatchJump(j.s, IF jture THEN e.f ELSE e.t), j.e),
       e |-> [j.e EXCEPT !.t = IF jture THEN list ELSE {}, !.f = IF jture THEN {} ELSE list,
                         !.not = FALSE, !.mask = FALSE]]
JumpBool(s, e, jture) == JumpAway(JumpOn(s, JumpOp(e, jture), e), e, jture)

PreBinop(s, op, e) ==
  CASE op = "&&" -> JumpBool(s, e, FALSE)
    [] op = "||" -> JumpBool(s, e, TRUE)
    [] OTHER -> ExpReg(s, e)

OpCode == [op \in {"+", "-", "*", "/", "%", "<", "<=", "==", "!=", ">", ">=", "&", "|", "^", "<<", ">>", ".."} |->
  CASE op = "+" -> "ADD" [] op = "-" -> "SUB" [] op = "*" -> "MUL" [] op = "/" -> "DIV" [] op = "%" -> "MOD"
    [] op = "<" -> "LT" [] op = "<=" -> "LE" [] op = "==" -> "EQ" [] op = "!=" -> "NE" [] op = ">" -> "GT"
    [] op = ">=" -> "GE" [] op = "&" -> "AND" [] op = "|" -> "OR" [] op = "^" -> "XOR" [] op = "<<" -> "SHL"
    [] op = ">>" -> "SHR" [] op = ".." -> "CONNECT"]

\* Mutant: the higher of two temporaries is kept, the lower one freed.
CodeDestRegHigher(s, e1, e2, dst0) ==
  LET dst == IF dst0 < 0 THEN s.f.freereg ELSE dst0
      r1 == e1.ty = "REG"  r2 == e2.ty = "REG"
      higher == IF e1.v > e2.v THEN e1.v ELSE e2.v
      s1 == CASE r1 /\ r2 -> FreeRegs(s, 1)
              [] ~r1 /\ ~r2 /\ dst >= s.f.freereg -> AllocRegs(s, 1)
              [] OTHER -> s
      cand == CASE r1 /\ r2 -> higher [] r1 /\ ~r2 -> e1.v [] r2 /\ ~r1 -> e2.v [] OTHER -> s.f.freereg
  IN  [s |-> s1, dst |-> IF ~r1 /\ ~r2 /\ dst >= s.f.freereg THEN cand
                         ELSE IF dst >= s1.f.freereg THEN cand ELSE dst]

\* codedestreg: reuse a temporary operand, the lower of two.
CodeDestReg(s, e1, e2, dst0) ==
  LET dst == IF dst0 < 0 THEN s.f.freereg ELSE dst0
      r1 == e1.ty = "REG"  r2 == e2.ty = "REG"
      lower == IF e1.v < e2.v THEN e1.v ELSE e2.v
      fresh == ~r1 /\ ~r2 /\ dst >= s.f.freereg
      s1 == CASE r1 /\ r2 -> FreeRegs(s, 1) [] fresh -> AllocRegs(s, 1) [] OTHER -> s
      cand == CASE r1 /\ r2 -> lower [] r1 /\ ~r2 -> e1.v [] r2 /\ ~r1 -> e2.v
                [] fresh -> s.f.freereg [] OTHER -> dst
  IN  [s |-> s1, dst |-> IF fresh \/ dst >= s1.f.freereg THEN cand ELSE dst]

\* The jumps of the left operand join those of the right one.
JoinJumps(a, op, e1) ==
  [s |-> a.s, e |-> IF op = "&&" THEN [a.e EXCEPT !.f = @ \union e1.f] ELSE [a.e EXCEPT !.t = @ \union e1.t]]
BinopInto(d, op, e1, e2) ==
  [s |-> Emit(d.s, OpCode[op], d.dst, e1.v, e2.v), e |-> [e1 EXCEPT !.ty = "REG", !.v = d.dst]]
BinopOf(e1, b, op, dst) == BinopInto(CodeDestReg(b.s, e1, b.e, dst), op, e1, b.e)
BinopRight(a, op, e2, dst) == BinopOf(a.e, ExpReg(a.s, e2), op, dst)
Binop(s, op, e1, e2, dst) ==
  IF op \in {"&&", "||"} THEN JoinJumps(Var2Reg(s, e2, -1), op, e1)
  ELSE BinopRight(Exp2Reg(s, e1, dst), op, e2, dst)

UnaryInto(s, op, e, dst) ==
  [s |-> IF op = "MOVE" /\ e.v = dst THEN s ELSE Emit(s, op, dst, e.v, 0), e |-> [e EXCEPT !.ty = "REG", !.v = dst]]
UnaryOf(a, op) ==
  IF a.e.ty = "REG" THEN UnaryInto(a.s, op, a.e, a.e.v) ELSE UnaryInto(AllocRegs(a.s, 1), op, a.e, a.s.f.freereg)
UnaryExp(s, op, e) == UnaryOf(ExpReg(s, e), op)

Truthy(e) == CASE e.ty = "NIL" -> FALSE [] e.ty = "INT" -> e.v # 0 [] e.ty = "BOOL" -> e.v [] OTHER -> TRUE

SwapJumps(a) == [a EXCEPT !.e.t = a.e.f, !.e.f = a.e.t, !.e.not = TRUE, !.e.mask = ~@]

\* code_not: a literal is computed (a string counts as true, "" too), anything
\* else swaps its jumps.
CodeNot(s, e) ==
  IF e.ty \in {"INT", "NIL", "BOOL", "STRING"}
  THEN [s |-> s, e |-> [e EXCEPT !.ty = "BOOL", !.v = ~Truthy(e)]]
  ELSE SwapJumps(UnaryExp(s, "MOVE", e))

\* be_code_unop: literals are folded; code_neg and code_flip refuse some of them.
Unop(s, op, e) ==
  CASE op = "!" -> CodeNot(s, e)
    [] op = "-" /\ e.ty = "INT" -> [s |-> s, e |-> [e EXCEPT !.v = -@]]
    [] op = "~" /\ e.ty = "INT" -> [s |-> s, e |-> [e EXCEPT !.v = -@ - 1]]
    [] op \in {"-", "~"} /\ e.ty \in {"NIL", "BOOL", "STRING"} -> [s |-> Fail(s, "wrong type argument to unary"), e |-> e]
    [] OTHER -> UnaryExp(s, IF op = "-" THEN "NEG" ELSE "FLIP", e)

-----------------------------------------------------------------------------
\* Assignments, calls, functions, classes, exceptions.

FreeIndex(s, e) == IF ~IsK(e.idx) /\ e.idx >= NLocals(s) THEN FreeRegs(s, 1) ELSE s
FreeObject(s, e) == IF e.tt = "REG" /\ e.obj >= NLocals(s) /\ e.obj + 1 >= s.f.freereg THEN FreeRegs(s, 1) ELSE s
FreeSuffix(s, e) == FreeObject(FreeIndex(s, e), e)

\* A constant is put in the first free register before it is stored.
FromReg(s, src) == IF IsK(src) THEN [s |-> CodeMove(s, s.f.freereg, src), r |-> s.f.freereg]
                   ELSE [s |-> s, r |-> src]

StoreName(x, op, e) == Emit(x.s, op, x.r, e.v, 0)
StoreSuffix(x, op, e, src) == Emit(x.s, op, x.r, e.idx, src)
StoreReg(s, e, src) ==
  CASE e.ty = "LOCAL" -> IF e.v # src THEN CodeMove(s, e.v, src) ELSE s
    [] e.ty \in {"GLOBAL", "UPVAL"} -> StoreName(FromReg(s, src), IF e.ty = "GLOBAL" THEN "SETGBL" ELSE "SETUPV", e)
    [] e.ty \in {"MEMBER", "INDEX"} ->
         StoreSuffix(FromReg(FreeSuffix(s, e), e.obj), IF e.ty = "MEMBER" THEN "SETMBR" ELSE "SETIDX", e, src)
    [] OTHER -> Fail(s, "try to assign constant expressions.")
StoreExp(a, e) == StoreReg(IF e.ty # "LOCAL" \/ e.v # a.e.v THEN FreeExpReg(a.s, a.e) ELSE a.s, e, a.e.v)
SetVar(s, e1, e2) == StoreExp(Exp2Reg(s, e2, IF e1.ty = "LOCAL" THEN e1.v ELSE -1), e1)

\* be_code_getmethod: the method and its object in two registers at the top.
MethodRegs(x) == [s |-> AllocRegs(x.s, IF x.dst = x.s.f.freereg THEN 2 ELSE 1), base |-> x.dst]
GetMethod(s, e) == MethodRegs(CodeSuffix(s, "GETMET", e, s.f.freereg, FALSE))

Call(s, base, argc) == FreeRegs(Emit(s, "CALL", base, argc, 0), argc)

SuffixOf(b, ty, key) == [s |-> b.s, e |-> [b.e EXCEPT !.ty = ty, !.obj = b.e.v, !.tt = b.e.ty, !.idx = key]]
SuffixKeyed(a, ty, c) == SuffixOf(ExpReg(a.s, c), ty, a.e.v)
Suffix(s, ty, c, k) == SuffixKeyed(ExpReg(s, k), ty, c)

Closure(s, e, i) ==
  LET reg == IF e.ty = "GLOBAL" THEN s.f.freereg ELSE e.v
      s1 == Emit(s, "CLOSURE", reg, i, 0)
  IN  IF e.ty = "GLOBAL" THEN Emit(s1, "SETGBL", reg, e.v, 0) ELSE s1

Close(s, isret) ==
  LET blocks == s.f.blocks
      b == Last(blocks)
  IN  CASE isret /\ (\E i \in DOMAIN blocks : blocks[i].up) -> Emit(s, "CLOSE", 0, 0, 0)
        [] ~isret /\ Len(blocks) > 1 /\ b.up -> Emit(s, "CLOSE", b.n, 0, 0)
        [] OTHER -> s

ExBlk(s, depth) == Emit(s, "EXBLK", 1, depth, 0)

\* be_code_ret of an expression: close the upvalues, leave the try blocks.
RetMark(s) == IF Len(s.f.blocks) = 1 THEN [s EXCEPT !.f.ret = TRUE] ELSE s
RetSkipped(s) == Len(s.f.blocks) = 1 /\ s.f.ret

LeaveTries(s) ==
  LET tries == Cardinality({i \in DOMAIN s.f.blocks : s.f.blocks[i].exc})
  IN  IF tries > 0 THEN ExBlk(s, tries) ELSE s
RetOf(a) ==
  FreeExpReg(Emit(LeaveTries(Close(a.s, TRUE)), "RET", IF a.e.ty # "VOID" THEN 1 ELSE 0, a.e.v, 0), a.e)
CodeRet(s, e) == IF RetSkipped(s) THEN s ELSE RetOf(ExpReg(RetMark(s), e))

CodeRetNil(s) == IF RetSkipped(s) THEN s ELSE Emit(Close(RetMark(s), TRUE), "RET", 0, 0, 0)

CodeClass(s, e, c) ==
  LET i == Len(s.f.k)
      s1 == NewConst(s, <<"cls", c>>)
      reg == IF e.ty = "LOCAL" THEN e.v ELSE s.f.freereg
      s2 == Emit(s1, "LDCONST", reg, i, 0)
      s3 == IF e.ty = "GLOBAL" THEN Emit(s2, "SETGBL", reg, e.v, 0) ELSE s2
  IN  Emit(s3, "CLASS", 0, i, 0)

SuperOf(b, c) == FreeExpReg(FreeExpReg(Emit(b.s, "SETSUPER", c.v, b.e.v, 0), c), b.e)
SuperIn(a, sup) == SuperOf(ExpReg(a.s, sup), a.e)
SetSuper(s, c, sup) == SuperIn(ExpReg(s, c), sup)

RaiseOf(b, e1, two) ==
  FreeExpReg(FreeExpReg(Emit(b.s, "RAISE", IF two THEN 1 ELSE 0, e1.v, IF two THEN b.e.v ELSE 0), e1), b.e)
RaiseIn(a, e2) ==
  IF e2.ty = "VOID" THEN RaiseOf([s |-> a.s, e |-> e2], a.e, FALSE) ELSE RaiseOf(ExpReg(a.s, e2), a.e, TRUE)
CodeRaise(s, e1, e2) == RaiseIn(ExpReg(s, e1), e2)

=============================================================================
