------------------------------- MODULE CcGen --------------------------------
(***************************************************************************)
(* The code generator of apps/cc. Its state is a record cg; the code is a  *)
(* sequence of instructions, an address is a place in it, and a jump is    *)
(* patched by overwriting its target, as emit_rel32 does.                  *)
(*                                                                         *)
(* Stack places are counted in words of 8 bytes. String constants are left *)
(* out: their address is never patched.                                    *)
(***************************************************************************)
EXTENDS CcParse

-----------------------------------------------------------------------------
(* Generator state. brk and cont are the patch lists break_patches and     *)
(* continue_patches; loops holds, for each open loop, where its part of    *)
(* each begins and the address continue jumps to, 0 when not yet known.    *)

CodegenInit == [code |-> <<>>, locals |-> <<>>, off |-> 0, funcs |-> <<>>,
                brk |-> <<>>, cont |-> <<>>, loops |-> <<>>]

Size(cg) == Len(cg.code)

Emit(cg, is) == [cg EXCEPT !.code = @ \o is]

PatchAll(cg, list, target) ==
    [cg EXCEPT !.code = [i \in DOMAIN cg.code |->
        IF i \in ToSet(list) THEN [cg.code[i] EXCEPT ![2] = target]
        ELSE cg.code[i]]]

Patch(cg, at, target) == PatchAll(cg, <<at>>, target)

\* The first match, the outermost declaration; 0 for -1, not found.
FindLocal(locals, name) ==
    LET hit == SelectInSeq(locals, LAMBDA v : v[1] = name)
    IN  IF hit = 0 THEN 0 ELSE locals[hit][2]

AddLocal(cg, name) ==
    [cg EXCEPT !.off = @ - 1, !.locals = Append(@, <<name, cg.off - 1>>)]

-----------------------------------------------------------------------------
(* Expressions leave their value in rax. Nothing in them is patched but    *)
(* calls, which name their function until Linked knows its address.        *)

\* Registers of the arguments, and the ones the callee stores: they differ.
ArgRegs == <<"rdi", "rsi", "rdx", "r9", "r8", "rcx">>

ParamRegs == <<"rdi", "rsi", "rdx", "rcx", "r8", "r9">>

RECURSIVE GenExpr(_, _), GenArgs(_, _, _)

\* Right to left, each into its register, or above the stack pointer.
GenArgs(locals, args, i) ==
    IF i = 0 THEN <<>>
    ELSE GenExpr(locals, args[i])
         \o <<IF i <= 6 THEN <<"mov", ArgRegs[i]>> ELSE <<"arg", i - 7>>>>
         \o GenArgs(locals, args, i - 1)

GenCall(locals, e) ==
    LET n == Len(e.args)
        more == n - 6
    IN  (IF more > 0 THEN <<<<"sub", more>>>> ELSE <<>>)
        \o GenArgs(locals, e.args, n) \o <<<<"zero">>, <<"call", e.name>>>>
        \o (IF more > 0 THEN <<<<"sub", -more>>>> ELSE <<>>)

\* An assignment to anything but a known name only evaluates its right side.
GenAssign(locals, e) ==
    LET off == IF e.l.k = "id" THEN FindLocal(locals, e.l.name) ELSE 0
    IN  GenExpr(locals, e.r)
        \o (IF off = 0 THEN <<>> ELSE <<<<"store", "rax", off>>>>)

GenName(locals, instr, name) ==
    LET off == FindLocal(locals, name)
    IN  <<IF off = 0 THEN <<"zero">> ELSE <<instr, off>>>>

\* One operand waits on the stack while the other is computed.
GenTwo(locals, a, b, instr) ==
    GenExpr(locals, a) \o <<<<"push">>>> \o GenExpr(locals, b)
    \o <<<<"pop">>, instr>>

GenExpr(locals, e) ==
    CASE e.k = "nil" -> <<>>
      [] e.k = "num" -> <<<<"imm", e.val>>>>
      [] e.k = "id" -> GenName(locals, "load", e.name)
      [] e.k = "bin" -> GenTwo(locals, e.r, e.l, <<"op", e.op>>)
      [] e.k = "index" -> GenTwo(locals, e.l, e.r, <<"index">>)
      [] e.k = "un" ->
            IF e.op # "&" THEN GenExpr(locals, e.l) \o <<<<"unary", e.op>>>>
            ELSE IF e.l.k = "id" THEN GenName(locals, "lea", e.l.name)
            ELSE <<<<"zero">>>>
      [] e.k = "member" -> GenExpr(locals, e.l)
      [] e.k = "call" -> GenCall(locals, e)
      [] e.k = "assign" -> GenAssign(locals, e)

\* An expression, or zero where the source has none.
ExprOrZero(locals, e) == IF e = Nil THEN <<<<"zero">>>> ELSE GenExpr(locals, e)

-----------------------------------------------------------------------------
(* Statements.                                                             *)

RECURSIVE GenStmt(_, _), GenStmts(_, _)

GenStmts(cg, ss) ==
    IF ss = <<>> THEN cg ELSE GenStmts(GenStmt(cg, Head(ss)), Tail(ss))

GenBlock(cg, s) ==
    LET c == GenStmts(cg, s.ss)
    IN  [c EXCEPT !.locals = cg.locals, !.off = cg.off]

GenVarDecl(cg, s) ==
    LET c == AddLocal(cg, s.name)
    IN  Emit(c, ExprOrZero(c.locals, s.l) \o <<<<"store", "rax", c.off>>>>)

GenIf(cg, s) ==
    LET a == Emit(cg, GenExpr(cg.locals, s.c) \o <<<<"je", 0>>>>)
        b == GenStmt(a, s.a)
        c == Emit(b, <<<<"jmp", 0>>>>)
        d == GenStmt(Patch(c, Size(a), Size(c)), s.b)
    IN  IF s.b = Nil THEN Patch(b, Size(a), Size(b))
        ELSE Patch(d, Size(c), Size(d))

OpenLoop(cg, target) ==
    [cg EXCEPT !.loops = Append(@, [brk |-> Len(cg.brk), cont |-> Len(cg.cont),
                                    target |-> target])]

\* patch_continues, and patch_breaks with the exit of the condition.
PatchContinues(cg, target) ==
    LET from == Last(cg.loops).cont
    IN  [PatchAll(cg, SubSeq(cg.cont, from + 1, Len(cg.cont)), target)
            EXCEPT !.cont = SubSeq(@, 1, from)]

CloseLoopTakesOuter(cg, exit) ==
    [PatchAll(cg, Append(cg.brk, exit), Size(cg))
        EXCEPT !.brk = <<>>, !.loops = Front(@)]

CloseLoop(cg, exit) ==
    LET from == Last(cg.loops).brk
        list == SubSeq(cg.brk, from + 1, Len(cg.brk))
    IN  [PatchAll(cg, Append(list, exit), Size(cg))
            EXCEPT !.brk = SubSeq(@, 1, from), !.loops = Front(@)]

GenWhile(cg, s) ==
    LET a == OpenLoop(cg, Size(cg))
        b == Emit(a, GenExpr(a.locals, s.c) \o <<<<"je", 0>>>>)
        c == Emit(GenStmt(b, s.b), <<<<"jmp", Size(cg)>>>>)
    IN  CloseLoop(PatchContinues(c, Size(cg)), Size(b))

\* continue jumps to the step, which is only emitted after the body.
GenFor(cg, s) ==
    LET i == GenStmt(cg, s.i)
        a == OpenLoop(i, -1)
        b == Emit(a, GenExpr(a.locals, IF s.c = Nil THEN Num(1) ELSE s.c)
                     \o <<<<"je", 0>>>>)
        c == GenStmt(b, s.b)
        d == PatchContinues(c, IF s.s = Nil THEN Size(i) ELSE Size(c))
    IN  CloseLoop(Emit(d, GenExpr(i.locals, s.s) \o <<<<"jmp", Size(i)>>>>), Size(b))

GenBreak(cg) ==
    LET c == Emit(cg, <<<<"jmp", 0>>>>)
    IN  IF cg.loops = <<>> THEN cg ELSE [c EXCEPT !.brk = Append(@, Size(c))]

GenContinue(cg) ==
    LET c == Emit(cg, <<<<"jmp", 0>>>>)
        target == Last(cg.loops).target
    IN  IF cg.loops = <<>> THEN cg
        ELSE IF target >= 0 THEN Patch(c, Size(c), target)
        ELSE [c EXCEPT !.cont = Append(@, Size(c))]

GenReturn(cg, s) ==
    Emit(cg, ExprOrZero(cg.locals, s.l) \o <<<<"leave">>>>)

GenStmt(cg, s) ==
    CASE s.k = "decl" -> GenVarDecl(cg, s)
      [] s.k = "if" -> GenIf(cg, s)
      [] s.k = "while" -> GenWhile(cg, s)
      [] s.k = "for" -> GenFor(cg, s)
      [] s.k = "brk" -> GenBreak(cg)
      [] s.k = "cont" -> GenContinue(cg)
      [] s.k = "ret" -> GenReturn(cg, s)
      [] s.k = "block" -> GenBlock(cg, s)
      [] s.k = "expr" -> Emit(cg, GenExpr(cg.locals, s.l))
      [] OTHER -> cg

\* The frame holds the parameters; what the body declares lies below it.
GenFunc(cg, f) ==
    LET a == FoldLeft(LAMBDA c, name : AddLocal(c, name),
                      [cg EXCEPT !.locals = <<>>, !.off = 0,
                                 !.funcs = Append(@, <<f.name, Size(cg)>>)],
                      Reverse(f.params))
        n == Len(f.params)
        kept == IF n < 6 THEN n ELSE 6
        b == Emit(a, <<<<"enter">>>>
                     \o [i \in 1 .. kept |-> <<"store", ParamRegs[i],
                                               FindLocal(a.locals, f.params[i])>>]
                     \o (IF n > 0 THEN <<<<"sub", n>>>> ELSE <<>>))
    IN  Emit(GenBlock(b, f.body), <<<<"zero">>, <<"leave">>>>)

\* codegen_generate: the startup stub, then the functions one after another,
\* then the calls.
Stub == Emit(CodegenInit, <<<<"args">>, <<"call", "main">>, <<"exit">>>>)

\* A call goes to the first function of its name, at once or, if that one is
\* still to come, by pending_calls; to the next instruction, a distance of 0, if
\* there is none.
Linked(cg) ==
    LET target(at) ==
          LET f == SelectInSeq(cg.funcs, LAMBDA g : g[1] = cg.code[at][2])
          IN  IF f = 0 THEN at ELSE cg.funcs[f][2]
    IN  [i \in DOMAIN cg.code |->
           IF cg.code[i][1] = "call" THEN <<"call", target(i)>> ELSE cg.code[i]]
=============================================================================
