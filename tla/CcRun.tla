------------------------------- MODULE CcRun --------------------------------
(***************************************************************************)
(* Compiled programs running: the user's processor steps through the code  *)
(* Generate emits for what Parse reads, and a C program's own meaning says *)
(* what it has to return.                                                  *)
(*                                                                         *)
(* Registers hold integers, which the bounded programs keep far below any  *)
(* width. An interrupt does not touch this stack: it is taken on the       *)
(* kernel's.                                                               *)
(***************************************************************************)
EXTENDS CcGen

CONSTANTS StackDepth,   \* words of stack a run may use
          Fuel,         \* statements and calls a source program may take
          Sources,      \* the programs, as values Source gives a tree to
          Argcs         \* values of argc

VARIABLES parser, \* cc's parser, what is left of the program's text
          units,  \* functions parsed and not translated yet
          gen,    \* cc's code generator
          code,   \* the program being run
          cpu,    \* its registers; done once it has called exit
          mem,    \* its stack
          want    \* what the source program returns

cvars == <<parser, units, gen, code, cpu, mem, want>>

-----------------------------------------------------------------------------
(* The tokens of a tree: parentheses only where C needs them. Level 0 is a *)
(* primary, 1 to 6 are the binary levels, 7 is an assignment.              *)

LevelOf(e) ==
    IF e.k = "bin" THEN CHOOSE i \in 1 .. 6 : e.op \in Levels[i]
    ELSE IF e.k = "assign" THEN 7 ELSE 0

Digit(v) == CHOOSE c \in DOMAIN NumVal : NumVal[c] = v

RECURSIVE Show(_, _), ShowStmt(_), ShowList(_, _)

ShowList(es, i) ==
    IF i > Len(es) THEN <<>>
    ELSE (IF i > 1 THEN <<",">> ELSE <<>>) \o Show(es[i], 7) \o ShowList(es, i + 1)

Show(e, max) ==
    LET l == LevelOf(e)
        s == CASE e.k = "nil" -> <<>>
               [] e.k = "num" -> <<Digit(e.val)>>
               [] e.k = "id" -> <<e.name>>
               [] e.k = "un" -> <<e.op>> \o Show(e.l, 0)
               [] e.k = "call" -> <<e.name, "(">> \o ShowList(e.args, 1) \o <<")">>
               [] e.k = "bin" -> Show(e.l, l) \o <<e.op>> \o Show(e.r, l - 1)
               [] e.k = "assign" -> Show(e.l, 0) \o <<"=">> \o Show(e.r, 7)
    IN  IF l > max THEN <<"(">> \o s \o <<")">> ELSE s

ShowStmt(s) ==
    CASE s.k = "nil" -> <<";">>
      [] s.k = "decl" -> <<"int", s.name>>
                         \o (IF s.l = Nil THEN <<>> ELSE <<"=">> \o Show(s.l, 7))
                         \o <<";">>
      [] s.k = "if" -> <<"if", "(">> \o Show(s.c, 7) \o <<")">> \o ShowStmt(s.a)
                       \o (IF s.b = Nil THEN <<>> ELSE <<"else">> \o ShowStmt(s.b))
      [] s.k = "while" -> <<"while", "(">> \o Show(s.c, 7) \o <<")">> \o ShowStmt(s.b)
      [] s.k = "for" -> <<"for", "(">> \o Show(s.i, 7) \o <<";">> \o Show(s.c, 7)
                        \o <<";">> \o Show(s.s, 7) \o <<")">> \o ShowStmt(s.b)
      [] s.k = "ret" -> <<"return">> \o Show(s.l, 7) \o <<";">>
      [] s.k = "brk" -> <<"break", ";">>
      [] s.k = "cont" -> <<"continue", ";">>
      [] s.k = "block" -> <<"{">> \o FoldLeft(LAMBDA t, x : t \o ShowStmt(x),
                                              <<>>, s.ss) \o <<"}">>
      [] s.k = "expr" -> Show(s.l, 7) \o <<";">>

ShowParams(ps) ==
    FoldLeft(LAMBDA t, i : t \o (IF i > 1 THEN <<",">> ELSE <<>>) \o <<"int", ps[i]>>,
             <<>>, [i \in DOMAIN ps |-> i])

ShowFunc(f) ==
    <<"int", f.name, "(">> \o ShowParams(f.params) \o <<")">> \o ShowStmt(f.body)

ShowProgram(fs) == FoldLeft(LAMBDA t, f : t \o ShowFunc(f), <<>>, fs)

-----------------------------------------------------------------------------
(* What a C program means. A result is [st |-> how the statement ended,    *)
(* env |-> the variables, v |-> the value, fuel |-> what is left]; st is   *)
(* "undef" for a division by zero, "out" when the fuel is gone.            *)

Magnitude(n) == IF n < 0 THEN -n ELSE n

Quot(a, b) == LET q == Magnitude(a) \div Magnitude(b) IN IF (a < 0) = (b < 0) THEN q ELSE -q

Bit(b) == IF b THEN 1 ELSE 0

Arith(op, a, b) ==
    CASE op = "+" -> a + b
      [] op = "-" -> a - b
      [] op = "*" -> a * b
      [] op = "/" -> Quot(a, b)
      [] op = "%" -> a - b * Quot(a, b)
      [] op = "<" -> Bit(a < b)
      [] op = ">" -> Bit(a > b)
      [] op = "<=" -> Bit(a <= b)
      [] op = ">=" -> Bit(a >= b)
      [] op = "==" -> Bit(a = b)
      [] op = "!=" -> Bit(a # b)
      [] op = "&&" -> Bit(a # 0 /\ b # 0)
      [] op = "||" -> Bit(a # 0 \/ b # 0)

RECURSIVE Eval(_, _, _), EvalArgs(_, _, _, _), Exec(_, _, _), ExecAll(_, _, _),
          Loop(_, _, _)

EvalArgs(fs, args, r, vs) ==
    LET x == Eval(fs, args[1], r)
    IN  IF args = <<>> \/ r.st # "go" THEN [r EXCEPT !.v = vs]
        ELSE EvalArgs(fs, Tail(args), x, Append(vs, x.v))

Eval(fs, e, r) ==
    CASE r.st # "go" -> r
      [] e.k = "num" -> [r EXCEPT !.v = e.val]
      [] e.k = "id" -> [r EXCEPT !.v = r.env[e.name]]
      [] e.k = "un" ->
            LET x == Eval(fs, e.l, r)
            IN  [x EXCEPT !.v = IF e.op = "-" THEN -@ ELSE Bit(@ = 0)]
      [] e.k = "bin" ->
            LET a == Eval(fs, e.l, r)
                b == Eval(fs, e.r, a)
            IN  IF b.st # "go" THEN b
                ELSE IF e.op \in {"/", "%"} /\ b.v = 0 THEN [b EXCEPT !.st = "undef"]
                ELSE [b EXCEPT !.v = Arith(e.op, a.v, b.v)]
      [] e.k = "assign" ->
            LET x == Eval(fs, e.r, r) IN [x EXCEPT !.env[e.l.name] = x.v]
      [] e.k = "call" ->
            LET a == EvalArgs(fs, e.args, r, <<>>)
                f == fs[SelectInSeq(fs, LAMBDA g : g.name = e.name)]
                env == [s \in Idents |->
                          IF s \in ToSet(f.params)
                          THEN a.v[SelectInSeq(f.params, LAMBDA p : p = s)] ELSE 0]
                b == Exec(fs, f.body, [a EXCEPT !.env = env, !.fuel = @ - 1])
            IN  IF a.st # "go" THEN a
                ELSE [b EXCEPT !.env = a.env,
                               !.v = IF b.st = "ret" THEN @ ELSE 0,
                               !.st = IF @ = "ret" THEN "go" ELSE @]

ExecAll(fs, ss, r) ==
    IF ss = <<>> \/ r.st # "go" THEN r ELSE ExecAll(fs, Tail(ss), Exec(fs, Head(ss), r))

\* A loop, from the test of its condition on.
Loop(fs, s, r) ==
    LET c == IF s.c = Nil THEN [r EXCEPT !.v = 1] ELSE Eval(fs, s.c, r)
        b == Exec(fs, s.b, [c EXCEPT !.fuel = @ - 1])
        d == [b EXCEPT !.st = IF @ = "cont" THEN "go" ELSE @]
        t == IF s.k = "for" /\ s.s # Nil THEN Eval(fs, s.s, d) ELSE d
    IN  IF c.st # "go" \/ c.v = 0 THEN c
        ELSE IF d.st = "brk" THEN [d EXCEPT !.st = "go"]
        ELSE IF d.st # "go" THEN d
        ELSE Loop(fs, s, t)

Exec(fs, s, r) ==
    CASE r.fuel = 0 -> [r EXCEPT !.st = "out"]
      [] s.k = "nil" -> r
      [] s.k = "decl" ->
            LET x == IF s.l = Nil THEN [r EXCEPT !.v = 0] ELSE Eval(fs, s.l, r)
            IN  [x EXCEPT !.env[s.name] = x.v]
      [] s.k = "if" ->
            LET c == Eval(fs, s.c, r)
            IN  IF c.st # "go" THEN c
                ELSE IF c.v # 0 THEN Exec(fs, s.a, c) ELSE Exec(fs, s.b, c)
      [] s.k = "while" -> Loop(fs, s, r)
      [] s.k = "for" ->
            Loop(fs, s, IF s.i = Nil THEN r ELSE Eval(fs, s.i, r))
      [] s.k = "ret" -> LET x == Eval(fs, s.l, r)
                        IN  [x EXCEPT !.st = IF @ = "go" THEN "ret" ELSE @]
      [] s.k = "brk" -> [r EXCEPT !.st = "brk"]
      [] s.k = "cont" -> [r EXCEPT !.st = "cont"]
      [] s.k = "block" -> ExecAll(fs, s.ss, r)
      [] s.k = "expr" -> Eval(fs, s.l, r)

Meaning(fs, argc) ==
    Eval(fs, Call("main", <<Num(argc)>>),
         [st |-> "go", env |-> [s \in Idents |-> 0], v |-> 0, fuel |-> Fuel])
-----------------------------------------------------------------------------
(* The programs. main passes argc and two constants to f, before or after  *)
(* f is defined; f is one of the families below.                           *)

X == Id("x")
Y == Id("y")
Z == Id("z")

Minus(v, n) == Expr(Set(v, Bin("-", v, Num(n))))

\* What a loop body may contain.
Piece(p) ==
    CASE p = "nop" -> Nil
      [] p = "brk" -> If(Bin("==", X, Num(1)), Brk, Nil)
      [] p = "cont" -> If(Bin("<", X, Num(2)), Cont, Expr(Set(Z, Bin("+", Z, X))))
      [] p = "ret" -> If(Bin(">=", Z, Num(3)), Ret(Z), Nil)
      [] p = "for" -> For(Set(Y, Num(0)), Bin("<", Y, Num(3)),
                          Set(Y, Bin("+", Y, Num(1))),
                          If(Bin("==", Y, X), Cont, Expr(Set(Z, Bin("+", Z, Num(1))))))
      [] p = "while" -> While(Num(1), If(Bin(">", Z, X), Brk,
                                         Expr(Set(Z, Bin("+", Z, Num(2))))))

Body(s) ==
    LET two == Block(<<Minus(X, 1), Piece(s.a), Piece(s.b),
                       Expr(Set(Z, Bin("+", Z, Num(3))))>>)
        e == IF s.n = 1 THEN Bin(s.b, Bin(s.a, X, Y), Num(2))
             ELSE Bin(s.a, X, Bin(s.b, Y, Num(2)))
        rec == Call("f", <<Bin("-", X, Num(1)), Bin("+", Y, X), Z>>)
        t == Id("t")
    IN  CASE s.fam = "expr" -> <<Ret(e)>>
          [] s.fam = "not" -> <<If(Un("!", e), Ret(Num(1)), Ret(Un("-", Y)))>>
          [] s.fam = "if" -> <<If(e, Ret(Num(1)), Nil)>>
          [] s.fam = "while" -> <<While(X, two), Ret(Z)>>
          [] s.fam = "for" ->
                <<IF s.n = 1
                  THEN For(Set(Y, Num(0)), Bin("<", Y, X),
                           Set(Y, Bin("+", Y, Num(1))),
                           Block(<<Piece(s.a), Piece(s.b), Minus(Z, 1)>>))
                  ELSE IF s.n = 2 THEN For(Nil, X, Nil, two)
                  ELSE For(Nil, Nil, Minus(X, 1).l,
                           Block(<<If(Bin("<", X, Num(1)), Brk, Nil),
                                   Piece(s.a), Piece(s.b)>>)),
                  Ret(Z)>>
          [] s.fam = "call" ->
                <<If(Bin("<", X, Num(1)), Ret(Y), Nil),
                  Ret(IF s.n = 1 THEN Bin(s.a, rec, X) ELSE Bin(s.a, X, rec))>>
          [] s.fam = "decl" ->
                <<Decl("t", X), Expr(Set(Y, t)), Decl("main", Nil),
                  Ret(Bin(s.a, Y, Num(2)))>>

Source(s) ==
    LET f == Func("f", <<"x", "y", "z">>, Block(Body(s)))
        main == Func("main", <<"argc">>,
                     Block(<<Ret(Call("f", <<Id("argc"), Num(2), Num(0)>>))>>))
    IN  IF s.first = "f" THEN <<f, main>> ELSE <<main, f>>

-----------------------------------------------------------------------------
(* The processor. pc counts the instructions before the next one.          *)

Regs0 == [pc |-> 0, rax |-> 0, rcx |-> 0, rdx |-> 0, rdi |-> 0, rsi |-> 0,
          r8 |-> 0, r9 |-> 0, rsp |-> 0, rbp |-> 0, done |-> FALSE]

CInit ==
    \E s \in Sources, argc \in Argcs :
       LET m == Meaning(Source(s), argc)
       IN  /\ m.st = "go"
           /\ want = m.v
           /\ parser = ParserInit(ShowProgram(Source(s)))
           /\ units = <<>>
           /\ gen = Stub
           /\ code = <<>>
           /\ cpu = Regs0
           /\ mem = [a \in -StackDepth .. 0 |-> IF a = 0 THEN argc ELSE 0]

\* parser_parse, one function of the program at a time.
ParseFunc ==
    /\ Cur(parser) # "eof" /\ ~parser.err
    /\ parser' = ParseItem(parser)
    /\ units' = IF parser'.n = Nil THEN units ELSE Append(units, parser'.n)
    /\ UNCHANGED <<gen, code, cpu, mem, want>>

\* codegen_generate, one function at a time, unless the parser had an error.
TranslateFunc ==
    /\ Cur(parser) = "eof" /\ ~parser.err /\ units # <<>>
    /\ gen' = GenFunc(gen, Head(units))
    /\ units' = Tail(units)
    /\ UNCHANGED <<parser, code, cpu, mem, want>>

Link ==
    /\ Cur(parser) = "eof" /\ ~parser.err /\ units = <<>> /\ gen.code # <<>>
    /\ code' = Linked(gen)
    /\ gen' = CodegenInit
    /\ UNCHANGED <<parser, units, cpu, mem, want>>

Instr == code[cpu.pc + 1]

At(names) == ~cpu.done /\ cpu.pc < Len(code) /\ Instr[1] \in names

\* The next instruction, with the registers changed.
Go(c) == cpu' = [c EXCEPT !.pc = @ + 1] /\ UNCHANGED <<parser, units, gen, code, want>>

Move ==
    /\ At({"imm", "zero", "load", "lea", "mov", "args", "sub"})
    /\ LET i == Instr
       IN  Go(CASE i[1] = "imm" -> [cpu EXCEPT !.rax = i[2]]
                [] i[1] = "zero" -> [cpu EXCEPT !.rax = 0]
                [] i[1] = "load" -> [cpu EXCEPT !.rax = mem[cpu.rbp + i[2]]]
                [] i[1] = "lea" -> [cpu EXCEPT !.rax = cpu.rbp + i[2]]
                [] i[1] = "mov" -> [cpu EXCEPT ![i[2]] = cpu.rax]
                [] i[1] = "args" -> [cpu EXCEPT !.rdi = mem[cpu.rsp],
                                                !.rsi = cpu.rsp + 1]
                [] i[1] = "sub" -> [cpu EXCEPT !.rsp = @ - i[2]])
    /\ UNCHANGED mem

Store ==
    /\ At({"store", "arg"})
    /\ Go(cpu)
    /\ mem' = IF Instr[1] = "store" THEN [mem EXCEPT ![cpu.rbp + Instr[3]] = cpu[Instr[2]]]
              ELSE [mem EXCEPT ![cpu.rsp + Instr[2]] = cpu.rax]

Stack ==
    /\ At({"push", "pop", "enter"})
    /\ IF Instr[1] = "pop"
       THEN Go([cpu EXCEPT !.rcx = mem[cpu.rsp], !.rsp = @ + 1]) /\ UNCHANGED mem
       ELSE /\ mem' = [mem EXCEPT ![cpu.rsp - 1] =
                          IF Instr[1] = "push" THEN cpu.rax ELSE cpu.rbp]
            /\ Go([cpu EXCEPT !.rsp = @ - 1,
                              !.rbp = IF Instr[1] = "enter" THEN cpu.rsp - 1 ELSE @])

\* setne writes the low byte only: what is above it stays, and is and-ed or
\* or-ed with it. Values are below 256 in size, so above is 0 or -256.
Logic(op, a, b) ==
    LET up(v) == IF v < 0 THEN -256 ELSE 0
    IN  Arith(op, a, b) + IF op = "&&" THEN IF up(a) = up(b) THEN up(a) ELSE 0
                          ELSE IF up(a) = up(b) THEN up(a) ELSE -256

Compute ==
    /\ At({"op", "unary", "index"})
    /\ LET i == Instr
           a == cpu.rax
           b == cpu.rcx
       IN  Go(IF i[1] = "index" THEN [cpu EXCEPT !.rax = mem[a + 8 * b]]
              ELSE IF i[1] = "unary"
              THEN [cpu EXCEPT !.rax = IF i[2] = "-" THEN -a
                                       ELSE IF i[2] = "!" THEN Bit(a = 0) ELSE mem[a]]
              ELSE IF i[2] \in {"&&", "||"} THEN [cpu EXCEPT !.rax = Logic(i[2], a, b)]
              ELSE [cpu EXCEPT
                      !.rax = Arith(i[2], a, b),
                      !.rdx = IF i[2] = "*" THEN IF a * b < 0 THEN -1 ELSE 0
                              ELSE IF i[2] \in {"/", "%"} THEN Arith("%", a, b) ELSE @])
    /\ UNCHANGED mem

Jump ==
    /\ At({"jmp", "je"})
    /\ cpu' = [cpu EXCEPT !.pc = IF Instr[1] = "jmp" \/ cpu.rax = 0 THEN Instr[2]
                                 ELSE @ + 1]
    /\ UNCHANGED <<parser, units, gen, code, mem, want>>

\* call, and the epilogue: the frame, the saved rbp and the return address go.
CallReturn ==
    /\ At({"call", "leave"})
    /\ IF Instr[1] = "call"
       THEN /\ mem' = [mem EXCEPT ![cpu.rsp - 1] = cpu.pc + 1]
            /\ cpu' = [cpu EXCEPT !.rsp = @ - 1, !.pc = Instr[2]]
       ELSE /\ cpu' = [cpu EXCEPT !.rsp = cpu.rbp + 2, !.rbp = mem[cpu.rbp],
                                  !.pc = mem[cpu.rbp + 1]]
            /\ UNCHANGED mem
    /\ UNCHANGED <<parser, units, gen, code, want>>

Exit ==
    /\ At({"exit"})
    /\ cpu' = [cpu EXCEPT !.done = TRUE, !.rdi = cpu.rax]
    /\ UNCHANGED <<parser, units, gen, code, mem, want>>

CNext ==
    \/ ParseFunc \/ TranslateFunc \/ Link
    \/ Move \/ Store \/ Stack \/ Compute \/ Jump \/ CallReturn \/ Exit

CSpec == CInit /\ [][CNext]_cvars

-----------------------------------------------------------------------------
(* Properties.                                                             *)

\* A program whose variables are the parameters of its functions (or are
\* read before anything is pushed) exits with the value C gives it: its
\* operators bind as C binds them, every break, continue and return goes
\* where it should whatever the nesting, and calls to functions defined
\* earlier or later keep the caller's frame.
RunsAsWritten ==
    /\ ~parser.err
    /\ gen.code # <<>> \/ cpu.done \/ cpu.pc \in 0 .. Len(code) - 1
    /\ cpu.done => cpu.rdi = want
=============================================================================
