------------------------------ MODULE CcParse -------------------------------
(***************************************************************************)
(* The parser of apps/cc: recursive descent over the tokens of a program.  *)
(* A token is a string, the text lexer_next cuts out. A parse is           *)
(* [t |-> tokens left, n |-> node, err |-> had_error]: after the first      *)
(* error every parse function returns at once.                             *)
(***************************************************************************)
EXTENDS Integers, Sequences, SequencesExt

\* What lexer_next tells apart by its first character.
NumVal == [c \in {"0", "1", "2", "3"} |->
             IF c = "0" THEN 0 ELSE IF c = "1" THEN 1 ELSE IF c = "2" THEN 2
             ELSE 3]

Types == {"int", "void", "char", "long", "short", "unsigned"}

Idents == {"x", "y", "z", "t", "f", "main", "argc", "argv"}

\* The node of an absent part, a NULL pointer.
Nil == [k |-> "nil"]

\* ast_number .. ast_func_def
Num(v) == [k |-> "num", val |-> v]
Id(s) == [k |-> "id", name |-> s]
Bin(op, l, r) == [k |-> "bin", op |-> op, l |-> l, r |-> r]
Un(op, l) == [k |-> "un", op |-> op, l |-> l]
Set(l, r) == [k |-> "assign", l |-> l, r |-> r]
Call(f, args) == [k |-> "call", name |-> f, args |-> args]
Decl(s, e) == [k |-> "decl", name |-> s, l |-> e]
If(c, a, b) == [k |-> "if", c |-> c, a |-> a, b |-> b]
While(c, b) == [k |-> "while", c |-> c, b |-> b]
For(i, c, s, b) == [k |-> "for", i |-> i, c |-> c, s |-> s, b |-> b]
Ret(e) == [k |-> "ret", l |-> e]
Brk == [k |-> "brk"]
Cont == [k |-> "cont"]
Block(ss) == [k |-> "block", ss |-> ss]
Expr(e) == [k |-> "expr", l |-> e]
Func(f, ps, b) == [name |-> f, params |-> ps, body |-> b]

-----------------------------------------------------------------------------
(* The token stream.                                                       *)

Cur(p) == IF p.t = <<>> THEN "eof" ELSE Head(p.t)

Advance(p) == IF p.t = <<>> THEN p ELSE [p EXCEPT !.t = Tail(@)]

Error(p) == [p EXCEPT !.err = TRUE]

Expect(p, tok) == IF Cur(p) = tok THEN Advance(p) ELSE Error(p)

Node(p, n) == [p EXCEPT !.n = n]

\* skip_type_specifier and the stars of a pointer.
SkipType(p) ==
    LET a == IF Cur(p) = "unsigned" THEN Advance(p) ELSE p
        b == IF Cur(a) \in Types THEN Advance(a) ELSE a
        stars == CHOOSE i \in 0 .. Len(b.t) :
                    /\ \A j \in 1 .. i : b.t[j] = "*"
                    /\ i = Len(b.t) \/ b.t[i + 1] # "*"
    IN  [b EXCEPT !.t = SubSeq(@, stars + 1, Len(@))]

-----------------------------------------------------------------------------
(* Expressions. The six binary levels, the tightest first, are the         *)
(* functions parse_multiplicative .. parse_logic_or.                       *)

Levels == <<{"*", "/", "%"}, {"+", "-"}, {"<", ">", "<=", ">="},
            {"==", "!="}, {"&&"}, {"||"}>>

Compound == [o \in {"+=", "-=", "*=", "/="} |->
               IF o = "+=" THEN "+" ELSE IF o = "-=" THEN "-"
               ELSE IF o = "*=" THEN "*" ELSE "/"]

RECURSIVE ParseExpr(_), ParseArgs(_, _), ParseUnary(_), ParseLevel(_, _),
          ParseRest(_, _), ParsePostfix(_), ParseStmt(_), ParseStmts(_, _)

ParseArgs(p, args) ==
    LET e == ParseExpr(p)
        all == Append(args, e.n)
    IN  IF e.err THEN Node(e, all)
        ELSE IF Cur(e) = "," THEN ParseArgs(Advance(e), all)
        ELSE Node(e, all)

ParsePrimary(p) ==
    LET c == Cur(p)
        q == Advance(p)
        a == IF Cur(Advance(q)) = ")" THEN Node(Advance(q), <<>>)
             ELSE ParseArgs(Advance(q), <<>>)
    IN  CASE p.err -> Node(p, Nil)
          [] ~p.err /\ c \in DOMAIN NumVal -> Node(q, Num(NumVal[c]))
          [] ~p.err /\ c \in Idents /\ Cur(q) = "(" -> Node(Expect(a, ")"), Call(c, a.n))
          [] ~p.err /\ c \in Idents /\ Cur(q) # "(" -> Node(q, Id(c))
          [] ~p.err /\ c = "(" -> Expect(ParseExpr(q), ")")
          [] OTHER -> Node(Error(p), Nil)

\* What follows a primary: an index or a field.
ParsePostfix(p) ==
    LET q == Advance(p)
        i == ParseExpr(q)
    IN  CASE ~p.err /\ Cur(p) = "[" ->
               ParsePostfix(Node(Expect(i, "]"), [k |-> "index", l |-> p.n, r |-> i.n]))
          [] ~p.err /\ Cur(p) \in {".", "->"} ->
               IF Cur(q) \in Idents
               THEN ParsePostfix(Node(Advance(q), [k |-> "member", l |-> p.n]))
               ELSE Node(Error(q), p.n)
          [] OTHER -> p

ParseUnary(p) ==
    LET u == ParseUnary(Advance(p))
    IN  IF p.err THEN Node(p, Nil)
        ELSE IF Cur(p) \in {"-", "!", "&", "*"} THEN Node(u, Un(Cur(p), u.n))
        ELSE ParsePostfix(ParsePrimary(p))

\* One level: an operand of the level below, then as many as the operators
\* of this level join to it, from the left.
ParseLevel(i, p) ==
    ParseRest(i, IF i = 1 THEN ParseUnary(p) ELSE ParseLevel(i - 1, p))

ParseRest(i, p) ==
    LET r == IF i = 1 THEN ParseUnary(Advance(p)) ELSE ParseLevel(i - 1, Advance(p))
    IN  IF p.err \/ Cur(p) \notin Levels[i] THEN p
        ELSE ParseRest(i, Node(r, Bin(Cur(p), p.n, r.n)))

\* parse_assignment
ParseExpr(p) ==
    LET assign(l, r) ==
          Node(r, Set(l.n, IF Cur(l) = "=" THEN r.n
                           ELSE Bin(Compound[Cur(l)], l.n, r.n)))
        after(l) == IF ~l.err /\ Cur(l) \in DOMAIN Compound \union {"="}
                    THEN assign(l, ParseExpr(Advance(l))) ELSE l
    IN  IF p.err THEN Node(p, Nil) ELSE after(ParseLevel(6, p))

-----------------------------------------------------------------------------
(* Statements.                                                             *)

\* An expression that may be missing before the token that ends it.
ParseOptional(p, end) ==
    Expect(IF Cur(p) = end THEN Node(p, Nil) ELSE ParseExpr(p), end)

ParseVarDecl(p) ==
    LET a == SkipType(p)
        b == Advance(a)
        after(e) == Node(Expect(e, ";"), Decl(Cur(a), e.n))
    IN  IF Cur(a) \in Idents
        THEN after(IF Cur(b) = "=" THEN ParseExpr(Advance(b)) ELSE Node(b, Nil))
        ELSE Node(Error(a), Nil)

\* The parenthesis and the condition of if and while.
ParseCond(p) == Expect(ParseExpr(Expect(Advance(p), "(")), ")")

ParseIf(p) ==
    LET else(c, a, b) == Node(b, If(c.n, a.n, b.n))
        then(c, a) == else(c, a, IF Cur(a) = "else" THEN ParseStmt(Advance(a))
                                 ELSE Node(a, Nil))
        cond(c) == then(c, ParseStmt(c))
    IN  cond(ParseCond(p))

ParseWhile(p) ==
    LET body(c, b) == Node(b, While(c.n, b.n))
        cond(c) == body(c, ParseStmt(c))
    IN  cond(ParseCond(p))

ParseForInit(o) ==
    LET expr(e) == IF Cur(o) = ";" THEN e ELSE Node(e, Expr(e.n))
    IN  IF Cur(o) \in Types THEN ParseVarDecl(o) ELSE expr(ParseOptional(o, ";"))

ParseFor(p) ==
    LET body(i, c, s, b) == Node(b, For(i.n, c.n, s.n, b.n))
        step(i, c, s) == body(i, c, s, ParseStmt(s))
        cond(i, c) == step(i, c, ParseOptional(c, ")"))
        init(i) == cond(i, ParseOptional(i, ";"))
    IN  init(ParseForInit(Expect(Advance(p), "(")))

ParseStmts(p, ss) ==
    LET next(s, all) == IF s.err THEN Node(s, Block(all)) ELSE ParseStmts(s, all)
        after(s) == next(s, IF s.n = Nil THEN ss ELSE Append(ss, s.n))
    IN  IF Cur(p) \in {"}", "eof"} THEN Node(p, Block(ss)) ELSE after(ParseStmt(p))

ParseBlock(p) == Expect(ParseStmts(Expect(p, "{"), <<>>), "}")

ParseStmt(p) ==
    LET c == Cur(p)
        q == Advance(p)
        return(e) == Node(e, Ret(e.n))
        simple(x) == Node(Expect(x, ";"), Expr(x.n))
    IN  IF p.err THEN Node(p, Nil)
        ELSE CASE c \in Types -> ParseVarDecl(p)
               [] c = "if" -> ParseIf(p)
               [] c = "while" -> ParseWhile(p)
               [] c = "for" -> ParseFor(p)
               [] c = "return" -> return(ParseOptional(q, ";"))
               [] c = "break" -> Node(Expect(q, ";"), Brk)
               [] c = "continue" -> Node(Expect(q, ";"), Cont)
               [] c = "{" -> ParseBlock(p)
               [] c = ";" -> Node(q, Nil)
               [] OTHER -> simple(ParseExpr(p))

-----------------------------------------------------------------------------
(* Functions.                                                              *)

RECURSIVE ParseParams(_, _)

\* p.n is the parameters' names.
ParseParams(p, ps) ==
    LET a == SkipType(p)
        all == Append(ps, Cur(a))
    IN  IF Cur(p) = "void" /\ ps = <<>>
        THEN IF Cur(Advance(p)) = ")" THEN Node(Advance(p), ps)
             ELSE Node(Error(Advance(p)), ps)
        ELSE IF Cur(a) \notin Idents THEN Node(Error(a), ps)
        ELSE IF Cur(Advance(a)) = "," THEN ParseParams(Advance(Advance(a)), all)
        ELSE Node(Advance(a), all)

ParseFuncDef(p) ==
    LET a == SkipType(p)
        o == Expect(Advance(a), "(")
        body(ps, b) == Node(b, Func(Cur(a), ps.n, b.n))
        params(ps) == body(ps, ParseBlock(Expect(ps, ")")))
    IN  IF Cur(a) \notin Idents THEN Error(a)
        ELSE params(IF Cur(o) = ")" THEN Node(o, <<>>) ELSE ParseParams(o, <<>>))

\* parser_init, and one round of parser_parse: a program is a sequence of
\* functions. n is Nil when the round leaves no function.
ParserInit(tokens) == [t |-> tokens, n |-> Nil, err |-> FALSE]

ParseItem(p) ==
    IF Cur(p) \in Types THEN ParseFuncDef(p)
    ELSE IF Cur(p) = ";" THEN Node(Advance(p), Nil)
    ELSE Node(Error(p), Nil)
=============================================================================
