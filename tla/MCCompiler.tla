----------------------------- MODULE MCCompiler -----------------------------
(* Programs as trees, their text with no more parentheses than C needs, and  *)
(* what C says they return.                                                  *)
EXTENDS Compiler

\* A tree: a kind, an operator or name, a number and subtrees.
Node(k, w, n, kids) == [k |-> k, w |-> w, n |-> n, kids |-> kids]
Lit(n) == Node("num", "", n, <<>>)
Var(x) == Node("var", x, 0, <<>>)
Bin(op, a, b) == Node("bin", op, 0, <<a, b>>)
Set(op, a, b) == Node("set", op, 0, <<a, b>>)
Pre(op, a) == Node("pre", op, 0, <<a>>)
Post(op, a) == Node("post", op, 0, <<a>>)
At2(a, i) == Node("index", "", 0, <<a, i>>)
CallOf(f, args) == Node("call", f, 0, args)
SizeIs(n, a) == Node("sizeof", "sizeof", n, <<a>>)

Do(e) == Node("do", "", 0, <<e>>)
Let(type, x, stars, e) == Node("let", type, stars, <<Var(x), e>>)
Arr(type, x, n) == Node("arr", type, n, <<Var(x)>>)
IfElse(c, a, b) == Node("if", "", 0, <<c, a, b>>)
Loop(c, b) == Node("while", "", 0, <<c, b>>)
ForLoop(i, c, s, b) == Node("for", "", 0, <<i, c, s, b>>)
Ret(e) == Node("return", "", 0, <<e>>)
Leave(w) == Node(w, w, 0, <<>>)
Seq2(ss) == Node("block", "", 0, ss)

-----------------------------------------------------------------------------
T(t) == <<[t |-> t, n |-> 0, w |-> ""]>>
Level(e) ==
    CASE e.k = "set" -> 1
      [] e.k = "bin" ->
            (CASE e.w = "||" -> 2 [] e.w = "&&" -> 3 [] e.w = "|" -> 4 [] e.w = "^" -> 5 [] e.w = "&" -> 6
               [] e.w \in {"==", "!="} -> 7 [] e.w \in {"<", ">", "<=", ">="} -> 8
               [] e.w \in {"<<", ">>"} -> 9 [] e.w \in {"+", "-"} -> 10 [] OTHER -> 11)
      [] e.k \in {"pre", "sizeof"} -> 12
      [] OTHER -> 13
RECURSIVE Text(_, _), ArgText(_), Code2(_), Codes(_)
Bare(e) ==
    CASE e.k = "num" -> <<[t |-> "num", n |-> e.n, w |-> ""]>>
      [] e.k = "var" -> <<[t |-> "id", n |-> 0, w |-> e.w]>>
      [] e.k = "bin" -> Text(e.kids[1], Level(e)) \o T(e.w) \o Text(e.kids[2], Level(e) + 1)
      [] e.k = "set" -> Text(e.kids[1], 12) \o T(e.w) \o Text(e.kids[2], 1)
      [] e.k \in {"pre", "sizeof"} -> T(e.w) \o Text(e.kids[1], 12)
      [] e.k = "post" -> Text(e.kids[1], 13) \o T(e.w)
      [] e.k = "index" -> Text(e.kids[1], 13) \o T("[") \o Text(e.kids[2], 1) \o T("]")
      [] OTHER -> <<[t |-> "id", n |-> 0, w |-> e.w]>> \o T("(") \o ArgText(e.kids) \o T(")")
Text(e, least) == IF Level(e) < least THEN T("(") \o Bare(e) \o T(")") ELSE Bare(e)
ArgText(as) == IF as = <<>> THEN <<>>
               ELSE Text(as[1], 1) \o (IF Len(as) > 1 THEN T(",") ELSE <<>>) \o ArgText(Tail(as))
Codes(ss) == IF ss = <<>> THEN <<>> ELSE Code2(ss[1]) \o Codes(Tail(ss))
Code2(s) ==
    CASE s.k = "do" -> Text(s.kids[1], 1) \o T(";")
      [] s.k = "let" -> T(s.w) \o FoldLeft(LAMBDA acc, i : acc \o T("*"), <<>>, [i \in 1..s.n |-> i])
                            \o Text(s.kids[1], 13) \o T("=") \o Text(s.kids[2], 1) \o T(";")
      [] s.k = "arr" -> T(s.w) \o Text(s.kids[1], 13) \o T("[") \o Text(Lit(s.n), 13) \o T("]") \o T(";")
      [] s.k = "if" -> T("if") \o T("(") \o Text(s.kids[1], 1) \o T(")") \o Code2(s.kids[2])
                            \o (IF s.kids[3].k = "none" THEN <<>> ELSE T("else") \o Code2(s.kids[3]))
      [] s.k = "while" -> T("while") \o T("(") \o Text(s.kids[1], 1) \o T(")") \o Code2(s.kids[2])
      [] s.k = "for" -> T("for") \o T("(") \o Code2(s.kids[1]) \o Text(s.kids[2], 1) \o T(";")
                            \o Text(s.kids[3], 1) \o T(")") \o Code2(s.kids[4])
      [] s.k = "return" -> T("return") \o Text(s.kids[1], 1) \o T(";")
      [] s.k = "block" -> T("{") \o Codes(s.kids) \o T("}")
      [] OTHER -> T(s.w) \o T(";")

-----------------------------------------------------------------------------
\* C over a store of elements: an address is the number of an element, an
\* array is a row of them, and each knows whether it is a character.  A
\* state has the value of the last expression, the names in scope and how the
\* last statement ended.
RECURSIVE Eval(_, _, _), Addr(_, _, _), EvalArgs(_, _, _), Exec(_, _, _), ExecAll(_, _, _), While2(_, _, _, _)
Give(st, v) == [st EXCEPT !.v = v]
PutAt(st, a, v) ==
    LET w == IF st.m[a].char THEN Narrow(v) ELSE v IN [Give(st, w) EXCEPT !.m[a].v = w]
New(st, x, n, char, array) ==
    [st EXCEPT !.m = @ \o [i \in 1..n |-> [v |-> 0, char |-> char]],
               !.at = [y \in DOMAIN @ \cup {x} |-> IF y = x THEN [a |-> Len(st.m) + 1, array |-> array] ELSE @[y]]]
Addr(e, st, fs) ==
    CASE e.k = "var" -> Give(st, st.at[e.w].a)
      [] e.k = "index" -> LET b == Eval(e.kids[1], st, fs)  i == Eval(e.kids[2], b, fs) IN Give(i, b.v + i.v)
      [] OTHER -> Eval(e.kids[1], st, fs)
Eval(e, st, fs) ==
    CASE e.k \in {"num", "sizeof"} -> Give(st, e.n)
      [] e.k = "var" -> Give(st, IF st.at[e.w].array THEN st.at[e.w].a ELSE st.m[st.at[e.w].a].v)
      [] e.k = "index" \/ (e.k = "pre" /\ e.w = "*") -> LET a == Addr(e, st, fs) IN Give(a, a.m[a.v].v)
      [] e.k = "bin" /\ e.w \in {"&&", "||"} ->
            LET a == Eval(e.kids[1], st, fs) IN
            IF (a.v = 0) = (e.w = "&&") THEN Give(a, Bool(a.v # 0))
            ELSE LET b == Eval(e.kids[2], a, fs) IN Give(b, Bool(b.v # 0))
      [] e.k = "bin" -> LET a == Eval(e.kids[1], st, fs)  b == Eval(e.kids[2], a, fs) IN Give(b, Result(e.w, a.v, b.v))
      [] e.k = "set" ->
            LET a == Addr(e.kids[1], st, fs)
                old == a.m[a.v].v
                b == Eval(e.kids[2], a, fs) IN
            PutAt(b, a.v, IF e.w = "=" THEN b.v ELSE Result(BaseOp(e.w), old, b.v))
      [] e.k = "pre" /\ e.w = "&" -> Addr(e.kids[1], st, fs)
      [] e.k = "post" \/ e.w \in {"++", "--"} ->
            LET a == Addr(e.kids[1], st, fs)
                new == PutAt(a, a.v, a.m[a.v].v + IF e.w = "++" THEN 1 ELSE -1) IN
            IF e.k = "post" THEN Give(new, a.m[a.v].v) ELSE new
      [] e.k = "pre" ->
            LET a == Eval(e.kids[1], st, fs) IN
            Give(a, CASE e.w = "-" -> -a.v [] e.w = "~" -> -a.v - 1 [] e.w = "!" -> Bool(a.v = 0) [] OTHER -> a.v)
      [] OTHER ->
            LET f == fs[e.w]
                args == EvalArgs(e.kids, st, fs)
                placed == [args EXCEPT
                    !.m = @ \o [i \in DOMAIN f.params |->
                        [v |-> IF f.params[i].type = TyChar THEN Narrow(args.vs[i]) ELSE args.vs[i], char |-> f.params[i].type = TyChar]],
                    !.at = [x \in {f.params[i].name : i \in DOMAIN f.params} |->
                        [a |-> Len(args.m) + (CHOOSE i \in DOMAIN f.params : f.params[i].name = x), array |-> FALSE]],
                    !.end = "on", !.vs = <<>>]
                done == Exec(f.tree, placed, fs)
                v == IF done.end = "return" THEN done.v ELSE 0 IN
            [done EXCEPT !.v = IF f.type = TyChar THEN Narrow(v) ELSE v, !.at = st.at, !.end = "on", !.vs = st.vs]
EvalArgs(as, st, fs) ==
    IF as = <<>> THEN [st EXCEPT !.vs = <<>>]
    ELSE LET a == Eval(as[1], st, fs)  r == EvalArgs(Tail(as), a, fs) IN [r EXCEPT !.vs = <<a.v>> \o @]
While2(c, step, body, st0) ==
    LET st == Eval(c, st0.st, st0.fs) IN
    IF st.v = 0 THEN st
    ELSE LET b == Exec(body, st, st0.fs) IN
         CASE b.end = "break" -> [b EXCEPT !.end = "on"]
           [] b.end = "return" -> b
           [] OTHER -> While2(c, step, body, [st |-> Eval(step, [b EXCEPT !.end = "on"], st0.fs), fs |-> st0.fs])
Exec(s, st, fs) ==
    CASE s.k = "do" -> Eval(s.kids[1], st, fs)
      [] s.k = "let" -> LET n == New(st, s.kids[1].w, 1, s.w = "char" /\ s.n = 0, FALSE)
                            e == Eval(s.kids[2], n, fs) IN PutAt(e, n.at[s.kids[1].w].a, e.v)
      [] s.k = "arr" -> New(st, s.kids[1].w, s.n, s.w = "char", TRUE)
      [] s.k = "if" -> LET c == Eval(s.kids[1], st, fs) IN
                       IF c.v # 0 THEN Exec(s.kids[2], c, fs)
                       ELSE IF s.kids[3].k = "none" THEN c ELSE Exec(s.kids[3], c, fs)
      [] s.k = "while" -> While2(s.kids[1], Lit(0), s.kids[2], [st |-> st, fs |-> fs])
      [] s.k = "for" -> [While2(s.kids[2], s.kids[3], s.kids[4], [st |-> Exec(s.kids[1], st, fs), fs |-> fs]) EXCEPT !.at = st.at]
      [] s.k = "return" -> [Eval(s.kids[1], st, fs) EXCEPT !.end = "return"]
      [] s.k = "block" -> [ExecAll(s.kids, st, fs) EXCEPT !.at = st.at]
      [] OTHER -> [st EXCEPT !.end = s.k]
ExecAll(ss, st, fs) ==
    IF ss = <<>> \/ st.end # "on" THEN st ELSE ExecAll(Tail(ss), Exec(ss[1], st, fs), fs)

-----------------------------------------------------------------------------
Fun(name, type, params, tree) ==
    [name |-> name, type |-> type, params |-> params, tree |-> tree, body |-> Code2(tree)]
Param(x, t) == [name |-> x, type |-> t]
Main(ss) == Fun("main", TyInt, <<>>, Seq2(ss))
Sub == Fun("sub", TyInt, <<Param("a", TyInt), Param("b", TyInt), Param("c", TyChar)>>,
           Seq2(<<Ret(Bin("+", Bin("-", Var("a"), Bin("*", Var("b"), Lit(2))), Var("c")))>>))
Fact == Fun("fact", TyInt, <<Param("n", TyInt)>>,
            Seq2(<<IfElse(Bin("<", Var("n"), Lit(2)), Ret(Lit(1)), Node("none", "", 0, <<>>)),
                   Ret(Bin("*", Var("n"), CallOf("fact", <<Bin("-", Var("n"), Lit(1))>>)))>>))
Byte == Fun("byte", TyChar, <<Param("n", TyInt)>>, Seq2(<<Ret(Var("n"))>>))

\* Two operators, grouped either way, and one of them a sign.
Whole == <<"+", "-", "*", "&", "|", "^", "<<", ">>", "==", "!=", "<", ">", "<=", ">=", "&&", "||">>
Ops == Whole \o <<"/", "%">>
Pairs(first, second, F(_, _)) ==
    [n \in 1..Len(first) * Len(second) |->
        <<Main(<<Ret(F(first[((n - 1) \div Len(second)) + 1], second[((n - 1) % Len(second)) + 1]))>>)>>]
MCPairs ==
    Pairs(Ops, Ops, LAMBDA o, q : Bin(o, Bin(q, Lit(6), Lit(1)), Lit(3)))
    \o Pairs(Whole, Whole, LAMBDA o, q : Bin(o, Lit(6), Bin(q, Lit(3), Lit(1))))
    \o Pairs(<<"+", "*", "/", "%", "<", "&&">>, <<"-", "!", "~", "+">>, LAMBDA o, u : Bin(o, Pre(u, Lit(6)), Lit(4)))
    \o Pairs(<<"+", "*", "<", "&&">>, <<"-", "!", "~">>, LAMBDA o, u : Pre(u, Bin(o, Lit(6), Lit(4))))
x == Var("x")  y == Var("y")  a == Var("a")  p == Var("p")  i == Var("i")
Incr(v) == Do(Post("++", v))
None2 == Node("none", "", 0, <<>>)
Others == <<
    \* assignments group to the right and give their value; characters wrap
    <<Main(<<Let("int", "x", 0, Lit(5)), Let("char", "y", 0, Lit(120)), Do(Set("=", x, Set("+=", y, Lit(20)))),
             Ret(Bin("-", Set("*=", x, Lit(2)), Post("--", y)))>>)>>,
    <<Main(<<Let("char", "y", 0, Lit(127)), Ret(Bin("+", Bin("*", Post("++", y), Lit(2)), Pre("++", y)))>>)>>,
    \* short circuits leave the rest alone
    <<Main(<<Let("int", "x", 0, Lit(0)), Do(Bin("&&", x, Post("++", x))), Do(Bin("||", Lit(1), Post("++", x))),
             Do(Bin("||", x, Set("=", x, Lit(7)))), Ret(Bin("&&", x, Bin("%", x, Lit(4))))>>)>>,
    \* calls: order, nesting, recursion, narrow parameters and results
    <<Sub, Main(<<Ret(CallOf("sub", <<Lit(9), CallOf("sub", <<Lit(7), Lit(2), Lit(0)>>), Lit(130)>>))>>)>>,
    <<Sub, Main(<<Let("int", "x", 0, Lit(1)), Ret(CallOf("sub", <<Post("++", x), Post("++", x), x>>))>>)>>,
    <<Fact, Byte, Main(<<Ret(Bin("+", CallOf("fact", <<Lit(5)>>), CallOf("byte", <<Lit(200)>>)))>>)>>,
    \* arrays and pointers
    <<Main(<<Arr("int", "a", 3), Let("int", "p", 1, a), Do(Set("=", Pre("*", Post("++", p)), Lit(4))),
             Do(Set("=", At2(p, Lit(0)), Lit(5))), Do(Set("=", At2(Bin("+", Lit(1), a), Lit(1)), Lit(6))),
             Do(Set("+=", p, Lit(1))),
             Ret(Bin("+", Bin("*", Bin("-", p, a), Lit(50)),
                 Bin("-", Bin("*", At2(a, Lit(0)), Pre("*", p)), Pre("*", Bin("-", p, Lit(1))))))>>)>>,
    <<Main(<<Arr("char", "a", 5), Let("char", "p", 1, Pre("&", At2(a, Lit(3)))), Do(Set("=", Pre("*", Pre("--", p)), Lit(300))),
             Do(Set("=", At2(a, Lit(0)), Bin("==", p, Bin("+", a, Lit(2))))),
             Ret(Bin("+", At2(a, Lit(2)), Bin("*", At2(a, Lit(0)), SizeIs(5, a))))>>)>>,
    <<Main(<<Let("int", "x", 0, Lit(3)), Let("char", "y", 0, Lit(2)), Let("int", "p", 1, Pre("&", x)),
             Do(Set("=", Pre("*", p), Bin("+", SizeIs(4, Post("++", x)), SizeIs(1, y)))), Ret(Bin("+", x, SizeIs(4, p)))>>)>>,
    \* loops with their own breaks and continues
    <<Main(<<Let("int", "y", 0, Lit(0)),
             ForLoop(Let("int", "i", 0, Lit(0)), Bin("<", i, Lit(4)), Post("++", i),
                Seq2(<<IfElse(Bin("==", i, Lit(1)), Leave("continue"), None2),
                       ForLoop(Let("int", "x", 0, Lit(0)), Lit(1), Post("++", x),
                          Seq2(<<IfElse(Bin(">", x, i), Leave("break"), None2),
                                 IfElse(Bin("==", x, Lit(2)), Leave("break"), Do(Set("+=", y, Lit(10))))>>)),
                       IfElse(Bin("==", i, Lit(3)), Leave("break"), None2), Incr(y)>>)),
             Ret(y)>>)>>,
    <<Main(<<Let("int", "x", 0, Lit(6)), Let("int", "y", 0, Lit(0)),
             Loop(Post("--", x), Seq2(<<IfElse(Bin("%", x, Lit(2)), Leave("continue"), None2),
                                        Let("int", "i", 0, x),
                                        IfElse(Bin("<", i, Lit(1)), Seq2(<<Leave("break")>>), Do(Set("+=", y, i)))>>)),
             Let("int", "i", 0, Lit(100)), Ret(Bin("+", Bin("*", y, i), x))>>)>>,
    \* a body that falls off its end
    <<Main(<<Let("int", "x", 0, Lit(6)), IfElse(x, IfElse(Lit(0), Ret(Lit(1)), Seq2(<<Incr(x)>>)), Ret(Lit(2)))>>)>>>>
MCPrograms == MCPairs \o Others
Reference(fs) ==
    Eval(CallOf("main", <<>>), [v |-> 0, m |-> <<>>, at |-> <<>>, end |-> "on", vs |-> <<>>],
         [n \in {f.name : f \in ToSet(fs)} |-> CHOOSE f \in ToSet(fs) : f.name = n]).v
MCAnswers == [n \in DOMAIN MCPrograms |-> Reference(MCPrograms[n])]
=============================================================================
