------------------------------ MODULE Compiler ------------------------------
(***************************************************************************)
(* The C compiler of the workshop, kernel/mcc.c: the parser that emits as  *)
(* it reads, for expressions, statements and functions, and a machine that *)
(* runs what it emits.  One program after the other is compiled and run.   *)
(*                                                                         *)
(* Code is a sequence of abstract instructions of the i386 target over the *)
(* accumulator, two scratch registers and a stack in byte-addressed        *)
(* memory.  A type is a base with a number of stars.  The lexer, structs,  *)
(* string data, the limits of the tables and the container are left out;   *)
(* a program is well formed.                                               *)
(***************************************************************************)
EXTENDS Integers, Sequences, SequencesExt, FiniteSetsExt

CONSTANTS
    Programs,      \* sequence of programs: functions with parameters and tokens
    Answers,       \* what each program returns by the rules of C
    StackTop       \* the first address above the stack

VARIABLE prog      \* the number of programs compiled and run so far

MccWord == 4
Narrow(v) == ((v + 128) % 256) - 128        \* movsx of the low byte

-----------------------------------------------------------------------------
\* Types, and the state of the compiler: the tokens and the one at hand, the
\* code, the locals in scope, the loops with their continue target and their
\* open breaks, and the type and kind of the last expression.
TyInt == [base |-> "int", ptr |-> 0]
TyChar == [base |-> "char", ptr |-> 0]
IsPointer(t) == t.ptr > 0
TypeBytes(t) == IF ~IsPointer(t) /\ t.base = "char" THEN 1 ELSE 4
PointTo(t) == [t EXCEPT !.ptr = @ + 1]
Target(t) == [t EXCEPT !.ptr = @ - 1]
Stride(t) == TypeBytes(Target(t))

I(op, n) == [op |-> op, n |-> n, w |-> ""]
Emit(s, op, n) == [s EXCEPT !.code = Append(@, I(op, n))]
Value(s, t) == [s EXCEPT !.type = t, !.lvalue = FALSE, !.array = 0]
Place(s, t) == [s EXCEPT !.type = t, !.lvalue = TRUE, !.array = 0]

Tok(s) == s.toks[s.at].t
Word(s) == s.toks[s.at].w
Advance(s) == [s EXCEPT !.at = @ + 1]
Here(s) == Len(s.code) + 1
JumpTo(s, op, to) == Emit(s, op, to)
Patch(s, at) == [s EXCEPT !.code[at].n = Here(s)]

\* rvalue, store, scale
Rvalue(s) ==
    IF s.lvalue THEN Value(Emit(s, IF s.type = TyChar THEN "loadchar" ELSE "load", 0), s.type)
    ELSE [s EXCEPT !.array = 0]
Store(s, t) == Emit(s, IF t = TyChar THEN "storechar" ELSE "store", 0)
Scale(s, t, reg) == IF Stride(t) > 1 THEN Emit(s, reg, Stride(t)) ELSE s

\* change: an increment before or after the value is taken.
Change(s, op, post) ==
    LET old == Emit(Rvalue(Emit(s, "push", 0)), "keep", 0)
        step == IF IsPointer(s.type) THEN Stride(s.type) ELSE 1
        new == Store(Emit(Emit(old, "add", IF op = "++" THEN step ELSE -step), "popc", 0), s.type) IN
    IF post THEN Emit(new, "kept", 0) ELSE new

\* precedence
Precedence(t) ==
    CASE t \in {"=", "+=", "-=", "*=", "/=", "%="} -> 1
      [] t = "||" -> 2 [] t = "&&" -> 3 [] t = "|" -> 4 [] t = "^" -> 5 [] t = "&" -> 6
      [] t \in {"==", "!="} -> 7 [] t \in {"<", ">", "<=", ">="} -> 8
      [] t \in {"<<", ">>"} -> 9 [] t \in {"+", "-"} -> 10 [] t \in {"*", "/", "%"} -> 11
      [] OTHER -> 0

RECURSIVE Expression(_, _), Climb(_, _), Unary(_), Postfix(_), Args(_, _)

\* Mutant: the pushed words stay as they are.
CallKeepsOrder(s, name, n) ==
    LET called == [s EXCEPT !.code = Append(@, [op |-> "call", n |-> 0, w |-> name])] IN
    IF n > 0 THEN Emit(called, "drop", n * MccWord) ELSE called

\* primary: a call evaluates its arguments from left to right and reverses
\* the pushed words.
Call(s, name, n) ==
    LET turned == IF n > 1 THEN Emit(s, "reverse", n) ELSE s
        called == [turned EXCEPT !.code = Append(@, [op |-> "call", n |-> 0, w |-> name])] IN
    IF n > 0 THEN Emit(called, "drop", n * MccWord) ELSE called
Primary(s) ==
    CASE Tok(s) = "num" -> Advance(Value(Emit(s, "num", s.toks[s.at].n), TyInt))
      [] Tok(s) = "(" -> Advance(Expression(Advance(s), 1))
      [] s.toks[s.at + 1].t = "(" ->
            LET a == Args(Advance(Advance(s)), 0)
                f == CHOOSE g \in s.functions : g.name = Word(s) IN
            Value(Call(Advance(a), Word(s), a.argc), f.type)
      [] OTHER ->
            LET v == s.locals[Word(s)]
                lea == Advance(Emit(s, "lea", v.offset)) IN
            IF v.count > 0 THEN [Value(lea, PointTo(v.type)) EXCEPT !.array = v.count * TypeBytes(v.type)]
            ELSE Place(lea, v.type)
Args(s, n) ==
    IF Tok(s) = ")" THEN [s EXCEPT !.argc = n]
    ELSE LET a == Emit(Rvalue(Expression(IF n = 0 THEN s ELSE Advance(s), 1)), "push", 0) IN Args(a, n + 1)
Postfix(s) ==
    CASE Tok(s) = "[" ->
            LET base == Emit(Rvalue(s), "push", 0)
                index == Advance(Rvalue(Expression(Advance(base), 1)))
                sum == Emit(Emit(Scale(index, base.type, "scale"), "popc", 0), "+", 0) IN
            Postfix(Place(sum, Target(base.type)))
      [] Tok(s) \in {"++", "--"} -> Postfix(Change(Advance(s), Tok(s), TRUE))
      [] OTHER -> s

\* unary
Sizeof(s) ==
    LET e == Unary(Advance(s))
        bytes == IF e.array > 0 THEN e.array ELSE TypeBytes(e.type) IN
    Value(Emit([e EXCEPT !.code = s.code], "num", bytes), TyInt)
Unary(s) ==
    LET op == Tok(s) IN
    CASE op = "sizeof" -> Sizeof(s)
      [] op = "&" -> LET e == Unary(Advance(s)) IN Value(e, PointTo(e.type))
      [] op \in {"++", "--"} -> Change(Unary(Advance(s)), op, FALSE)
      [] op = "*" -> LET e == Rvalue(Unary(Advance(s))) IN Place(e, Target(e.type))
      [] op = "+" -> Rvalue(Unary(Advance(s)))
      [] op \in {"-", "~"} -> Emit(Rvalue(Unary(Advance(s))), IF op = "-" THEN "neg" ELSE "inv", 0)
      [] op = "!" -> Value(Emit(Rvalue(Unary(Advance(s))), "not", 0), TyInt)
      [] OTHER -> Postfix(Primary(s))

\* expression: precedence climbing from minimum.
BaseOp(op) == CASE op = "+=" -> "+" [] op = "-=" -> "-" [] op = "*=" -> "*" [] op = "/=" -> "/" [] OTHER -> "%"
Assign(s, op) ==
    LET to == Emit(s, "push", 0)
        kept == IF op = "=" THEN to ELSE Emit(Rvalue(to), "push", 0)
        right == Rvalue(Expression(Advance(kept), 1))
        scaled == IF IsPointer(s.type) /\ op \in {"+=", "-="} THEN Scale(right, s.type, "scale") ELSE right
        result == IF op = "=" THEN right ELSE Emit(Emit(scaled, "popc", 0), BaseOp(op), 0) IN
    Value(Store(Emit(result, "popc", 0), s.type), s.type)
ShortCircuit(s, op) ==
    LET left == Emit(Rvalue(s), IF op = "&&" THEN "jz" ELSE "jnz", 0)
        right == Emit(Rvalue(Expression(Advance(left), Precedence(op) + 1)), "bool", 0)
        end == Emit(right, "jmp", 0)
        short == Emit(Patch(end, Here(left) - 1), "num", IF op = "||" THEN 1 ELSE 0) IN
    Value(Patch(short, Here(end) - 1), TyInt)
Binary(s, op) ==
    LET left == Emit(Rvalue(s), "push", 0)
        right == Emit(Rvalue(Expression(Advance(left), Precedence(op) + 1)), "popc", 0)
        lp == IsPointer(left.type)
        rp == IsPointer(right.type)
        scaled == CASE op \in {"+", "-"} /\ lp /\ ~rp -> Scale(right, left.type, "scale")
                    [] op = "+" /\ ~lp /\ rp -> Scale(right, right.type, "scaleleft")
                    [] OTHER -> right
        result == Emit(scaled, op, 0) IN
    IF op = "-" /\ lp /\ rp THEN Value(Emit(result, "step", Stride(left.type)), TyInt)
    ELSE IF op = "+" /\ ~lp /\ rp THEN Value(result, right.type)
    ELSE IF Precedence(op) < 10 \/ (~lp /\ ~rp) THEN Value(result, TyInt) ELSE Value(result, left.type)
Climb(s, minimum) ==
    LET op == Tok(s) IN
    IF Precedence(op) < minimum THEN s
    ELSE Climb(CASE Precedence(op) = 1 -> Assign(s, op)
                 [] op \in {"&&", "||"} -> ShortCircuit(s, op)
                 [] OTHER -> Binary(s, op), minimum)
Expression(s, minimum) == Climb(Unary(s), minimum)
DiscardExpression(s) == Rvalue(Expression(s, 1))

-----------------------------------------------------------------------------
\* pointer_type, local, declarations: each local gets whole words.
RECURSIVE Stars(_, _), Declarators(_, _), Statement(_), Block(_)
Stars(s, t) == IF Tok(s) = "*" THEN Stars(Advance(s), PointTo(t)) ELSE [s EXCEPT !.type = t]
Local(s, name, t, offset, count) ==
    [s EXCEPT !.locals = [n \in DOMAIN @ \cup {name} |->
        IF n = name THEN [type |-> t, offset |-> offset, count |-> count] ELSE @[n]]]
Words(bytes) == ((bytes + MccWord - 1) \div MccWord) * MccWord
Declarators(s, base) ==
    LET typed == Stars(s, base)
        name == Word(typed)
        counted == Advance(typed)
        array == Tok(counted) = "["
        count == IF array THEN counted.toks[counted.at + 1].n ELSE 0
        size == Words(IF array THEN count * TypeBytes(typed.type) ELSE MccWord)
        after == IF array THEN Advance(Advance(Advance(counted))) ELSE counted
        known == Local([after EXCEPT !.bytes = @ + size], name, typed.type, -(after.bytes + size), count)
        done == IF Tok(known) = "="
                THEN Store(Emit(Rvalue(Expression(Advance(known), 1)), "leac", -known.bytes), typed.type)
                ELSE known IN
    IF Tok(done) = "," THEN Declarators(Advance(done), base) ELSE Advance(done)
IsType(s) == Tok(s) \in {"int", "char"}
Declarations(s) == Declarators(Advance(s), IF Tok(s) = "int" THEN TyInt ELSE TyChar)

\* loop_body: breaks are patched to the end of their own loop.
LoopBody(s, again, exit) ==
    LET body == Statement([s EXCEPT !.loops = Append(@, [again |-> again, breaks |-> <<>>])])
        end == Patch(JumpTo(body, "jmp", again), exit)
        left == FoldLeft(Patch, end, Last(body.loops).breaks) IN
    [left EXCEPT !.loops = Front(@)]

\* statement
Block(s) ==
    IF Tok(s) = "}" THEN Advance(s)
    ELSE Block(IF IsType(s) THEN Declarations(s) ELSE Statement(s))
If(s) ==
    LET cond == Emit(Advance(DiscardExpression(Advance(Advance(s)))), "jz", 0)
        no == Here(cond) - 1
        then == Statement(cond) IN
    IF Tok(then) # "else" THEN Patch(then, no)
    ELSE LET end == Emit(then, "jmp", 0) IN
        Patch(Statement(Advance(Patch(end, no))), Here(end) - 1)
While(s) ==
    LET cond == Emit(Advance(DiscardExpression(Advance(Advance(s)))), "jz", 0) IN
    LoopBody(cond, Here(s), Here(cond) - 1)
For(s) ==
    LET open == Advance(Advance(s))
        init == IF IsType(open) THEN Declarations(open)
                ELSE Advance(IF Tok(open) = ";" THEN open ELSE DiscardExpression(open))
        cond == Advance(IF Tok(init) = ";" THEN Emit(init, "num", 1) ELSE DiscardExpression(init))
        exit == Emit(cond, "jz", 0)
        skip == Emit(exit, "jmp", 0)
        again == Here(skip)
        step == Advance(IF Tok(skip) = ")" THEN skip ELSE DiscardExpression(skip))
        body == Patch(JumpTo(step, "jmp", Here(init)), Here(exit)) IN
    [LoopBody(body, again, Here(cond)) EXCEPT !.locals = s.locals]
Return(s) ==
    LET given == Tok(Advance(s)) # ";"
        value == IF given THEN Rvalue(Expression(Advance(s), 1)) ELSE Emit(Advance(s), "num", 0) IN
    Advance(Emit(IF s.returns = TyChar THEN Emit(value, "narrow", 0) ELSE value, "leave", 0))
Break(s) ==
    LET out == Emit(s, "jmp", 0) IN
    Advance(Advance([out EXCEPT !.loops[Len(s.loops)].breaks = Append(@, Here(s))]))
Statement(s) ==
    CASE Tok(s) = "{" -> [Block(Advance(s)) EXCEPT !.locals = s.locals]
      [] Tok(s) = "if" -> If(s)
      [] Tok(s) = "while" -> While(s)
      [] Tok(s) = "for" -> For(s)
      [] Tok(s) = "return" -> Return(s)
      [] Tok(s) = "break" -> Break(s)
      [] Tok(s) = "continue" -> Advance(Advance(JumpTo(s, "jmp", Last(s.loops).again)))
      [] Tok(s) = ";" -> Advance(s)
      [] OTHER -> Advance(DiscardExpression(s))

\* translation_unit, second pass: a frame whose size is known at its end, and
\* a value of zero where the body falls off.  Calls are resolved when every
\* function has its address.
Function(c, f, all) ==
    LET start == Len(c.code) + 1
        parameters == [i \in DOMAIN f.params |->
            [type |-> f.params[i].type, offset |-> 2 * MccWord + (i - 1) * MccWord, count |-> 0]]
        names == {f.params[i].name : i \in DOMAIN f.params}
        s == [toks |-> f.body, at |-> 1, code |-> Append(c.code, I("enter", 0)), bytes |-> 0, loops |-> <<>>,
              locals |-> [n \in names |-> parameters[CHOOSE i \in DOMAIN f.params : f.params[i].name = n]],
              type |-> TyInt, lvalue |-> FALSE, array |-> 0, argc |-> 0, returns |-> f.type, functions |-> all]
        done == Statement(s)
        framed == [done.code EXCEPT ![start].n = done.bytes] IN
    [code |-> framed \o <<I("num", 0), I("leave", 0)>>,
     address |-> [g \in DOMAIN c.address \cup {f.name} |-> IF g = f.name THEN start ELSE c.address[g]]]
MccCompile(functions) ==
    LET all == ToSet(functions)
        unit == FoldLeft(LAMBDA c, f : Function(c, f, all), [code |-> <<>>, address |-> [g \in {} |-> 0]], functions) IN
    [code |-> [i \in DOMAIN unit.code |->
                IF unit.code[i].op = "call" THEN [unit.code[i] EXCEPT !.n = unit.address[unit.code[i].w]] ELSE unit.code[i]],
     entry |-> unit.address["main"]]

-----------------------------------------------------------------------------
\* The machine.
Bool(b) == IF b THEN 1 ELSE 0
Bit(v, i) == (v \div 2^i) % 2
Bits(a, b, F(_, _)) ==       \* of the low eight bits, all that the programs use
    LET c == SumSet({F(Bit(a, i), Bit(b, i)) * 2^i : i \in 0..7}) IN c
AsC(a, b) ==       \* idiv rounds towards zero
    LET q == (IF a < 0 THEN -a ELSE a) \div (IF b < 0 THEN -b ELSE b) IN IF (a < 0) # (b < 0) THEN -q ELSE q
Result(op, a, b) ==
    CASE op = "+" -> a + b [] op = "-" -> a - b [] op = "*" -> a * b
      [] op = "/" -> AsC(a, b) [] op = "%" -> a - b * AsC(a, b)
      [] op = "&" -> Bits(a, b, LAMBDA x, y : x * y)
      [] op = "|" -> Bits(a, b, LAMBDA x, y : x + y - x * y)
      [] op = "^" -> Bits(a, b, LAMBDA x, y : (x + y) % 2)
      [] op = "<<" -> a * 2^b [] op = ">>" -> a \div 2^b
      [] op = "==" -> Bool(a = b) [] op = "!=" -> Bool(a # b)
      [] op = "<" -> Bool(a < b) [] op = ">" -> Bool(a > b)
      [] op = "<=" -> Bool(a <= b) [] OTHER -> Bool(a >= b)
Arithmetic == {"+", "-", "*", "/", "%", "&", "|", "^", "<<", ">>", "==", "!=", "<", ">", "<=", ">="}


\* One instruction, i, on registers and memory.
Push(m, v) == [m EXCEPT !.esp = @ - MccWord, !.mem[m.esp - MccWord] = v]
Execute(m, i) ==
    LET next == [m EXCEPT !.pc = @ + 1]
        set(v) == [next EXCEPT !.eax = v]
        last == m.esp + (i.n - 1) * MccWord IN
    CASE i.op \in Arithmetic -> set(Result(i.op, m.ecx, m.eax))
      [] i.op = "num" -> set(i.n) [] i.op = "lea" -> set(m.ebp + i.n)
      [] i.op = "add" -> set(m.eax + i.n) [] i.op = "scale" -> set(m.eax * i.n)
      [] i.op = "step" -> set(AsC(m.eax, i.n))
      [] i.op = "neg" -> set(-m.eax) [] i.op = "inv" -> set(-m.eax - 1)
      [] i.op = "not" -> set(Bool(m.eax = 0)) [] i.op = "bool" -> set(Bool(m.eax # 0))
      [] i.op = "narrow" -> set(Narrow(m.eax)) [] i.op = "kept" -> set(m.edx)
      [] i.op = "keep" -> [next EXCEPT !.edx = m.eax]
      [] i.op = "scaleleft" -> [next EXCEPT !.ecx = @ * i.n]
      [] i.op = "leac" -> [next EXCEPT !.ecx = m.ebp + i.n]
      [] i.op = "load" -> set(m.mem[m.eax]) [] i.op = "loadchar" -> set(Narrow(m.mem[m.eax]))
      [] i.op = "store" -> [next EXCEPT !.mem[m.ecx] = m.eax]
      [] i.op = "storechar" -> [set(Narrow(m.eax)) EXCEPT !.mem[m.ecx] = Narrow(m.eax)]
      [] i.op = "push" -> Push(next, m.eax)
      [] i.op = "popc" -> [next EXCEPT !.ecx = m.mem[m.esp], !.esp = @ + MccWord]
      [] i.op = "drop" -> [next EXCEPT !.esp = @ + i.n]
      [] i.op = "reverse" ->
            [next EXCEPT !.mem = [a \in DOMAIN @ |-> IF a \in m.esp .. last THEN m.mem[last - (a - m.esp)] ELSE @[a]]]
      [] i.op = "jmp" -> [m EXCEPT !.pc = i.n]
      [] i.op = "jz" -> IF m.eax = 0 THEN [m EXCEPT !.pc = i.n] ELSE next
      [] i.op = "jnz" -> IF m.eax # 0 THEN [m EXCEPT !.pc = i.n] ELSE next
      [] i.op = "call" -> [Push(m, m.pc + 1) EXCEPT !.pc = i.n]
      [] i.op = "enter" -> LET f == Push(next, m.ebp) IN [f EXCEPT !.ebp = f.esp, !.esp = @ - i.n]
      [] i.op = "leave" ->
            [m EXCEPT !.ebp = m.mem[m.ebp], !.esp = m.ebp + 2 * MccWord, !.pc = m.mem[m.ebp + MccWord]]

\* The loader calls the entry with a return address of 0, and the program
\* runs until it is back there.
RECURSIVE Run(_, _)
Run(m, code) == IF m.pc = 0 THEN m ELSE Run(Execute(m, code[m.pc]), code)
Start(entry) ==
    [pc |-> entry, eax |-> 0, ecx |-> 0, edx |-> 0, ebp |-> 0, esp |-> StackTop - MccWord,
     mem |-> [a \in 0..StackTop |-> 0]]
Ran(program) == LET made == MccCompile(program) IN Run(Start(made.entry), made.code)

Init == prog = 0
Next == prog < Len(Programs) /\ prog' = prog + 1

Spec == Init /\ [][Next]_prog

-----------------------------------------------------------------------------
\* A compiled program returns what C says it does, with the stack where it
\* was: operators bind as in C, arguments arrive in order, breaks and
\* continues leave the right loop, characters wrap and pointers step by what
\* they point to (mcc_compile and everything below it).
Correct(m, answer) == m.eax = answer /\ m.esp = StackTop /\ m.ebp = 0
RunsAsWritten == prog' # prog => Correct(Ran(Programs[prog']), Answers[prog'])
ComputesAsWritten == [][RunsAsWritten]_prog
=============================================================================
