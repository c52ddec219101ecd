------------------------------ MODULE MCCompiler ------------------------------
(***************************************************************************)
(* The programs that Compiler is checked on. Between them they contain     *)
(* every kind of node, every call mode, both encodings of unions and every *)
(* operand width; each is as small as its subject allows.                  *)
(***************************************************************************)
EXTENDS Compiler

MCStructs == "None" :> <<>> @@ "Box" :> <<"int">> @@ "Pair" :> <<"int", "int">>
MCUnions == "OptPair" :> <<"None", "Pair">> @@ "OptInt" :> <<"None", "int">>

AllTypes == DOMAIN MCStructs \cup DOMAIN MCUnions

(* Expressions *)
I(n) == Lit(IntVal(n), "int")
L(n) == Lit(<<"long", n>>, "long")
B(b) == Lit(BoolVal(b), "bool")
S(s) == Lit(<<"str", s>>, "string")
C(c, t) == Node("Const", c, t, <<>>)
N(c) == C(c, "int")
Let(c, e) == Node("Assign", c, e.t, <<e>>)
Do(es) == Node("Group", <<>>, Last(es).t, es)
If(cond, a, b) == Node("Switch", <<>>, a.t, <<cond, a, b>>)
If2(c1, c2, a, b, d) == Node("Switch", <<>>, a.t, <<c1, c2, a, b, d>>)
O(name, type, t, args) == Call(<<name, type>>, "Normal", t, args)
Add(a, b) == O("Add", "Int", "int", <<a, b>>)
Sub(a, b) == O("Sub", "Int", "int", <<a, b>>)
Mul(a, b) == O("Mul", "Int", "int", <<a, b>>)
Div(a, b) == O("Div", "Int", "int", <<a, b>>)
Eq(a, b) == O("CheckEq", "Int", "bool", <<a, b>>)
Show(e) == O("Action", "StreamWriteString", "bool", <<I(0), e>>)
U(name) == <<"User", name>>
Do1(name, t, args) == Call(U(name), "Normal", t, args)
Fork(name, args) == Call(U(name), "Forked", "future", args)
Lazy(name, args) == Call(U(name), "Lazy", "lazy", args)
Self(t, args) == Node("CallSelf", <<>>, t, args)
Dyn(mode, t, d, args) == Node("CallDyn", mode, t, <<d>> \o args)
Closure(name, t, args) == Node("Closure", U(name), t, args)
LitFunc(name, t) == Node("LitFunc", U(name), t, <<>>)
Await(e, t) == O("Future", "Block", t, <<e>>)
Force(e, t) == O("Lazy", "Get", t, <<e>>)
Field(e, i) == Node("Field", i, "int", <<e>>)
Pair(a, b) == O("Make", "Struct", "Pair", <<a, b>>)
None == O("Make", "Struct", "None", <<>>)
Opt(u, e) == O("Make", "Union", u, <<e>>)
Is(e, t) == Node("UnionCheck", t, "bool", <<e>>)
As(e, t, c) == Node("UnionGet", [t |-> t, c |-> c], "bool", <<e>>)

(* Definitions: n inputs, b bound inputs and l locals, numbered in order.  *)
Consts(n, b, l) ==
    FoldLeft(RegisterConst, NoConsts,
             [i \in 1..(n + b + l) |-> IF i <= n THEN "Input" ELSE IF i <= n + b THEN "Bound" ELSE "Local"])
Pure(n, b, l, body) == [consts |-> Consts(n, b, l), action |-> FALSE, noinline |-> FALSE, body |-> body]
Action(n, b, l, body) == [Pure(n, b, l, body) EXCEPT !.action = TRUE]
NoInline(f) == [f EXCEPT !.noinline = TRUE]
Exec(l, body) == [consts |-> Consts(0, 0, l), body |-> body]
Main == <<Exec(0, Do1("main", "bool", <<>>))>>
Program(funcs, execs) == [funcs |-> funcs, types |-> AllTypes, execs |-> execs, deep |-> FALSE]

(* Arithmetic at the edges of the widths, on literals and on arguments.    *)
IntMax == 2^(4 * ByteBits - 1) - 1
Arithmetics == Program(
    U("same") :> NoInline(Pure(1, 0, 0, N(0)))
    @@ U("main") :> Action(0, 0, 3, Do(<<
         Let(0, Do1("same", "int", <<I(IntMax)>>)),
         Let(1, I(-9)),
         Let(2, O("Conv", "IntLong", "long", <<Sub(I(0), I(5))>>)),
         Show(Add(N(0), I(1))),
         Show(Add(I(IntMax), I(1))),
         Show(Div(N(1), I(2))),
         Show(O("Rem", "Int", "int", <<N(1), Do1("same", "int", <<I(2)>>)>>)),
         Show(O("ShiftLeft", "Int", "int", <<N(0), I(1)>>)),
         Show(O("ShiftRight", "Int", "int", <<N(0), I(2)>>)),
         Show(O("Xor", "Int", "int", <<N(1), N(0)>>)),
         Show(O("Conv", "LongInt", "int", <<O("Sub", "Long", "long", <<C(2, "long"), L(2^(8 * ByteBits - 1) - 1)>>)>>)),
         Show(O("Conv", "IntChar", "char", <<N(1)>>)),
         Show(O("NoOp", "", "int", <<O("Conv", "IntChar", "char", <<I(2^ByteBits)>>)>>)),
         Show(O("CheckLe", "Int", "bool", <<N(1), N(0)>>)),
         Show(O("Conv", "FloatLong", "long", <<O("Conv", "IntFloat", "float", <<N(1)>>)>>))>>)), Main)

(* Strings: slices and indices out of range, empty operands, sharing.      *)
Strings == Program(
    U("join") :> NoInline(Pure(2, 0, 0, O("Add", "String", "string", <<C(0, "string"), C(1, "string")>>)))
    @@ U("main") :> Action(0, 0, 2, Do(<<
         Let(0, Do1("join", "string", <<S(<<1, 2>>), S(<<3>>)>>)),
         Let(1, O("Add", "String", "string", <<C(0, "string"), S(<<>>)>>)),
         Show(O("Slice", "String", "string", <<C(1, "string"), I(-1), I(2)>>)),
         Show(O("Slice", "String", "string", <<S(<<1, 2>>), I(1), I(5)>>)),
         Show(O("Slice", "String", "string", <<C(1, "string"), I(3), I(1)>>)),
         Show(O("Index", "String", "char", <<C(1, "string"), I(3)>>)),
         Show(O("Index", "String", "char", <<S(<<1, 2>>), I(1)>>)),
         Show(O("Conv", "IntString", "string", <<O("Length", "String", "int", <<C(0, "string")>>)>>)),
         Show(O("CheckEq", "String", "bool", <<C(0, "string"), S(<<>>)>>)),
         Show(O("Length", "String", "int", <<O("Append", "Char", "string", <<C(0, "string"), Lit(<<"int", 4>>, "char")>>)>>))>>)),
    Main)

(* A loop by tail recursion, more rounds than the stack has room for.      *)
Loop == Program(
    U("sum") :> Pure(2, 0, 0,
         If(Eq(N(0), I(0)), N(1), Self("int", <<Sub(N(0), I(1)), Add(N(1), N(0))>>)))
    @@ U("even") :> Pure(1, 0, 0, If(Eq(N(0), I(0)), B(TRUE), Do1("odd", "bool", <<Sub(N(0), I(1))>>)))
    @@ U("odd") :> Pure(1, 0, 0, If(Eq(N(0), I(0)), B(FALSE), Do1("even", "bool", <<Sub(N(0), I(1))>>)))
    @@ U("main") :> Action(0, 0, 0, Do(<<Show(Do1("sum", "int", <<I(8), I(0)>>)),
                                         Show(Do1("even", "bool", <<I(7)>>))>>)), Main)

(* Recursion that is not a tail call, past the capacity of the stack.      *)
Deep == [Program(
    U("sum") :> Pure(1, 0, 0,
         If(Eq(N(0), I(0)), I(0), Add(N(0), Self("int", <<Sub(N(0), I(1))>>))))
    @@ U("main") :> Action(0, 0, 0, Do(<<Show(Do1("sum", "int", <<I(2)>>)),
                                         Show(Do1("sum", "int", <<I(8)>>))>>)), Main)
    EXCEPT !.deep = TRUE]

(* Inlining: nested targets with constants of their own, arguments with    *)
(* effects, constants that are aliases, used once, or in one branch only.  *)
Inlining == Program(
    U("sq") :> Pure(1, 0, 1, Do(<<Let(1, Add(N(0), I(1))), Mul(N(1), N(1))>>))
    @@ U("dist") :> Pure(2, 0, 2, Do(<<Let(2, Do1("sq", "int", <<N(0)>>)),
                                       Let(3, Do1("sq", "int", <<N(1)>>)), Sub(N(2), N(3))>>))
    @@ U("say") :> Action(1, 0, 1, Do(<<Let(1, N(0)), Show(N(1)), N(1)>>))
    @@ U("pick") :> Pure(3, 0, 0, If2(O("CheckLe", "Int", "bool", <<N(0), I(0)>>), Eq(N(0), I(0)), N(1), N(2), N(0)))
    @@ U("unused") :> Pure(0, 0, 0, I(7))
    @@ U("main") :> Action(0, 0, 2, Do(<<
         Let(0, Do1("say", "int", <<I(3)>>)),
         Let(1, Do1("dist", "int", <<Do1("say", "int", <<I(2)>>), N(0)>>)),
         Show(Do1("pick", "int", <<N(1), Do1("say", "int", <<I(1)>>), Do1("sq", "int", <<N(0)>>)>>)),
         Show(Do1("pick", "int", <<I(0), I(4), I(5)>>))>>)), Main)

(* Structs and unions, tagged and nullable.                                *)
Records == Program(
    U("half") :> NoInline(Pure(1, 0, 0, If(Eq(O("Rem", "Int", "int", <<N(0), I(2)>>), I(0)),
         Opt("OptInt", Div(N(0), I(2))), Opt("OptInt", None))))
    @@ U("both") :> NoInline(Pure(1, 0, 0, If(O("CheckGt", "Int", "bool", <<N(0), I(0)>>),
         Opt("OptPair", Pair(N(0), Sub(N(0), I(1)))), Opt("OptPair", None))))
    @@ U("read") :> Pure(2, 0, 2, If2(As(C(0, "OptInt"), "int", 2), As(C(1, "OptPair"), "Pair", 3),
         N(2), Add(Field(C(3, "Pair"), 0), Field(C(3, "Pair"), 1)), I(-1)))
    @@ U("main") :> Action(0, 0, 2, Do(<<
         Show(Do1("read", "int", <<Do1("half", "OptInt", <<I(6)>>), Do1("both", "OptPair", <<I(0)>>)>>)),
         Let(0, Do1("both", "OptPair", <<I(4)>>)),
         Show(Do1("read", "int", <<Do1("half", "OptInt", <<I(3)>>), C(0, "OptPair")>>)),
         Show(Is(C(0, "OptPair"), "None")),
         Show(Is(Do1("half", "OptInt", <<I(5)>>), "None")),
         Show(Is(C(0, "OptPair"), "Pair")),
         Let(1, O("Make", "Struct", "Box", <<Field(Pair(I(8), I(9)), 1)>>)),
         Show(Field(C(1, "Box"), 0))>>)), Main)

(* Delegates: functions as values, bound arguments, self calls that keep   *)
(* them, equality of targets, a lazy call of a delegate.                   *)
Delegates == Program(
    U("inc") :> Pure(1, 0, 0, Add(N(0), I(1)))
    @@ U("times") :> Pure(1, 1, 0, If(Eq(N(0), I(0)), I(0), Add(N(1), Self("int", <<Sub(N(0), I(1))>>))))
    @@ U("apply") :> NoInline(Pure(2, 0, 0, Dyn("Normal", "int", C(0, "func"), <<N(1)>>)))
    @@ U("last") :> NoInline(Pure(1, 0, 0, Force(Dyn("Lazy", "lazy", C(0, "func"), <<I(4)>>), "int")))
    @@ U("main") :> Action(0, 0, 2, Do(<<
         Let(0, Closure("times", "func", <<I(3)>>)),
         Show(Do1("apply", "int", <<C(0, "func"), I(2)>>)),
         Show(Do1("apply", "int", <<LitFunc("inc", "func"), I(7)>>)),
         Show(O("CheckEq", "Delegate", "bool", <<C(0, "func"), LitFunc("inc", "func")>>)),
         Show(O("CheckEq", "Delegate", "bool", <<C(0, "func"), Closure("times", "func", <<I(5)>>)>>)),
         Show(Dyn("Normal", "int", Closure("times", "func", <<I(2)>>), <<I(1)>>)),
         Let(1, Dyn("Lazy", "lazy", LitFunc("inc", "func"), <<I(5)>>)),
         Show(Force(C(1, "lazy"), "int")),
         Show(Do1("last", "int", <<LitFunc("inc", "func")>>))>>)), Main)

(* Two forks and the program, every one with results for another.          *)
Forks == Program(
    U("add") :> Pure(2, 0, 0, Add(N(0), N(1)))
    @@ U("wait") :> Pure(2, 0, 0, Add(Await(C(0, "future"), "int"), N(1)))
    @@ U("main") :> Action(0, 0, 2, Do(<<
         Let(0, Fork("add", <<I(2), I(3)>>)),
         Let(1, Dyn("Forked", "future", LitFunc("wait", "func"), <<C(0, "future"), I(4)>>)),
         O("Future", "WaitNano", "bool", <<C(1, "future"), L(1)>>),
         O("Future", "WaitNano", "bool", <<C(0, "future"), L(0)>>),
         Show(Await(C(1, "future"), "int"))>>)), Main)

(* A fork that fails, and another that never ends and is aborted.          *)
ForkFails == Program(
    U("over") :> Pure(1, 0, 0, Div(I(1), N(0)))
    @@ U("spin") :> Pure(1, 0, 0, Self("int", <<N(0)>>))
    @@ U("main") :> Action(0, 0, 0, Do(<<
         Fork("spin", <<I(1)>>),
         Show(I(1)),
         Await(Fork("over", <<I(0)>>), "int"),
         Show(I(2))>>)), Main)

(* One lazy object, asked for by two forks and the program at once.        *)
SharedLazy == Program(
    U("slow") :> Pure(1, 0, 0, Mul(N(0), I(3)))
    @@ U("get") :> Pure(1, 0, 0, Force(C(0, "lazy"), "int"))
    @@ U("main") :> Action(0, 0, 3, Do(<<
         Let(0, Lazy("slow", <<I(2)>>)),
         Let(1, Fork("get", <<C(0, "lazy")>>)),
         Let(2, Fork("get", <<C(0, "lazy")>>)),
         Force(C(0, "lazy"), "int"),
         Show(Add(Await(C(2, "future"), "int"), Await(C(1, "future"), "int")))>>)), Main)

(* More constants than a byte can number, and statements of which one      *)
(* fails.                                                                  *)
Statements == Program(
    U("many") :> NoInline(Action(0, 0, 10, Do(
         [i \in 1..10 |-> Let(i - 1, Show(I(i)))] \o
         <<Show(O("And", "Int", "bool", <<C(0, "bool"), C(9, "bool")>>))>>)))
    @@ U("check") :> NoInline(Pure(1, 0, 0, If(O("CheckGt", "Int", "bool", <<N(0), I(2)>>), Node("Fail", <<>>, "int", <<>>), N(0)))),
    <<Exec(0, Do1("many", "bool", <<>>)),
      Exec(1, Do(<<Let(0, Do1("check", "int", <<I(2)>>)), Show(N(0))>>)),
      Exec(0, Show(Do1("check", "int", <<I(3)>>))),
      Exec(0, Show(I(9)))>>)

(* Every function of two constants and a result, each out of a few shapes: *)
(* literal, opaque, effect, computed; alias, used twice, effect, branch,   *)
(* inlined; unused, used once, both used, used in one branch.              *)
Same(e) == Do1("same", "int", <<e>>)
Say(e) == Do1("say", "int", <<e>>)
Le(a, b) == O("CheckLe", "Int", "bool", <<a, b>>)
First == <<I(2), Same(I(3)), Say(I(1)), Add(Same(I(1)), I(1))>>
Second == <<N(0), Add(N(0), N(0)), Say(N(0)), If(Eq(N(0), I(2)), I(5), N(0)), Do1("sq", "int", <<N(0)>>)>>
Third == <<I(0), N(1), Sub(N(1), N(0)), If(Le(N(1), N(0)), N(0), Say(N(1)))>>
Combination(i) == Program(
    U("same") :> NoInline(Pure(1, 0, 0, N(0)))
    @@ U("say") :> Action(1, 0, 1, Do(<<Let(1, N(0)), Show(N(1)), N(1)>>))
    @@ U("sq") :> Pure(1, 0, 1, Do(<<Let(1, Add(N(0), I(1))), Mul(N(1), N(1))>>))
    @@ U("main") :> Action(0, 0, 2, Do(<<Let(0, First[(i % 4) + 1]), Let(1, Second[((i \div 4) % 5) + 1]),
                                         Show(Third[i \div 20 + 1])>>)), Main)

Catalogue == <<Arithmetics, Strings, Loop, Deep, Inlining, Records, Delegates, Forks, ForkFails,
               SharedLazy, Statements>> \o [i \in 1..80 |-> Combination(i - 1)]
(* Programs the optimizer changes the meaning of: an unused result of a    *)
(* self call whose function prints; a literal condition behind one that is *)
(* not; a field of a struct made by calls that print; a right shift of a   *)
(* negative literal; an unused constant whose initializer fails.           *)
Miscompile(main) == Program(
    U("same") :> NoInline(Pure(1, 0, 0, N(0)))
    @@ U("say") :> NoInline(Action(1, 0, 0, Do(<<Show(N(0)), N(0)>>)))
    @@ U("down") :> NoInline(Action(1, 0, 1, If(Eq(N(0), I(0)), I(0),
         Do(<<Let(1, Self("int", <<Sub(N(0), I(1))>>)), Show(N(0)), I(0)>>))))
    @@ U("main") :> Action(0, 0, 1, main), Main)
SelfCallEffect == Miscompile(Show(Do1("down", "int", <<I(2)>>)))
SwitchOrder == Miscompile(Show(If2(Le(Same(I(0)), I(1)), B(TRUE), I(1), I(2), I(3))))
FieldEffect == Miscompile(Show(Field(Pair(Say(I(1)), Say(I(2))), 1)))
SignedShift == Miscompile(Show(O("ShiftRight", "Int", "int", <<I(-9), I(1)>>)))
FailingConst == Miscompile(Do(<<Let(0, Div(I(1), Same(I(0)))), Show(I(1))>>))
Miscompiled == <<SelfCallEffect, SwitchOrder, FieldEffect, SignedShift, FailingConst>>
===============================================================================
