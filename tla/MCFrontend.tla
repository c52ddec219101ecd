----------------------------- MODULE MCFrontend ------------------------------
(* The frontend on small sources: families of programs, each around one of    *)
(* the things the analysis has to get right.                                   *)
EXTENDS Evaluation

(* Parse nodes *)
Lit(type)       == [k |-> "lit", type |-> type, name |-> "true", a |-> <<>>]
Id(name)        == [k |-> "id", name |-> name, a |-> <<>>]
Let(name, e)    == [k |-> "decl", name |-> name, a |-> <<e>>]
Logic(op, l, r) == [k |-> "logic", name |-> op, a |-> <<l, r>>]
Plus(l, r)      == [k |-> "binary", name |-> "+", a |-> <<l, r>>]
Not(e)          == [k |-> "unary", name |-> "!", a |-> <<e>>]
Group(es)       == [k |-> "group", a |-> es]
Paren(e)        == [k |-> "paren", a |-> <<e>>]
Cond(c, t, e)   == [k |-> "cond", a |-> <<c, t, e>>]
Switch(es)      == [k |-> "switch", a |-> es]
Is(e, type, id) == [k |-> "is", type |-> type, name |-> id, a |-> <<e>>]
Call(name, es)  == [k |-> "call", name |-> name, mode |-> "normal", inst |-> FALSE, a |-> es]
Dyn(es)         == [k |-> "dyn", mode |-> "normal", a |-> es]
Self(es)        == [k |-> "self", mode |-> "normal", a |-> es]
Index(es)       == [k |-> "index", a |-> es]
Field(e, name)  == [k |-> "field", name |-> name, a |-> <<e>>]
Static(t, name) == [k |-> "static", type |-> t, name |-> name, a |-> <<>>]
Lambda(ps, e)   == [k |-> "lambda", type |-> Infer, action |-> FALSE, params |-> ps, a |-> <<e>>]

Param(name, type)       == [name |-> name, type |-> type, init |-> <<>>]
OptParam(name, type, e) == [name |-> name, type |-> type, init |-> <<e>>]
Fun(name, ps, ret, e)   == [name |-> name, params |-> ps, type |-> ret, action |-> FALSE, implicit |-> FALSE, a |-> <<e>>]
Act(name, ps, ret, e)   == [Fun(name, ps, ret, e) EXCEPT !.action = TRUE]

UnionOf(name, types) == [kind |-> "union", name |-> name, members |-> [i \in DOMAIN types |-> [name |-> "", type |-> types[i]]]]
StructOf(name, fields) == [kind |-> "struct", name |-> name, members |-> fields]
EnumOf(name, entries) == [kind |-> "enum", name |-> name, members |-> [i \in DOMAIN entries |-> [name |-> entries[i], type |-> IntType]]]
Member(name, type) == [name |-> name, type |-> type]

U == <<"U">>
S == <<"S">>
E == <<"E">>
StdTypes == <<StructOf("S", <<Member("x", IntType)>>), UnionOf("U", <<IntType, BoolType>>), EnumOf("E", <<"p">>)>>

(* A source in one file *)
File(imports, types, funcs, stmts) == [imports |-> imports, types |-> types, funcs |-> funcs, execs |-> stmts]
MainPath == <<"d", "main">>
Single(types, funcs, stmts) ==
  [main |-> MainPath, files |-> MainPath :> File(<<>>, types, funcs, stmts), links |-> MainPath :> MainPath, search |-> <<>>]

Prim(name, input, output, implicit) == [Builtin(name, input, output, implicit) EXCEPT !.kind = "prim"]
MCPrelude == << Prim("+", <<IntType, IntType>>, IntType, FALSE), Prim("+", <<LongType, LongType>>, LongType, FALSE),
                Prim("!", <<BoolType>>, BoolType, FALSE), Prim("long", <<IntType>>, LongType, TRUE) >>

One  == Lit(IntType)
OneL == Lit(LongType)
Yes  == Lit(BoolType)
VB == Id("b")
VI == Id("i")
VU == Id("u")
VX == Id("x")

(* Constants: declared in conditions, operands and groups, read everywhere. *)
Tests  == {VB, Is(VU, IntType, ""), Is(VU, IntType, "i"), Paren(Is(VU, BoolType, "i")), Not(Is(VU, IntType, "i")),
           Group(<<Let("x", One), VB>>), Group(<<VB, Is(VU, BoolType, "i")>>), Let("x", VB)}
Ops    == {"&&", "||"}
Joined == {Logic(op, l, r) : op \in Ops, l, r \in Tests}
          \union {Logic(op, Logic(op2, Is(VU, IntType, "i"), Let("y", VB)), Let("x", VB)) : op, op2 \in Ops}
          \union {Logic(op, VB, Logic(op2, Let("x", VB), Is(VU, IntType, "i"))) : op, op2 \in Ops}
Leaves == {VI, VX, One}
ConstBodies == {Cond(c, l, r) : c \in Tests \union Joined, l, r \in Leaves}
               \union {Group(<<c, l>>) : c \in Tests \union Joined, l \in Leaves}
               \union {Switch(<<c, l, d, r>>) : c, d \in Tests \union {Is(Id("v"), BoolType, "")}, l, r \in {VI, VB}}
               \union {Switch(<<c, VI, d, r, e>>) : c, d \in Tests, r, e \in {VI, One}}
WithConsts(ret, e) == Single(StdTypes, <<Fun("f", <<Param("u", U), Param("b", BoolType), Param("v", U)>>, ret, e)>>, <<>>)

(* The logic operators that let constants out: of an unchecked && those that its left operand *)
(* only declares where it yields true, and of a checked || those of its right operand.        *)
RECURSIVE Declares(_)
Declares(n) == \/ n.k = "decl"
               \/ n.k = "is" /\ n.name # ""
               \/ n.k \in {"paren", "group", "logic", "decl", "unary"} /\ \E j \in DOMAIN n.a : Declares(n.a[j])
RECURSIVE DeclaresIfTrue(_)
DeclaresIfTrue(n) ==
  \/ n.k = "is" /\ n.name # ""
  \/ n.k \in {"paren", "group"} /\ DeclaresIfTrue(Last(n.a))
  \/ n.k = "logic" /\ n.name = "&&" /\ (DeclaresIfTrue(n.a[1]) \/ Declares(n.a[2]))
RECURSIVE Leaks(_, _)
Leaks(n, checked) ==
  LET last == Len(n.a)
      Inside(j) == CASE n.k \in {"paren", "group"} -> checked /\ j = last
                     [] n.k = "logic"              -> n.name = "&&" /\ (checked \/ j = 1)
                     [] n.k \in {"cond", "switch"} -> j % 2 = 1 /\ j # last
                     [] OTHER                      -> FALSE
  IN  \/ n.k = "logic" /\ n.name = "&&" /\ ~checked /\ DeclaresIfTrue(n.a[1])
      \/ n.k = "logic" /\ n.name = "||" /\ checked /\ Declares(n.a[2])
      \/ \E j \in DOMAIN n.a : Leaks(n.a[j], Inside(j))

ConstSources == {WithConsts(Infer, e) : e \in {c \in ConstBodies : ~Leaks(c, FALSE)}}
                \union {WithConsts(U, Switch(<<Is(VU, IntType, "i"), VI, Is(VU, BoolType, "x"), VX>>)),
                        WithConsts(IntType, Group(<<Let("int", One), One>>)),
                        WithConsts(IntType, Group(<<Let("b", One), One>>)),
                        WithConsts(IntType, Cond(Is(VB, IntType, ""), One, One)),
                        WithConsts(IntType, Cond(Is(VU, LongType, ""), One, One))}
LeakySources == <<{WithConsts(Infer, e) : e \in {c \in ConstBodies : Leaks(c, FALSE)}}>>

Mode(e, mode) == [e EXCEPT !.mode = mode]

(* Return types that depend on one another. *)
CallB(name) == Call(name, <<VB>>)
Ends        == {One, OneL, CallB("f"), CallB("g"), Self(<<VB>>)}
InferBodies == Ends \union {Cond(VB, l, r) : l, r \in Ends} \union {Cond(CallB("g"), One, OneL), Plus(One, CallB("g")),
                Switch(<<VB, One, CallB("f"), One, One>>), Group(<<Let("x", CallB("f")), VX>>), Logic("||", VB, CallB("f")),
                Logic("&&", CallB("f"), VB), Mode(CallB("f"), "fork")}
               \union {Group(<<Let("x", Mode(CallB("g"), mode)), OneL>>) : mode \in {"lazy", "fork"}}
InferSources == {Single(<<>>, <<Fun("f", <<Param("b", BoolType)>>, Infer, e), Fun("g", <<Param("b", BoolType)>>, ret, d)>>, <<>>) :
                   e, d \in InferBodies, ret \in {Infer, LongType, BoolType}}

(* Overloads, conversions and operators. *)
H(types, opt, e) == Fun("h", [j \in DOMAIN types |-> IF j > Len(types) - opt THEN OptParam(<<"p", "q">>[j], types[j], One)
                                                                              ELSE Param(<<"p", "q">>[j], types[j])], Infer, e)
Overloaded == {H(<<IntType>>, 0, One), H(<<LongType>>, 0, OneL), H(<<U>>, 0, Yes), H(<<IntType, LongType>>, 1, Call("S", <<One>>)),
               H(<<LongType, LongType>>, 0, Static(E, "p"))}
MakeS   == Call("S", <<One>>)
EnumP   == Static(E, "p")
Indexer == Fun("[]", <<Param("s", S), Param("k", LongType)>>, Infer, Field(Id("s"), "x"))
Invoke  == Fun("()", <<Param("s", S)>>, Infer, Yes)
FromS   == [Fun("long", <<Param("s", S)>>, Infer, OneL) EXCEPT !.implicit = TRUE]
Instance(e, name, es) == [Call(name, <<e>> \o es) EXCEPT !.inst = TRUE]
Calls == {Call("h", <<e>>) : e \in {One, OneL, Yes, EnumP, MakeS, VU}}
         \union {Call("h", <<e, d>>) : e, d \in {One, OneL, EnumP}}
         \union {Instance(One, "h", <<>>), Instance(EnumP, "h", <<>>), Instance(OneL, "h", <<One>>), Instance(VX, "h", <<One>>),
                 Instance(MakeS, "x", <<>>), Plus(One, OneL), Plus(EnumP, OneL), Plus(One, EnumP), Plus(EnumP, EnumP), Not(One),
                 Index(<<MakeS, One>>), Index(<<One, One>>), Dyn(<<MakeS>>), Dyn(<<One>>), Field(MakeS, "x"), Field(MakeS, "y"), Field(One, "x"),
                 Static(E, "q"), Static(S, "p"), Id("h"), Call("E", <<One>>), Call("U", <<Yes>>)}
OverloadSources ==
  {Single(StdTypes, SetToSeq(hs) \o <<Indexer, Invoke>> \o conv \o <<Fun("f", <<Param("u", U)>>, Infer, c)>>, <<>>) :
     hs \in kSubset(1, Overloaded) \union kSubset(2, Overloaded) \union kSubset(3, Overloaded), conv \in {<<>>, <<FromS>>}, c \in Calls}

(* Lambdas: what they capture, through how many of them, and what they may call. *)
LamY(e)  == Lambda(<<Param("y", IntType)>>, e)
Inner    == {One, VB, Id("y"), VI, Cond(VB, Id("y"), One), Cond(VB, One, Self(<<Id("y")>>)), Call("g", <<>>), Id("g"), Call("k", <<>>),
             Cond(Is(VU, IntType, "i"), VI, Id("y")), Group(<<Let("i", VB), VI>>)}
Lambdas  == {LamY(e) : e \in Inner} \union {LamY(Dyn(<<LamY(e), One>>)) : e \in Inner}
            \union {LamY(LamY(e)) : e \in {VB, Id("y")}} \union {[LamY(Call("k", <<>>)) EXCEPT !.action = TRUE],
            [LamY(Id("y")) EXCEPT !.type = LongType], Lambda(<<Param("y", IntType), Param("y", IntType)>>, One),
            Lambda(<<OptParam("y", IntType, One)>>, Id("y"))}
LambdaBodies == {Dyn(<<l, One>>) : l \in Lambdas} \union {Group(<<Let("i", l), Call("i", <<One>>)>>) : l \in Lambdas}
                \union {Group(<<Let("i", One), Dyn(<<l, VI>>)>>) : l \in Lambdas} \union Lambdas
                \union {Dyn(<<Id("g")>>), Dyn(<<Id("k")>>), Cond(VB, Id("g"), Id("k")), Group(<<Let("i", Id("k")), Dyn(<<VI>>)>>),
                        Dyn(<<Id("g"), One>>), Instance(MakeS, "d", <<One>>)}
LambdaSources ==
  {Single(StdTypes, <<Fun("g", <<>>, Infer, One), Act("k", <<>>, Infer, One),
                      [Fun("f", <<Param("b", BoolType), Param("u", U)>>, Infer, e) EXCEPT !.action = act]>>, <<>>) :
     e \in LambdaBodies, act \in BOOLEAN}

(* Actions and pure functions, forked and lazy, as statements and behind delegates. *)
PureD   == Delegate(<<>>, IntType, FALSE)
ImpureD == Delegate(<<>>, IntType, TRUE)
Steps   == {Mode(Call(name, <<>>), mode) : name \in {"g", "k", "S", "zz"}, mode \in {"normal", "fork", "lazy"}}
           \union {Call(name, <<Id(arg)>>) : name \in {"usePure", "useImpure"}, arg \in {"g", "k"}}
           \union {Mode(Dyn(<<Id(arg)>>), mode) : arg \in {"g", "k"}, mode \in {"fork", "lazy"}}
           \union {Mode(Self(<<>>), "fork"), Self(<<One>>), Group(<<Let("x", One), VX>>), Group(<<VX, One>>)}
PuritySources ==
  {Single(<<StructOf("S", <<>>)>>,
          <<Fun("g", <<>>, Infer, One), Act("k", <<>>, Infer, One), Fun("usePure", <<Param("d", PureD)>>, Infer, Call("d", <<>>)),
            [Fun("useImpure", <<Param("d", ImpureD)>>, Infer, Call("d", <<>>)) EXCEPT !.action = act],
            [Fun("f", <<>>, Infer, e) EXCEPT !.action = act2]>>, stmts) :
     act, act2 \in BOOLEAN, e \in Steps, stmts \in {<<>>, <<Call("f", <<>>)>>}}
  \union {Single(<<StructOf("S", <<>>)>>, <<Fun("g", <<>>, Infer, One), Act("k", <<>>, Infer, One)>>, <<e, Call("k", <<>>)>>) : e \in Steps}

(* Optional parameters: initializers that call functions with optional parameters. *)
Inits == {One, EnumP, Yes, VB, Call("g", <<>>), Call("h", <<>>), Call("h", <<One>>), Call("k", <<>>), Dyn(<<LamY(Id("y")), One>>),
          Self(<<One>>), Cond(Yes, Call("g", <<>>), One), Group(<<Let("x", One), VX>>)}
OptSources ==
  {Single(StdTypes, <<Fun("g", <<OptParam("p", IntType, d)>>, Infer, Id("p")),
                      Fun("h", <<OptParam("p", IntType, e), OptParam("q", LongType, One)>>, Infer, Id("q")),
                      Act("k", <<>>, Infer, One),
                      Fun("f", <<Param("b", BoolType)>>, Infer, Call("h", args))>>, <<Call("g", <<>>)>>) :
     d, e \in Inits, args \in {<<>>, <<One>>, <<One, One>>}}
  \union {Single(<<>>, <<Fun("g", <<OptParam("p", IntType, One), Param("q", IntType)>>, Infer, Id("p"))>>, <<>>)}

(* Declarations with something wrong, or nearly so. *)
A == <<"A">>
B == <<"B">>
TypeLists == {<<StructOf("A", <<Member("p", t), Member("q", s)>>), StructOf("B", <<Member("p", r)>>), UnionOf("U", <<IntType, r>>)>> :
                t, s, r \in {IntType, A, B, U}}
             \union {<<StructOf("A", <<Member("p", IntType), Member("p", IntType)>>)>>, <<UnionOf("U", <<IntType, IntType>>)>>,
                     <<EnumOf("E", <<"p", "p">>)>>, <<StructOf("A", <<>>), EnumOf("A", <<"p">>)>>, <<StructOf("A", <<Member("p", B)>>)>>,
                     <<StructOf("A", <<Member("A", IntType)>>)>>}
Signatures == {Fun("g", <<>>, Infer, One), Fun("g", <<>>, LongType, One), Act("+", <<Param("p", BoolType), Param("q", BoolType)>>, Infer, Yes),
               Fun("()", <<>>, Infer, One), Act("int", <<Param("p", BoolType)>>, IntType, One), Fun("int", <<Param("p", BoolType)>>, BoolType, One),
               Fun("int", <<Param("p", BoolType)>>, Infer, One), Fun("int", <<Param("p", BoolType)>>, Infer, Yes),
               [Fun("int", <<Param("p", BoolType)>>, Infer, One) EXCEPT !.implicit = TRUE],
               [Fun("int", <<Param("p", BoolType)>>, Infer, Id("p")) EXCEPT !.implicit = TRUE],
               [Fun("int", <<Param("p", BoolType), OptParam("q", IntType, One)>>, Infer, One) EXCEPT !.implicit = TRUE],
               [Fun("g", <<Param("p", BoolType)>>, Infer, One) EXCEPT !.implicit = TRUE],
               Fun("g", <<Param("int", BoolType)>>, Infer, One), Fun("g", <<Param("p", IntType), Param("p", BoolType)>>, Infer, One)}
DeclSources == {Single(types, <<Fun("g", <<>>, Infer, One)>>, <<>>) : types \in TypeLists}
               \union {Single(<<>>, <<s, t>>, <<Call("int", <<Yes>>)>>) : s, t \in Signatures}

(* Imports: in cycles and diamonds, relative, absolute, through links and search paths. *)
Paths(names)   == {<<"", n>> : n \in names}
UpTo(k, paths) == UNION {[1 .. j -> paths] : j \in 0 .. k}
ImportFile(imports, name) == File(imports, <<>>, <<Fun(name, <<>>, Infer, One)>>, <<>>)
ImportSources ==
  {[main   |-> MainPath, search |-> <<"e">>,
    files  |-> (MainPath :> ImportFile(m, "m")) @@ (<<"d", "a">> :> ImportFile(a, "a")) @@ (<<"e", "b">> :> ImportFile(c, "c"))
               @@ (<<"e", "a">> :> ImportFile(<<>>, "ea")),
    links  |-> (MainPath :> MainPath) @@ (<<"d", "a">> :> <<"d", "a">>) @@ (<<"e", "b">> :> <<"e", "b">>)
               @@ (<<"e", "a">> :> <<"e", "a">>) @@ (<<"d", "link">> :> <<"e", "b">>)] :
     m \in UpTo(2, Paths({"a", "b", "link", "zz"}) \union {<<"e", "a">>}), a \in UpTo(2, Paths({"a", "b", "link", "main"})),
     c \in UpTo(1, Paths({"a", "b", "main"}) \union {MainPath})}

SoundSources == <<ConstSources, InferSources, OverloadSources, LambdaSources, PuritySources, OptSources, DeclSources, ImportSources>>

=============================================================================
