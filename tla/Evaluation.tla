----------------------------- MODULE Evaluation ------------------------------
(* What an analysed program does when it runs, as a reference for the          *)
(* frontend: values carry their type, and everything that the later parts of   *)
(* the compiler take for granted is checked on the way.                        *)
(*                                                                             *)
(* The outcome s of an evaluation is ok; uninit, a constant was read that has  *)
(* no value; fail, the branch was taken that exhaustive switches do not have;  *)
(* stuck, a value has another type than its node, an argument is missing or a  *)
(* function is not defined; impure, a pure function called an action; or deep, *)
(* calls nest deeper than the fuel lasts.                                      *)
EXTENDS Frontend

CONSTANT Fuel

Value(type, x) == [type |-> type, x |-> x]
NoValue        == Value(Infer, <<>>)
Stop(s)        == [s |-> s, v |-> NoValue, vs |-> <<>>, env |-> NoConsts]
Ok(v, env)     == [s |-> "ok", v |-> v, vs |-> <<>>, env |-> env]

RECURSIVE Ev(_, _, _, _)
RECURSIVE EvAll(_, _, _, _)
RECURSIVE EvSwitch(_, _, _, _, _)

EvAll(es, env, fr, fuel) ==
  IF es = <<>> THEN Ok(NoValue, env)
  ELSE LET r == Ev(Head(es), env, fr, fuel)
           s == EvAll(Tail(es), r.env, fr, fuel)
       IN  IF r.s # "ok" THEN r ELSE IF s.s # "ok" THEN s ELSE [s EXCEPT !.vs = <<r.v>> \o @]

\* The body of a function of the program, with its arguments and the constants bound to it.
ApplyUser(f, args, fuel) ==
  LET decl  == prog.funcs[f]
      count == Len(decl.params)
      keys  == [i \in 1 .. count |-> <<"const", decl.params[i].name>>] \o
               [i \in DOMAIN decl.bound |-> <<"bound", decl.bound[i].name>>]
      env   == [key \in {keys[i] : i \in DOMAIN keys} |-> args[CHOOSE i \in DOMAIN keys : keys[i] = key]]
      Returned(r) == IF r.s = "ok" /\ r.v.type # decl.out THEN Stop("stuck") ELSE r
  IN  IF decl.body = <<>> \/ TypesOf(args) # decl.in THEN Stop("stuck")
      ELSE IF fuel = 0 THEN Stop("deep")
      ELSE Returned(Ev(decl.body[1], env, [f |-> f, action |-> decl.action], fuel - 1))

Apply(f, args, env, fr, fuel) ==
  LET decl == prog.funcs[f]
      r    == ApplyUser(f, args, fuel)
  IN  IF decl.action /\ ~fr.action THEN Stop("impure")
      ELSE CASE decl.kind = "user" -> IF r.s = "ok" THEN Ok(r.v, env) ELSE r
             [] decl.kind = "make" -> Ok(Value(decl.out, args), env)
             [] decl.kind = "prim" -> Ok(Value(decl.out, IF decl.out = BoolType THEN <<~args[1].x[1]>> ELSE <<>>), env)

\* A forked call runs to its end here; a lazy one does not run.
Called(f, args, e, env, fr, fuel) ==
  LET r == Apply(f, args, env, fr, fuel)
  IN  CASE e.mode = "lazy" -> IF prog.funcs[f].action /\ ~fr.action THEN Stop("impure") ELSE Ok(Value(e.type, <<>>), env)
        [] e.mode = "fork" -> IF r.s = "ok" THEN Ok(Value(e.type, <<r.v>>), env) ELSE r
        [] OTHER           -> r

EvSwitch(e, i, env, fr, fuel) ==
  LET conds == (Len(e.a) - 1) \div 2
      c     == Ev(e.a[i], env, fr, fuel)
  IN  IF i > conds THEN Ev(Last(e.a), env, fr, fuel)
      ELSE IF c.s # "ok" THEN c
      ELSE IF c.v.x[1] THEN Ev(e.a[conds + i], c.env, fr, fuel) ELSE EvSwitch(e, i + 1, c.env, fr, fuel)

\* The values of the constants bound by the function that runs, which calls of itself pass on.
BoundValues(env, fr) == IF fr.f = NoFunc THEN <<>>
                        ELSE [i \in DOMAIN prog.funcs[fr.f].bound |-> env[<<"bound", prog.funcs[fr.f].bound[i].name>>]]

EvNode(e, env, fr, fuel) ==
  LET kids == EvAll(e.a, env, fr, fuel)
      v    == kids.vs[1]
      is   == Value(BoolType, <<v.x[1].type = e.target>>)
  IN  CASE e.k = "lit"                -> Ok(Value(e.type, IF e.type = BoolType THEN <<e.name = "true">> ELSE <<>>), env)
        [] e.k \in {"const", "bound"} -> IF <<e.k, e.name>> \in DOMAIN env THEN Ok(env[<<e.k, e.name>>], env) ELSE Stop("uninit")
        [] e.k = "fail"               -> Stop("fail")
        [] e.k = "litfunc"            -> Ok(Value(e.type, <<e.func, <<>>>>), env)
        [] e.k = "switch"             -> EvSwitch(e, 1, env, fr, fuel)
        [] OTHER -> IF kids.s # "ok" THEN kids ELSE
      CASE e.k = "assign"  -> Ok(v, (<<"const", e.name>> :> v) @@ kids.env)
        [] e.k = "group"   -> Ok(Last(kids.vs), kids.env)
        [] e.k = "check"   -> Ok(is, kids.env)
        [] e.k = "get"     -> Ok(is, IF is.x[1] THEN (<<"const", e.name>> :> v.x[1]) @@ kids.env ELSE kids.env)
        [] e.k = "field"   -> LET fields == prog.types[v.type[1]].members
                              IN  Ok(v.x[CHOOSE i \in DOMAIN fields : fields[i].name = e.name], kids.env)
        [] e.k = "closure" -> Ok(Value(e.type, <<e.func, kids.vs>>), kids.env)
        [] e.k = "self"    -> Apply(fr.f, kids.vs \o BoundValues(kids.env, fr), kids.env, fr, fuel)
        [] e.k = "dyn"     -> Called(v.x[1], Tail(kids.vs) \o v.x[2], e, kids.env, fr, fuel)
        [] e.k = "call"    -> IF e.func = NoOp THEN Ok(Value(e.type, v.x), kids.env)
                              ELSE Called(e.func, kids.vs, e, kids.env, fr, fuel)

Ev(e, env, fr, fuel) ==
  LET r == EvNode(e, env, fr, fuel)
  IN  IF r.s = "ok" /\ r.v.type # e.type THEN Stop("stuck") ELSE r

---------------------------------------------------------------------------

\* The values of a type that the analysed functions are called with.
RECURSIVE Values(_)
Values(type) ==
  CASE type = BoolType                  -> {Value(type, <<b>>) : b \in BOOLEAN}
    [] isKind(prog, type, "union")      -> {Value(type, <<v>>) : v \in UNION {Values(prog.types[type[1]].members[i].type) :
                                                                   i \in DOMAIN prog.types[type[1]].members}}
    [] isKind(prog, type, "struct")     -> {Value(type, s) : s \in {t \in [DOMAIN prog.types[type[1]].members ->
                                              UNION {Values(prog.types[type[1]].members[i].type) : i \in DOMAIN prog.types[type[1]].members}] :
                                              \A i \in DOMAIN t : t[i].type = prog.types[type[1]].members[i].type}}
    [] isDelegate(type)                 -> {Value(type, <<f, <<>>>>) : f \in {g \in DOMAIN prog.funcs : prog.funcs[g].kind = "user" /\
                                              type \in {getDelegate(prog.funcs[g])} \union Alias(getDelegate(prog.funcs[g]))}}
    [] OTHER                            -> {Value(type, <<>>)}

RECURSIVE Inputs(_)
Inputs(types) == IF types = <<>> THEN {<<>>}
                 ELSE {<<v>> \o rest : v \in Values(Head(types)), rest \in Inputs(Tail(types))}

Outcomes == UNION {{ApplyUser(d.id, args, Fuel).s : args \in Inputs(prog.funcs[d.id].in)} : d \in Range(decls)}
            \union {Ev(execs[i], NoConsts, [f |-> NoFunc, action |-> TRUE], Fuel).s : i \in DOMAIN execs}

\* A program that is accepted runs as its types say: every value has the type of its node, every
\* call has all its arguments and a function to call, and no pure function calls an action,
\* neither directly nor through a delegate, a lambda or an initializer.
AcceptedSound == phase = "accepted" => Outcomes \intersect {"stuck", "impure"} = {}

\* A program that is accepted reads no constant before it has a value, wherever constants are
\* declared: in conditions, operands, branches, groups and lambdas.
ConstsInitialized == phase = "accepted" => "uninit" \notin Outcomes

\* Elseless switches of which the conditions test more than one expression.
RECURSIVE TestsSeveral(_)
TestsSeveral(e) ==
  \/ /\ e.k = "switch" /\ Last(e.a).k = "fail"
     /\ \E i, j \in 1 .. (Len(e.a) - 1) \div 2 : e.a[i].a # e.a[j].a
  \/ \E i \in DOMAIN e.a : TestsSeveral(e.a[i])

\* A switch without an else that is accepted as exhaustive always takes one of its branches,
\* provided that its conditions test the same expression.
ExhaustiveTaken ==
  phase = "accepted" /\ (\A i \in DOMAIN prog.funcs : \A j \in DOMAIN prog.funcs[i].body : ~TestsSeveral(prog.funcs[i].body[j]))
    => "fail" \notin Outcomes

\* A condition after the first one of a switch calls the function: whether it is reached, the
\* check for endless recursion does not ask.
RECURSIVE CallsInLaterCondition(_, _)
CallsInLaterCondition(e, f) ==
  \/ e.k = "switch" /\ \E i \in 2 .. (Len(e.a) - 1) \div 2 : LeadsToInfRec(e.a[i], f)
  \/ \E i \in DOMAIN e.a : CallsInLaterCondition(e.a[i], f)

\* A function that is rejected for calling itself endlessly has no input for which it returns,
\* except where a condition calls it that may not be reached.
RecursionHonest ==
  phase = "rejected" /\ diags = {"errPureFuncInfRecursion"} =>
    \A d \in {g \in Range(decls) : prog.funcs[g.id].body = <<>> /\ isConcrete(prog.funcs[g.id].out)} :
        LET decl == prog.funcs[d.id]
            NeverReturns(body) ==
              CallsInLaterCondition(body, d.id) \/
              \A args \in Inputs(decl.in) :
                   Ev(body, [key \in {<<"const", p.name>> : p \in Range(d.node.params)} |->
                               args[CHOOSE i \in DOMAIN args : d.node.params[i].name = key[2]]],
                      [f |-> d.id, action |-> FALSE], Fuel).s # "ok"
        IN  NeverReturns(GetExpr(d.node.a[1], decl.out, FALSE, [actions |-> decl.action, self |-> <<decl.in, decl.out>>],
                                 [prog |-> prog, diags |-> {},
                                  scopes |-> <<declareFuncInput(prog, d.node.params, TRUE).scope>>]).e)

\* The analysis ends for every source: imports in cycles, functions whose return types depend on
\* one another, initializers that need themselves.
AnalysisEnds == <>(phase \in {"accepted", "rejected"})

=============================================================================
