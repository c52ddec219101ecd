------------------------------- MODULE Language -------------------------------
(***************************************************************************)
(* What a Novus program means, independently of optimizer, backend and     *)
(* machine: "an expression based pure functional language with eager       *)
(* evaluation" (README.md). Arguments are evaluated left to right and      *)
(* before the call, a group yields its last expression, the conditions of  *)
(* a switch are tried in order, a lazy computation runs at most once and   *)
(* only when asked for, a failed fork fails whoever asks for its result.   *)
(*                                                                         *)
(* This is the promise the compiler is held to, so nothing here is taken   *)
(* from it. What is observable is the sequence of printed values and how   *)
(* the program ended. A fork's result is what its call is worth whenever   *)
(* that is asked for: programs whose forks print have more than one        *)
(* behaviour and are not given a meaning.                                  *)
(***************************************************************************)
EXTENDS Prog

(* A result is [st, v, env, out, lazies]: how evaluation went, the value,  *)
(* the constants of the running function, the output, the lazy objects.    *)
NoResult == [st |-> "Success", v |-> <<"null">>, env |-> <<>>, out |-> <<>>, lazies |-> <<>>]

Bind(env, c, v) == (c :> v) @@ env

RECURSIVE Eval(_, _, _, _)

EvalAll(p, f, es, r) ==
    FoldLeft(LAMBDA acc, e : LET s == Eval(p, f, e, acc.r)
                             IN  [r |-> s, vs |-> Append(acc.vs, s.v)],
             [r |-> r, vs |-> <<>>], es)

Apply(p, f, vs, r) ==
    LET ins == Inputs(p.funcs[f].consts)
        env == [c \in Range(ins) |-> vs[CHOOSE i \in DOMAIN ins : ins[i] = c]]
        s   == Eval(p, f, p.funcs[f].body, [r EXCEPT !.env = env])
    IN  IF r.st = "Success" THEN [s EXCEPT !.env = r.env] ELSE r

ApplyMode(p, f, mode, vs, r) ==
    CASE mode = "Normal" -> Apply(p, f, vs, r)
      [] mode = "Forked" -> [r EXCEPT !.v = <<"future", f, vs>>]
      [] mode = "Lazy" ->
            [r EXCEPT !.v = <<"lazy", Len(r.lazies) + 1>>,
                      !.lazies = Append(@, [done |-> FALSE, v |-> <<"null">>, f |-> f, vs |-> vs])]

LazyGet(p, i, r) ==
    LET l == r.lazies[i]
        s == Apply(p, l.f, l.vs, r)
    IN  IF l.done THEN [r EXCEPT !.v = l.v]
        ELSE IF s.st # "Success" THEN s
        ELSE [s EXCEPT !.lazies[i] = [l EXCEPT !.done = TRUE, !.v = s.v]]

Intrinsic(p, e, vs, r) ==
    LET f == e.a.f
    IN  CASE f \in PureOps ->
                IF DividesByZero(f, vs) THEN [r EXCEPT !.st = "DivByZero"]
                ELSE [r EXCEPT !.v = Compute(f, vs)]
          [] f = <<"NoOp", "">> -> [r EXCEPT !.v = IF vs = <<>> THEN IntVal(0) ELSE vs[1]]
          [] f = <<"Make", "Struct">> -> [r EXCEPT !.v = <<"struct", vs>>]
          [] f = <<"Make", "Union">> -> [r EXCEPT !.v = <<"union", e.kids[1].t, vs[1]>>]
          [] f = <<"CheckEq", "Delegate">> -> [r EXCEPT !.v = BoolVal(vs[1][2] = vs[2][2])]
          [] f = <<"SourceLoc", "Line">> -> [r EXCEPT !.v = IntVal(-1)]
          [] f = <<"Future", "Block">> -> Apply(p, vs[1][2], vs[1][3], r)
          [] f = <<"Future", "WaitNano">> -> [r EXCEPT !.v = BoolVal(TRUE)]
          [] IsLazyGet(f) -> LazyGet(p, vs[1][2], r)
          [] f = <<"Action", "StreamWriteString">> -> [r EXCEPT !.v = BoolVal(TRUE), !.out = Append(@, vs[2])]

RECURSIVE EvalSwitch(_, _, _, _, _)
EvalSwitch(p, f, e, i, r) ==
    LET conds == Conditions(e)
        s     == Eval(p, f, conds[i], r)
    IN  IF i > Len(conds) THEN Eval(p, f, Branches(e)[i], r)
        ELSE IF s.st # "Success" THEN s
        ELSE IF s.v = BoolVal(TRUE) THEN Eval(p, f, Branches(e)[i], s)
        ELSE EvalSwitch(p, f, e, i + 1, s)

Eval(p, f, e, r) ==
    LET s    == Eval(p, f, e.kids[1], r)       \* the only child
        args == EvalAll(p, f, e.kids, r)
        dyn  == EvalAll(p, f, Append(Tail(e.kids), e.kids[1]), r)
        ok   == s.st = "Success"
    IN  CASE r.st # "Success" -> r
          [] e.k = "Lit"      -> [r EXCEPT !.v = e.a]
          [] e.k = "LitFunc"  -> [r EXCEPT !.v = <<"fn", e.a, <<>>>>]
          [] e.k = "Const"    -> [r EXCEPT !.v = r.env[e.a]]
          [] e.k = "Fail"     -> [r EXCEPT !.st = "Failed"]
          [] e.k = "Assign"   -> IF ok THEN [s EXCEPT !.env = Bind(@, e.a, s.v)] ELSE s
          [] e.k = "Group"    -> args.r
          [] e.k = "Switch"   -> EvalSwitch(p, f, e, 1, r)
          [] e.k = "Field"    -> IF ok THEN [s EXCEPT !.v = s.v[2][e.a + 1]] ELSE s
          [] e.k = "UnionCheck" -> IF ok THEN [s EXCEPT !.v = BoolVal(s.v[2] = e.a)] ELSE s
          [] e.k = "UnionGet" ->
                IF ~ok THEN s
                ELSE IF s.v[2] # e.a.t THEN [s EXCEPT !.v = BoolVal(FALSE)]
                ELSE [s EXCEPT !.env = Bind(@, e.a.c, s.v[3]), !.v = BoolVal(TRUE)]
          [] e.k = "Closure"  -> [args.r EXCEPT !.v = <<"fn", e.a, args.vs>>]
          [] e.k = "CallSelf" ->
                LET bound == ConstIds(p.funcs[f].consts, {"Bound"})
                IN  Apply(p, f, args.vs \o [i \in DOMAIN bound |-> r.env[bound[i]]], args.r)
          [] e.k = "CallDyn"  ->
                LET fn == Last(dyn.vs)
                IN  IF dyn.r.st # "Success" THEN dyn.r
                    ELSE ApplyMode(p, fn[2], e.a, Front(dyn.vs) \o fn[3], dyn.r)
          [] e.k = "Call"     ->
                IF args.r.st # "Success" THEN args.r
                ELSE IF IsUser(p, e.a.f) THEN ApplyMode(p, e.a.f, e.a.mode, args.vs, args.r)
                ELSE Intrinsic(p, e, args.vs, args.r)

(* The observable behaviour of a whole program: its execute statements one *)
(* after the other, until one fails.                                       *)
Meaning(p) ==
    LET run(r, x) == IF r.st = "Success"
                     THEN Eval(p, <<"None">>, x.body, [r EXCEPT !.env = <<>>]) ELSE r
        end == FoldLeft(run, NoResult, p.execs)
    IN  [st |-> end.st, out |-> end.out]
===============================================================================
