------------------------------- MODULE Optimizer -------------------------------
(***************************************************************************)
(* The optimizer (src/opt): four passes over a program. Each rewrites the  *)
(* function bodies (never the execute statements) and reports whether it   *)
(* changed anything; module Compiler runs them the way optimize() does.    *)
(*                                                                         *)
(* A rewriter is a recursive operator that takes a node and the rewriter's *)
(* member variables and returns [e, s]: the new node and the new members.  *)
(* Its default is clone(this): the node with each child rewritten in order.*)
(***************************************************************************)
EXTENDS Prog

CONSTANT MaxInlineSize   \* g_maxInlineSrcFuncSize

ASSUME MaxInlineSizeAssumption == MaxInlineSize \in Nat

NodesOf(e, kinds) == SelectSeq(Nodes(e), LAMBDA n : n.k \in kinds)

-------------------------------------------------------------------------------
(* What is reachable: find_called_funcs.cpp follows calls only,            *)
(* find_used_funcs.cpp also functions taken as values, find_used_types.cpp *)
(* the types of nodes and what those are made of.                          *)

CalledIn(e) == LET ns == NodesOf(e, {"Call"}) IN {ns[i].a.f : i \in DOMAIN ns}

UsedIn(e) ==
    LET ns == NodesOf(e, {"Closure", "LitFunc"})
    IN  CalledIn(e) \cup {ns[i].a : i \in DOMAIN ns}

(* Mutant: the functions that reachable functions refer to are missed.     *)

RECURSIVE Reachable(_, _, _)
Reachable(p, fs, asValue) ==
    LET refs(e) == IF asValue THEN UsedIn(e) ELSE CalledIn(e)
        more == fs \cup UNION {refs(p.funcs[f].body) : f \in fs \cap DOMAIN p.funcs}
    IN  IF more = fs THEN fs ELSE Reachable(p, more, asValue)

TypesIn(e) == LET ns == Nodes(e) IN {ns[i].t : i \in DOMAIN ns}

RECURSIVE MarkTypes(_)
MarkTypes(ts) ==
    LET parts(t) == Range(IF t \in DOMAIN Structs THEN Structs[t]
                          ELSE IF t \in DOMAIN Unions THEN Unions[t] ELSE <<>>)
        more == ts \cup UNION {parts(t) : t \in ts}
    IN  IF more = ts THEN ts ELSE MarkTypes(more)

ExecRefs(p) == UNION {UsedIn(p.execs[i].body) : i \in DOMAIN p.execs}

Treeshake(p) ==
    LET funcs == Reachable(p, ExecRefs(p), TRUE)
        types == MarkTypes(UNION ({TypesIn(p.execs[i].body) : i \in DOMAIN p.execs}
                                    \cup {TypesIn(p.funcs[f].body) : f \in funcs \cap DOMAIN p.funcs}))
    IN  [p EXCEPT !.funcs = [f \in funcs \cap DOMAIN p.funcs |-> p.funcs[f]],
                  !.types = @ \cap types]

-------------------------------------------------------------------------------
(* expr_matchers.cpp                                                       *)

IsRecursive(p, f) ==
    \/ NodesOf(p.funcs[f].body, {"CallSelf"}) # <<>>
    \/ f \in Reachable(p, CalledIn(p.funcs[f].body), FALSE)

HasSideEffect(p, e) ==
    LET ns == Nodes(e)
    IN  \E i \in DOMAIN ns :
            \/ ns[i].k = "Call" /\ ns[i].a.mode # "Lazy" /\ IsActionFunc(p, ns[i].a.f)
            \/ ns[i].k = "CallDyn" /\ ns[i].kids[1].t = "action"
            \/ ns[i].k \in {"Assign", "UnionGet"}

-------------------------------------------------------------------------------
(* const_elimination.cpp. Members: consts, the replace map, modified.      *)

ConstUsage(e, c) == Len(SelectSeq(Nodes(e), LAMBDA n : n.k = "Const" /\ n.a = c))

RECURSIVE IsCheapIntrinsic(_, _)
IsCheapIntrinsic(p, e) ==
    \/ IsLiteral(e)
    \/ /\ e.k = "Call"
       /\ \A i \in DOMAIN e.kids : IsCheapIntrinsic(p, e.kids[i])
       /\ ~IsActionFunc(p, e.a.f)
       /\ ~IsUser(p, e.a.f)

(* Mutant: the initializer's side effects are not looked for.              *)
ShouldBeEliminatedAnyway(p, body, c, e) ==
    \/ ConstUsage(body, c) <= 1
    \/ e.k = "Const"
    \/ IsCheapIntrinsic(p, e)

ShouldBeEliminated(p, body, c, e) ==
    /\ ~HasSideEffect(p, e)
    /\ \/ ConstUsage(body, c) <= 1
       \/ e.k = "Const"
       \/ IsCheapIntrinsic(p, e)

Eliminate(s, c, e) ==
    [consts |-> EraseConst(s.consts, c), replace |-> (c :> e) @@ s.replace, modified |-> TRUE]

RECURSIVE ElimRewrite(_, _, _, _)

ElimClone(p, body, e, s) ==
    LET step(acc, x) == LET r == ElimRewrite(p, body, x, acc.s)
                        IN  [kids |-> Append(acc.kids, r.e), s |-> r.s]
        r == FoldLeft(step, [kids |-> <<>>, s |-> s], e.kids)
    IN  [e |-> [e EXCEPT !.kids = r.kids], s |-> r.s]

(* A declaration in a group, not its last expression, whose initializer    *)
(* may be moved disappears; the initializer takes the place of its uses.   *)
ElimGroup(p, body, e, s) ==
    LET step(acc, i) ==
          LET x == e.kids[i]
              r == ElimRewrite(p, body, IF x.k = "Assign" THEN x.kids[1] ELSE x, acc.s)
          IN  IF x.k # "Assign" THEN [kids |-> Append(acc.kids, r.e), s |-> r.s]
              ELSE IF i # Len(e.kids) /\ ShouldBeEliminated(p, body, x.a, r.e)
              THEN [kids |-> acc.kids, s |-> Eliminate(r.s, x.a, r.e)]
              ELSE [kids |-> Append(acc.kids, [x EXCEPT !.kids = <<r.e>>]), s |-> r.s]
        r == FoldLeft(step, [kids |-> <<>>, s |-> s], [i \in DOMAIN e.kids |-> i])
    IN  [e |-> IF Len(r.kids) > 1 THEN [e EXCEPT !.kids = r.kids] ELSE r.kids[1], s |-> r.s]

ElimRewrite(p, body, e, s) ==
    CASE e.k = "Group" -> ElimGroup(p, body, e, s)
      [] e.k = "Const" /\ e.a \in DOMAIN s.replace -> [e |-> s.replace[e.a], s |-> s]
      [] OTHER -> ElimClone(p, body, e, s)

ElimFunc(p, f) ==
    LET fn == p.funcs[f]
        r  == ElimRewrite(p, fn.body, fn.body,
                          [consts |-> fn.consts, replace |-> <<>>, modified |-> FALSE])
    IN  [fn |-> [fn EXCEPT !.consts = r.s.consts, !.body = r.e], modified |-> r.s.modified]

-------------------------------------------------------------------------------
(* intrinsics.cpp: what the compiler makes of an intrinsic on literals. It *)
(* follows the machine except that integers are shifted right as signed.   *)

IsPrecomputable(f) == f \in (PureOps \ {<<"CheckEmpty", "String">>}) \cup {<<"SourceLoc", "Line">>}

FoldSlice(s, from, to) ==
    LET start == IF from < 0 THEN 0 ELSE from
        end0  == IF to < 0 THEN 0 ELSE to
        end   == IF end0 >= Len(s) THEN Len(s) ELSE end0
    IN  SubSeq(s, (IF start > end THEN end ELSE start) + 1, end)

FoldIndex(s, i) == IF i < 0 \/ i >= Len(s) THEN 0 ELSE s[i + 1]

Fold(f, vs) ==
    CASE f[1] = "ShiftRight" -> <<vs[1][1], vs[1][2] \div 2^vs[2][2]>>
      [] f = <<"Slice", "String">> -> <<"str", FoldSlice(vs[1][2], vs[2][2], vs[3][2])>>
      [] f = <<"Index", "String">> -> <<"int", FoldIndex(vs[1][2], vs[2][2])>>
      [] f = <<"SourceLoc", "Line">> -> <<"int", -1>>
      [] OTHER -> Compute(f, vs)

(* The kind of literal node the folded result is.                          *)
FoldType(f) ==
    CASE f[1] \in Comparisons -> "bool"
      [] f \in {<<"Conv", "IntChar">>, <<"Conv", "LongChar">>, <<"Conv", "FloatChar">>,
                <<"Index", "String">>} -> "char"
      [] f \in {<<"Conv", "LongInt">>, <<"Conv", "FloatInt">>, <<"Length", "String">>,
                <<"SourceLoc", "Line">>} -> "int"
      [] f \in {<<"Conv", "IntLong">>, <<"Conv", "FloatLong">>} -> "long"
      [] f \in {<<"Conv", "CharString">>, <<"Conv", "IntString">>, <<"Conv", "LongString">>,
                <<"Append", "Char">>} -> "string"
      [] f[2] = "Float" \/ f \in {<<"Conv", "IntFloat">>, <<"Conv", "LongFloat">>} -> "float"
      [] OTHER -> CASE f[2] = "Int" -> "int" [] f[2] = "Long" -> "long" [] f[2] = "String" -> "string"

(* maybePrecomputeReinterpretConv: literals that keep their bits.          *)
Reinterpretable == {<<"char", "int">>, <<"bool", "int">>, <<"enum", "int">>, <<"int", "enum">>}

CanFold(f, vs) == ~DividesByZero(f, vs)

IsZero(e) == IsLiteral(e) /\ e.a = <<"int", 0>>
IsEmptyLit(e) == IsLiteral(e) /\ e.a = <<"str", <<>>>>

(* maybeSimplifyIntrinsic: comparisons with zero and the empty string, and *)
(* concatenations of the empty string; <<>> when there is nothing to do.   *)
MaybeSimplify(f, args) ==
    CASE f = <<"CheckEq", "Int">> ->
            (CASE IsZero(args[2]) -> <<Call(<<"CheckZero", "Int">>, "Normal", "bool", <<args[1]>>)>>
               [] IsZero(args[1]) -> <<Call(<<"CheckZero", "Int">>, "Normal", "bool", <<args[2]>>)>>
               [] OTHER -> <<>>)
      [] f = <<"CheckEq", "String">> ->
            (CASE IsEmptyLit(args[2]) -> <<Call(<<"CheckEmpty", "String">>, "Normal", "bool", <<args[1]>>)>>
               [] IsEmptyLit(args[1]) -> <<Call(<<"CheckEmpty", "String">>, "Normal", "bool", <<args[2]>>)>>
               [] OTHER -> <<>>)
      [] f = <<"Add", "String">> ->
            (CASE IsEmptyLit(args[2]) -> <<args[1]>>
               [] IsEmptyLit(args[1]) -> <<args[2]>>
               [] OTHER -> <<>>)
      [] OTHER -> <<>>

-------------------------------------------------------------------------------
(* precompute_literals.cpp. Member: modified.                              *)

RECURSIVE PreRewrite(_, _)

RewriteAll(es, s) ==
    LET step(acc, x) == LET r == PreRewrite(x, acc.s)
                        IN  [es |-> Append(acc.es, r.e), s |-> r.s]
    IN  FoldLeft(step, [es |-> <<>>, s |-> s], es)

PreClone(e, s) ==
    LET r == RewriteAll(e.kids, s) IN [e |-> [e EXCEPT !.kids = r.es], s |-> r.s]

PrecomputeIntrinsicCall(e, s) ==
    LET f    == e.a.f
        r    == RewriteAll(e.kids, s)
        vs   == [i \in DOMAIN r.es |-> r.es[i].a]
        lits == (\A i \in DOMAIN r.es : IsLiteral(r.es[i])) /\ CanFold(f, vs)
        simple == MaybeSimplify(f, r.es)
    IN  CASE lits /\ (FoldType(f) = e.t \/ <<FoldType(f), e.t>> \in Reinterpretable) ->
                [e |-> Lit(Fold(f, vs), e.t), s |-> TRUE]
          [] OTHER -> [e |-> IF simple # <<>> THEN simple[1] ELSE [e EXCEPT !.kids = r.es], s |-> r.s]

PrecomputeReinterpretConvCall(e, s) ==
    LET r == PreRewrite(e.kids[1], s)
    IN  CASE r.e.t = e.t -> [e |-> r.e, s |-> TRUE]
          [] r.e.t # e.t /\ r.e.k = "Lit" /\ <<r.e.t, e.t>> \in Reinterpretable ->
                [e |-> Lit(r.e.a, e.t), s |-> TRUE]
          [] OTHER -> [e |-> [e EXCEPT !.kids = <<r.e>>], s |-> r.s]

(* Asking a lazy call for its value at once is the call itself. The target *)
(* of a dynamic one is cloned, only its children are rewritten.            *)
PrecomputeLazyGetCall(e, s) ==
    LET arg == e.kids[1]
        lhs == PreClone(arg.kids[1], s)
    IN  CASE arg.k = "Call" /\ arg.a.mode = "Lazy" ->
                LET r == RewriteAll(arg.kids, s)
                IN  [e |-> Call(arg.a.f, "Normal", e.t, r.es), s |-> r.s]
          [] arg.k = "CallDyn" /\ arg.a = "Lazy" ->
                LET r == RewriteAll(Tail(arg.kids), lhs.s)
                IN  [e |-> Node("CallDyn", "Normal", e.t, <<lhs.e>> \o r.es), s |-> r.s]
          [] OTHER -> PreClone(e, s)

PrecomputeCall(e, s) ==
    CASE e.a.mode # "Normal" -> PreClone(e, s)
      [] e.a.mode = "Normal" /\ IsPrecomputable(e.a.f) -> PrecomputeIntrinsicCall(e, s)
      [] e.a.mode = "Normal" /\ e.a.f = <<"NoOp", "">> /\ Len(e.kids) = 1 -> PrecomputeReinterpretConvCall(e, s)
      [] e.a.mode = "Normal" /\ IsLazyGet(e.a.f) -> PrecomputeLazyGetCall(e, s)
      [] OTHER -> PreClone(e, s)

(* A call of a function literal or closure is a static call.               *)
PrecomputeCallDyn(e, s) ==
    LET tgt  == e.kids[1]
        args == RewriteAll(Tail(e.kids) \o (IF tgt.k = "Closure" THEN tgt.kids ELSE <<>>), s)
    IN  IF e.a = "Normal" /\ tgt.k \in {"LitFunc", "Closure"}
        THEN [e |-> Call(tgt.a, "Normal", e.t, args.es), s |-> args.s]
        ELSE PreClone(e, s)

RECURSIVE PickBranch(_, _, _, _)
PickBranch(conds, branches, i, s) ==
    IF i > Len(conds) THEN [conds |-> conds, branches |-> branches, s |-> s]
    ELSE IF conds[i].k # "Lit" THEN PickBranch(conds, branches, i + 1, s)
    ELSE IF conds[i].a = BoolVal(TRUE)
         THEN [conds |-> <<>>, branches |-> <<branches[i]>>, s |-> TRUE]
         ELSE PickBranch(RemoveAt(conds, i), RemoveAt(branches, i), i, TRUE)

PrecomputeSwitch(e, s) ==
    LET cs == RewriteAll(Conditions(e), s)
        bs == RewriteAll(Branches(e), cs.s)
        r  == PickBranch(cs.es, bs.es, 1, bs.s)
    IN  [e |-> IF r.conds = <<>> THEN r.branches[1] ELSE [e EXCEPT !.kids = r.conds \o r.branches],
         s |-> r.s]

PrecomputeField(e, s) ==
    LET load == e.kids[1]
    IN  IF load.k = "Call" /\ load.a.f = <<"Make", "Struct">>
        THEN PreRewrite(load.kids[e.a + 1], s)
        ELSE PreClone(e, s)

PreRewrite(e, s) ==
    CASE e.k = "Call"    -> PrecomputeCall(e, s)
      [] e.k = "CallDyn" -> PrecomputeCallDyn(e, s)
      [] e.k = "Switch"  -> PrecomputeSwitch(e, s)
      [] e.k = "Field"   -> PrecomputeField(e, s)
      [] OTHER           -> PreClone(e, s)

PrecomputeFunc(p, f) ==
    LET r == PreRewrite(p.funcs[f].body, FALSE)
    IN  [fn |-> [p.funcs[f] EXCEPT !.body = r.e], modified |-> r.s]

-------------------------------------------------------------------------------
(* call_inline.cpp, const_remapper.cpp. Members: consts, modified.         *)

IsInlinable(p, f, e) ==
    LET g == e.a.f
    IN  /\ IsUser(p, g)
        /\ e.a.mode = "Normal"
        /\ g # f
        /\ ~p.funcs[g].noinline
        /\ Len(Nodes(p.funcs[g].body)) <= MaxInlineSize
        /\ ~IsRecursive(p, g)

RECURSIVE Remap(_, _)
Remap(e, to) ==
    LET kids == [i \in DOMAIN e.kids |-> Remap(e.kids[i], to)]
    IN  CASE e.k \in {"Assign", "Const"} -> [e EXCEPT !.kids = kids, !.a = to[e.a]]
          [] e.k = "UnionGet" -> [e EXCEPT !.kids = kids, !.a.c = to[e.a.c]]
          [] OTHER -> [e EXCEPT !.kids = kids]

(* registerTargetConsts: every constant of the target becomes a new local. *)
RegisterTargetConsts(consts, tgt) ==
    FoldLeft(LAMBDA acc, d : LET c == RegisterConst(acc.consts, "Local")
                             IN  [consts |-> c, to |-> (d.id :> c.high) @@ acc.to],
             [consts |-> consts, to |-> <<>>], tgt.list)

RECURSIVE InlineRewrite(_, _, _, _)

InlineCall(p, f, e, s) ==
    LET tgt == p.funcs[e.a.f]
        reg == RegisterTargetConsts(s.consts, tgt.consts)
        ins == Inputs(tgt.consts)
        assign(acc, i) ==
            LET r == InlineRewrite(p, f, e.kids[i], acc.s)
            IN  [es |-> Append(acc.es, Node("Assign", reg.to[ins[i]], r.e.t, <<r.e>>)), s |-> r.s]
        as   == FoldLeft(assign, [es |-> <<>>, s |-> [consts |-> reg.consts, modified |-> TRUE]],
                         [i \in DOMAIN ins |-> i])
        body == InlineRewrite(p, f, Remap(tgt.body, reg.to), as.s)
    IN  [e |-> IF as.es = <<>> THEN body.e ELSE Node("Group", <<>>, e.t, Append(as.es, body.e)),
         s |-> body.s]

InlineRewrite(p, f, e, s) ==
    LET step(acc, x) == LET r == InlineRewrite(p, f, x, acc.s)
                        IN  [kids |-> Append(acc.kids, r.e), s |-> r.s]
        clone == FoldLeft(step, [kids |-> <<>>, s |-> s], e.kids)
    IN  IF e.k = "Call" /\ IsInlinable(p, f, e)
        THEN InlineCall(p, f, e, s)
        ELSE [e |-> [e EXCEPT !.kids = clone.kids], s |-> clone.s]

InlineFunc(p, f) ==
    LET fn == p.funcs[f]
        r  == InlineRewrite(p, f, fn.body, [consts |-> fn.consts, modified |-> FALSE])
    IN  [fn |-> [fn EXCEPT !.consts = r.s.consts, !.body = r.e], modified |-> r.s.modified]

-------------------------------------------------------------------------------
(* prog_rewrite.cpp: every function is rewritten against the old program;  *)
(* rs holds what the rewriter made of each.                                *)
RewriteProg(p, rs) ==
    [prog |-> [p EXCEPT !.funcs = [f \in DOMAIN p.funcs |-> rs[f].fn]],
     modified |-> \E f \in DOMAIN p.funcs : rs[f].modified]

EliminateConsts(p) == RewriteProg(p, [f \in DOMAIN p.funcs |-> ElimFunc(p, f)])
PrecomputeLiterals(p) == RewriteProg(p, [f \in DOMAIN p.funcs |-> PrecomputeFunc(p, f)])
InlineCalls(p) == RewriteProg(p, [f \in DOMAIN p.funcs |-> InlineFunc(p, f)])
===============================================================================
