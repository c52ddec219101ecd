------------------------------- MODULE GetExpr -------------------------------
(* Analysis of an expression: from a parse node to a node of the program       *)
(* (frontend/internal/get_expr.cpp, const_binder.cpp,                          *)
(* check_union_exhaustiveness.cpp).                                            *)
(*                                                                             *)
(* st is what the analysis changes: the program (a lambda declares and defines *)
(* a function), the diagnostics, and scopes, the chain of constant tables with *)
(* the innermost last.  A scope has the types of its constants, those that are *)
(* visible, and the constants of its parent that it bound.  No scopes: no      *)
(* ConstBinder, the expression may not use constants at all.                   *)
(*                                                                             *)
(* cx is what it passes down: actions (they may be called) and the signature   *)
(* self refers to.  hint is the type the context prefers, checked tells that   *)
(* the constants the node declares are only visible where it yields true.      *)
EXTENDS TypeInfer

\* A node of the program; no node when the analysis failed.
ExprNode(k, type, a) == [k |-> k, type |-> type, a |-> a, name |-> "", func |-> NoFunc, mode |-> "normal"]
NoNode           == ExprNode("none", Infer, <<>>)

Got(e, st)       == [e |-> e, st |-> st]
reportDiag(st, d) == [st EXCEPT !.diags = @ \union {d}]
Failed(st, d)    == Got(NoNode, reportDiag(st, d))

---------------------------------------------------------------------------
(* Constants *)

EmptyScope == [consts |-> NoConsts, visible |-> {}, bound |-> <<>>]

canBind(scopes, name) == \E i \in DOMAIN scopes : name \in scopes[i].visible

doesExistButNotVisible(scopes, name) ==
  \E i \in DOMAIN scopes : name \in DOMAIN scopes[i].consts \ scopes[i].visible

\* The constant a name refers to, seen from the innermost scope: one of its own or one of an
\* outer scope, which every scope in between binds first. It has to be bindable.
RECURSIVE bind(_, _)
bind(scopes, name) ==
  LET top   == Last(scopes)
      known == {i \in DOMAIN top.bound : top.bound[i].name = name}
      outer == bind(Front(scopes), name)
      entry == [name |-> name, type |-> outer.type, inner |-> outer.k]
  IN  IF name \in top.visible THEN [k |-> "const", type |-> top.consts[name], scopes |-> scopes]
      ELSE IF known # {} THEN [k |-> "bound", type |-> top.bound[Min(known)].type, scopes |-> scopes]
      ELSE [k |-> "bound", type |-> outer.type,
            scopes |-> Append(outer.scopes, [top EXCEPT !.bound = Append(@, entry)])]

registerLocal(scopes, name, type) ==
  [scopes EXCEPT ![Len(scopes)].consts = @ @@ (name :> type),
                 ![Len(scopes)].visible = @ \union {name}]

\* What lambdas see of the constants around them, the innermost scope first.
getAllConstTypes(scopes) ==
  LET visible(s) == [n \in s.visible |-> s.consts[n]]
  IN  FoldLeft(LAMBDA acc, s : visible(s) @@ acc, NoConsts, scopes)

KeepVisible(st, before) == st

\* Constants declared since st are not visible any more.
Hide(st, before) == IF st.scopes = <<>> THEN st
                    ELSE [st EXCEPT !.scopes[Len(st.scopes)].visible = Last(before.scopes).visible]

constNameConflict(st, name) ==
  IF hasType(st.prog, name) THEN "errConstNameConflictsWithType"
  ELSE IF name \in DOMAIN Last(st.scopes).consts THEN "errConstNameConflictsWithConst" ELSE ""

\* declareConst: node is what declares the constant.
declareConst(st, name, type, node) ==
  LET conflict == constNameConflict(st, name)
  IN  IF conflict # "" THEN Failed(st, conflict)
      ELSE Got([node EXCEPT !.name = name], [st EXCEPT !.scopes = registerLocal(@, name, type)])

getConstExpr(st, name) ==
  IF st.scopes = <<>> THEN Failed(st, "errUndeclaredConst")
  ELSE IF canBind(st.scopes, name)
  THEN LET b == bind(st.scopes, name)
       IN  Got([ExprNode(b.k, b.type, <<>>) EXCEPT !.name = name], [st EXCEPT !.scopes = b.scopes])
  ELSE Failed(st, IF doesExistButNotVisible(st.scopes, name) THEN "errUninitializedConst" ELSE "errUndeclaredConst")

---------------------------------------------------------------------------
(* Calls and conversions *)

\* A node converted to a type it is implicitly convertible to.
Convert(prog, e, to) ==
  IF e.type = to THEN e
  ELSE [ExprNode("call", to, <<e>>) EXCEPT !.func = findImplicitConv(prog, e.type, to)]

applyImplicitConversion(st, e, to) ==
  IF Converts(st.prog, e.type, to) THEN Got(Convert(st.prog, e, to), st) ELSE Failed(st, "errNoImplicitConversionFound")

applyImplicitConversions(prog, es, types) == [i \in DOMAIN es |-> Convert(prog, es[i], types[i])]

callNode(prog, f, args, mode) ==
  LET decl == prog.funcs[f]
  IN  [ExprNode("call", CallType(decl.out, decl.action, mode), applyImplicitConversions(prog, args, decl.in))
         EXCEPT !.func = f, !.mode = mode]

TypesOf(es) == [i \in DOMAIN es |-> es[i].type]

\* A call of a name with arguments that have been analysed.
CallNamed(st, name, args, mode, max, noConvOnFirst, cx, error) ==
  LET f == findOverload(st.prog, lookupByName(st.prog, name, ~cx.actions, FALSE), TypesOf(args), max, noConvOnFirst)
  IN  IF f = NoFunc THEN Failed(st, error)
      ELSE IF mode # "normal" /\ st.prog.funcs[f].kind # "user" THEN Failed(st, "errNonUserFunc")
      ELSE Got(callNode(st.prog, f, args, mode), st)

CallDelegate(st, args, mode, cx) ==
  LET del == args[1].type
      f   == findOverload(st.prog, lookupByName(st.prog, "()", ~cx.actions, FALSE), TypesOf(args), -1, FALSE)
  IN  IF ~isDelegate(del) THEN IF f = NoFunc THEN Failed(st, "errUndeclaredCallOperator")
                               ELSE Got(callNode(st.prog, f, args, mode), st)
      ELSE IF ~cx.actions /\ del[4] THEN Failed(st, "errIllegalDelegateCall")
      ELSE IF ~isCallable(st.prog, del, TypesOf(Tail(args)), ~cx.actions) THEN Failed(st, "errIncorrectArgsToDelegate")
      ELSE Got([ExprNode("dyn", CallType(del[3], del[4], mode),
                     <<args[1]>> \o applyImplicitConversions(st.prog, Tail(args), del[2])) EXCEPT !.mode = mode], st)

getLitFunc(prog, f) == IF isConcrete(prog.funcs[f].out)
                       THEN [ExprNode("litfunc", getDelegate(prog.funcs[f]), <<>>) EXCEPT !.func = f] ELSE NoNode

\* The bound arguments are the last inputs of the function, and no inputs of the delegate.
getFuncClosure(prog, f, bound) ==
  LET decl  == prog.funcs[f]
      input == SubSeq(decl.in, 1, Len(decl.in) - Len(bound))
  IN  [ExprNode("closure", Delegate(input, decl.out, decl.action), bound) EXCEPT !.func = f]

---------------------------------------------------------------------------
(* Switches *)

switchNode(conds, branches) == ExprNode("switch", branches[1].type, conds \o branches)
failNode(type) == ExprNode("fail", type, <<>>)

UnionTests(conds) == SelectSeq(conds, LAMBDA c : c.k \in {"check", "get"})
isExhaustiveOnce(prog, conds) == UnionTests(conds) # <<>>

\* Every member of one union type is tested, whatever the values that are tested.
isExhaustive(prog, conds) ==
  LET tests   == UnionTests(conds)
      union   == tests[1].a[1].type
      checked == {tests[i].target : i \in {j \in DOMAIN tests : tests[j].a[1].type = union}}
      members == prog.types[union[1]].members
  IN  tests # <<>> /\ \A i \in DOMAIN members : members[i].type \in checked

\* Branches are converted to the hint or else to what they have in common.
JoinBranches(st, branches, hint) ==
  LET type == IF isConcrete(hint) THEN hint ELSE findCommonType(st.prog, TypesOf(branches))
      bad  == {i \in DOMAIN branches : ~Converts(st.prog, branches[i].type, type)}
  IN  IF ~isConcrete(type) THEN [ok |-> FALSE, branches |-> <<>>, st |-> reportDiag(st, "errBranchesHaveNoCommonType")]
      ELSE IF bad # {} THEN [ok |-> FALSE, branches |-> <<>>, st |-> reportDiag(st, "errNoImplicitConversionFound")]
      ELSE [ok |-> TRUE, branches |-> [i \in DOMAIN branches |-> Convert(st.prog, branches[i], type)], st |-> st]

---------------------------------------------------------------------------
(* visit(n): the node for a parse node. *)

RECURSIVE GetExpr(_, _, _, _, _)
RECURSIVE GetExprs(_, _, _)
RECURSIVE GetClauses(_, _, _, _, _, _)

\* getChildExprs: all of them are analysed, also after one that failed.
GetExprs(ns, cx, st) ==
  IF ns = <<>> THEN [ok |-> TRUE, es |-> <<>>, st |-> st]
  ELSE LET r == GetExpr(Head(ns), Infer, FALSE, cx, st)
           s == GetExprs(Tail(ns), cx, r.st)
       IN  [ok |-> s.ok /\ isConcrete(r.e.type), es |-> <<r.e>> \o s.es, st |-> s.st]

getBinLogicOpExpr(n, checked, cx, st) ==
  LET isAnd == n.name = "&&"
      lhs   == GetExpr(n.a[1], BoolType, isAnd, cx, st)
      right == GetExpr(n.a[2], BoolType, checked /\ isAnd, cx, lhs.st)
      rhs   == [right EXCEPT !.st = IF checked THEN @ ELSE Hide(@, lhs.st)]
      l     == applyImplicitConversion(rhs.st, lhs.e, BoolType)
      r     == applyImplicitConversion(l.st, rhs.e, BoolType)
      lit(v) == [ExprNode("lit", BoolType, <<>>) EXCEPT !.name = v]
  IN  IF lhs.e = NoNode \/ rhs.e = NoNode THEN Got(NoNode, rhs.st)
      ELSE IF l.e = NoNode \/ r.e = NoNode THEN Got(NoNode, r.st)
      ELSE Got(switchNode(<<l.e>>, IF isAnd THEN <<r.e, lit("false")>> ELSE <<lit("true"), r.e>>), r.st)

\* A condition and its branch: the branch sees what the condition declares, nothing after it does.
\* After a condition that is no bool, a conditional does not look at the branch.
GetClause(cond, branch, conditional, hint, cx, st) ==
  LET c == GetExpr(cond, BoolType, TRUE, cx, st)
      v == applyImplicitConversion(c.st, c.e, BoolType)
      b == GetExpr(branch, hint, FALSE, cx, v.st)
  IN  IF c.e = NoNode THEN [cond |-> NoNode, branch |-> NoNode, st |-> Hide(c.st, st)]
      ELSE IF conditional /\ v.e = NoNode THEN [cond |-> NoNode, branch |-> NoNode, st |-> Hide(v.st, st)]
      ELSE [cond |-> v.e, branch |-> b.e, st |-> Hide(b.st, st)]

joinConditional(clause, els, hint) ==
  LET joined == JoinBranches(els.st, <<clause.branch, els.e>>, hint)
  IN  IF clause.branch = NoNode \/ els.e = NoNode THEN Got(NoNode, els.st)
      ELSE Got(IF joined.ok THEN switchNode(<<clause.cond>>, joined.branches) ELSE NoNode, joined.st)

getElse(n, clause, hint, cx, st) ==
  LET els == GetExpr(n.a[3], hint, FALSE, cx, clause.st)
  IN  IF clause.cond = NoNode THEN Got(NoNode, clause.st)
      ELSE joinConditional(clause, Got(els.e, Hide(els.st, st)), hint)

getConditional(n, hint, cx, st) ==
  getElse(n, GetClause(n.a[1], n.a[2], TRUE, hint, cx, st), hint, cx, st)

\* The clauses of a switch from position i on.
GetClauses(n, i, acc, hint, cx, st) ==
  IF i > Len(n.a) THEN [acc EXCEPT !.st = st]
  ELSE IF isElse(n, i)
  THEN LET b == GetExpr(n.a[i], hint, FALSE, cx, st)
       IN  [acc EXCEPT !.st = Hide(b.st, st), !.ok = @ /\ b.e # NoNode,
                       !.branches = IF b.e = NoNode THEN @ ELSE Append(@, b.e)]
  ELSE LET c == GetClause(n.a[i], n.a[i + 1], FALSE, hint, cx, st)
       IN  GetClauses(n, i + 2,
             [acc EXCEPT !.ok = @ /\ c.cond # NoNode /\ c.branch # NoNode,
                         !.conds = IF c.cond = NoNode THEN @ ELSE Append(@, c.cond),
                         !.branches = IF c.branch = NoNode THEN @ ELSE Append(@, c.branch)],
             hint, cx, c.st)

\* Without an else branch there has to be no case left, and a branch that fails stands for it.
completeSwitch(hasElse, conds, joined) ==
  IF ~joined.ok THEN Got(NoNode, joined.st)
  ELSE IF hasElse THEN Got(switchNode(conds, joined.branches), joined.st)
  ELSE IF ~isExhaustive(joined.st.prog, conds) THEN Failed(joined.st, "errNonExhaustiveSwitchWithoutElse")
  ELSE Got(switchNode(conds, Append(joined.branches, failNode(joined.branches[1].type))), joined.st)

joinSwitch(n, clauses, hint) ==
  LET joined == JoinBranches(clauses.st, clauses.branches, hint)
  IN  completeSwitch(Len(n.a) % 2 = 1, clauses.conds, [joined EXCEPT !.ok = @ /\ clauses.ok])

getSwitch(n, hint, cx, st) ==
  joinSwitch(n, GetClauses(n, 1, [ok |-> TRUE, conds |-> <<>>, branches |-> <<>>, st |-> st], hint, cx, st), hint)

getIs(n, checked, cx, st) ==
  LET lhs == GetExpr(n.a[1], Infer, FALSE, cx, st)
      members == st.prog.types[lhs.e.type[1]].members
      test(k) == [ExprNode(k, BoolType, <<lhs.e>>) EXCEPT !.name = ""] @@ [target |-> n.type]
  IN  IF lhs.e = NoNode \/ ~isConcrete(lhs.e.type) THEN Got(NoNode, lhs.st)
      ELSE IF ~isKind(st.prog, lhs.e.type, "union") THEN Failed(lhs.st, "errNonUnionIsExpression")
      ELSE IF \A i \in DOMAIN members : members[i].type # n.type THEN Failed(lhs.st, "errTypeNotPartOfUnion")
      ELSE IF n.name = "" THEN Got(test("check"), lhs.st)
      ELSE IF st.scopes = <<>> THEN Failed(lhs.st, "errConstDeclareNotSupported")
      ELSE IF ~checked THEN Failed(lhs.st, "errUncheckedAsExpressionWithConst")
      ELSE declareConst(lhs.st, n.name, n.type, test("get"))

\* The expressions of a group; one that failed is left out.
RECURSIVE GetGroup(_, _, _, _, _)
GetGroup(ns, hint, checked, cx, st) ==
  IF Len(ns) = 1 THEN LET r == GetExpr(ns[1], hint, checked, cx, st) IN [es |-> <<r.e>>, st |-> r.st]
  ELSE LET r == GetExpr(ns[1], Infer, FALSE, cx, st)
           s == GetGroup(Tail(ns), hint, checked, cx, r.st)
       IN  [es |-> <<r.e>> \o s.es, st |-> s.st]

getSelfCall(n, cx, st) ==
  LET args  == GetExprs(n.a, cx, st)
      input == cx.self[1]
  IN  IF n.mode # "normal" THEN Failed(st, "errForkedOrLazySelfCall")
      ELSE IF cx.self = <<>> THEN Failed(st, "errSelfCallInNonFunc")
      ELSE IF ~isConcrete(cx.self[2]) THEN Failed(st, "errSelfCallWithoutInferredRetType")
      ELSE IF Len(input) # Len(n.a) THEN Failed(st, "errIncorrectNumArgsInSelfCall")
      ELSE IF ~args.ok THEN Got(NoNode, args.st)
      ELSE IF \E i \in DOMAIN input : ~Converts(st.prog, args.es[i].type, input[i])
      THEN Failed(args.st, "errNoImplicitConversionFound")
      ELSE Got(ExprNode("self", cx.self[2], applyImplicitConversions(st.prog, args.es, input)), args.st)

\* The parameters of a function as the constants of a new scope, or what is wrong with them.
declareFuncInput(prog, params, allowInitializer) ==
  LET wrong(i) == CASE hasType(prog, params[i].name)                        -> {"errConstNameConflictsWithType"}
                    [] \E j \in 1 .. i - 1 : params[j].name = params[i].name -> {"errConstNameConflictsWithConst"}
                    [] params[i].init # <<>> /\ ~allowInitializer            -> {"errUnsupportedArgInitializer"}
                    [] OTHER                                                -> {}
      names == {params[i].name : i \in DOMAIN params}
  IN  [wrong |-> UNION {wrong(i) : i \in DOMAIN params},
       scope |-> [consts  |-> [m \in names |-> params[CHOOSE i \in DOMAIN params : params[i].name = m].type],
                  visible |-> names, bound |-> <<>>]]

\* A lambda becomes a function of the program. The constants it uses of the functions around it
\* become inputs after its own.
closeLambda(n, ret, conv) ==
  LET bound  == Last(conv.st.scopes).bound
      after  == [conv.st EXCEPT !.scopes = Front(@)]
      decl   == [name |-> "lambda", in |-> [i \in DOMAIN n.params |-> n.params[i].type] \o TypesOf(bound), out |-> ret,
                 opt |-> 0, action |-> n.action, implicit |-> FALSE, kind |-> "user", params |-> n.params, bound |-> bound,
                 body |-> <<conv.e>>, inits |-> <<>>]
      done   == [after EXCEPT !.prog.funcs = Append(@, decl)]
      args   == [i \in DOMAIN bound |-> [ExprNode(bound[i].inner, bound[i].type, <<>>) EXCEPT !.name = bound[i].name]]
      f      == Len(conv.st.prog.funcs) + 1
  IN  IF conv.e = NoNode THEN Got(NoNode, after)
      ELSE Got(IF bound = <<>> THEN getLitFunc(done.prog, f) ELSE getFuncClosure(done.prog, f, args), done)

defineLambda(n, ret, body) ==
  LET outer == [body.st EXCEPT !.scopes = Front(@)]
  IN  IF body.e = NoNode THEN Got(NoNode, outer)
      ELSE IF ~isConcrete(ret) THEN Failed(outer, "errUnableToInferLambdaReturnType")
      ELSE closeLambda(n, ret, applyImplicitConversion(body.st, body.e, ret))

getLambdaBody(n, ret, scope, st) ==
  defineLambda(n, ret, GetExpr(n.a[1], ret, FALSE,
    [actions |-> n.action, self |-> <<[i \in DOMAIN n.params |-> n.params[i].type], ret>>],
    [st EXCEPT !.scopes = Append(@, scope)]))

getAnonFunc(n, st) ==
  LET params == declareFuncInput(st.prog, n.params, FALSE)
  IN  IF params.wrong # {} THEN Got(NoNode, [st EXCEPT !.diags = @ \union params.wrong])
      ELSE getLambdaBody(n, IF isConcrete(n.type) THEN n.type
                            ELSE InferBody(st.prog, n, getAllConstTypes(st.scopes),
                                           [aggressive |-> TRUE, actions |-> n.action, errors |-> st.diags # {}]),
                         params.scope, st)

getDynCall(ns, mode, cx, st) ==
  LET args == GetExprs(ns, cx, st)
  IN  IF ~args.ok THEN Got(NoNode, args.st) ELSE CallDelegate(args.st, args.es, mode, cx)

\* An instance that could not be analysed is left out of the arguments, the call goes on without it.
getCall(n, cx, st) ==
  LET first == GetExprs(IF n.inst THEN <<n.a[1]>> ELSE <<>>, cx, st)
      rest  == GetExprs(IF n.inst THEN Tail(n.a) ELSE n.a, cx, first.st)
      inst  == SelectSeq(first.es, LAMBDA e : e # NoNode)
      ok    == rest.ok /\ \A i \in DOMAIN inst : isConcrete(inst[i].type)
  IN  IF IF n.inst THEN ~isFuncOrConv(st.prog, n.name) ELSE canBind(st.scopes, n.name)
      THEN getDynCall(DynTarget(n), n.mode, cx, st)
      ELSE IF ~ok THEN Got(NoNode, rest.st)
      ELSE CallNamed(rest.st, n.name, inst \o rest.es, n.mode, -1, n.inst, cx, "errUndeclaredFunc")

getField(n, cx, st) ==
  LET lhs    == GetExpr(n.a[1], Infer, FALSE, cx, st)
      fields == IF isKind(st.prog, lhs.e.type, "struct") THEN st.prog.types[lhs.e.type[1]].members ELSE <<>>
      at     == {i \in DOMAIN fields : fields[i].name = n.name}
  IN  IF lhs.e = NoNode THEN lhs
      ELSE IF at = {} THEN Failed(lhs.st, "errFieldNotFoundOnType")
      ELSE Got([ExprNode("field", fields[Min(at)].type, <<lhs.e>>) EXCEPT !.name = n.name], lhs.st)

getStaticField(n, st) ==
  IF ~isKind(st.prog, n.type, "enum") THEN Failed(st, "errStaticFieldNotFoundOnType")
  ELSE LET entries == st.prog.types[n.type[1]].members
       IN  IF \E i \in DOMAIN entries : entries[i].name = n.name THEN Got(ExprNode("lit", n.type, <<>>), st)
           ELSE Failed(st, "errValueNotFoundInEnum")

getOperatorCall(n, name, max, cx, st, error) ==
  LET args == GetExprs(n.a, cx, st)
  IN  IF ~args.ok THEN Got(NoNode, args.st) ELSE CallNamed(args.st, name, args.es, "normal", max, FALSE, cx, error)

getId(n, st) ==
  LET funcs == lookupByName(st.prog, n.name, FALSE, TRUE)
  IN  IF canBind(st.scopes, n.name) \/ funcs = <<>> THEN getConstExpr(st, n.name)
      ELSE IF Len(funcs) > 1 THEN Failed(st, "errAmbiguousFunction")
      ELSE Got(getLitFunc(st.prog, funcs[1]), st)

getConstDecl(n, cx, st) ==
  LET value == GetExpr(n.a[1], Infer, FALSE, cx, st)
  IN  IF st.scopes = <<>> THEN Failed(st, "errConstDeclareNotSupported")
      ELSE IF value.e = NoNode THEN value
      ELSE declareConst(value.st, n.name, value.e.type, ExprNode("assign", value.e.type, <<value.e>>))

getGroupExpr(n, hint, checked, cx, st) ==
  LET r  == GetGroup(n.a, hint, checked, cx, st)
      es == SelectSeq(r.es, LAMBDA e : e # NoNode)
  IN  Got(IF Len(es) > 1 THEN ExprNode("group", Last(es).type, es) ELSE NoNode, r.st)

GetExpr(n, hint, checked, cx, st) ==
  CASE n.k = "lit"    -> Got([ExprNode("lit", n.type, <<>>) EXCEPT !.name = n.name], st)
    [] n.k = "paren"  -> GetExpr(n.a[1], hint, checked, cx, st)
    [] n.k = "id"     -> getId(n, st)
    [] n.k = "decl"   -> getConstDecl(n, cx, st)
    [] n.k = "logic"  -> getBinLogicOpExpr(n, checked, cx, st)
    [] n.k = "binary" -> getOperatorCall(n, n.name, 1, cx, st, "errUndeclaredBinOperator")
    [] n.k = "unary"  -> getOperatorCall(n, n.name, 0, cx, st, "errUndeclaredUnaryOperator")
    [] n.k = "index"  -> getOperatorCall(n, "[]", -1, cx, st, "errUndeclaredIndexOperator")
    [] n.k = "group"  -> getGroupExpr(n, hint, checked, cx, st)
    [] n.k = "cond"   -> getConditional(n, hint, cx, st)
    [] n.k = "switch" -> getSwitch(n, hint, cx, st)
    [] n.k = "is"     -> getIs(n, checked, cx, st)
    [] n.k = "lambda" -> getAnonFunc(n, st)
    [] n.k = "self"   -> getSelfCall(n, cx, st)
    [] n.k = "dyn"    -> getDynCall(n.a, n.mode, cx, st)
    [] n.k = "call"   -> getCall(n, cx, st)
    [] n.k = "field"  -> getField(n, cx, st)
    [] n.k = "static" -> getStaticField(n, st)

=============================================================================
